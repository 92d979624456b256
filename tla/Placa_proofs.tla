---------------------------- MODULE Placa_proofs ----------------------------
(* The board: what was proved of its parts holds of the whole, since a step  *)
(* of the board is a step of one part and the others rest. The proofs on the *)
(* busy loop are here too, for the names of its variables, and those on the  *)
(* map of addresses.                                                         *)
EXTENDS Placa, Suporte_proofs, Tempo_proofs

-----------------------------------------------------------------------------
(* The busy loop of usleep (alt_busy_sleep.c).                              *)

\* A natural number is a multiple of the divisor and a rest below it.
LEMMA Quotient ==
  ASSUME NEW a \in Nat, NEW b \in Nat \ {0}
  PROVE  \E q \in Nat, r \in 0..(b - 1) : a \div b = q /\ a % b = r /\ a = q * b + r /\ q * b \in Nat
<1>1. \E q \in Nat, r \in 0..(b - 1) : a \div b = q /\ a % b = r /\ a = b * q + r
  OBVIOUS
<1>2. \A q \in Nat : b * q = q * b /\ q * b \in Nat
  OBVIOUS
<1> QED
  BY <1>1, <1>2

\* A number of at least the divisor and below its double holds it once: the one big
\* loop of a request between INT_MAX / rate and its double (alt_busy_sleep.c:74-77).
LEMMA OneQuotient ==
  ASSUME NEW a \in Nat, NEW b \in Nat \ {0}, b <= a, a < 2 * b
  PROVE  a \div b = 1
<1>1. PICK q \in Nat, r \in 0..(b - 1) : a \div b = q /\ a = q * b + r /\ q * b \in Nat
  BY Quotient
<1>2. q < 2
  <2>1. SUFFICES ASSUME 2 <= q PROVE FALSE
    OBVIOUS
  <2>2. 2 * b <= q * b
    BY <2>1, Monotone
  <2> QED
    BY <1>1, <2>2
<1>3. q # 0
  BY <1>1
<1> QED
  BY <1>1, <1>2, <1>3

\* Requests of at most one big loop that leave something after it: those the code, whose
\* branch for longer ones differs from its comment, is right for (alt_busy_sleep.c:77-97).
ShortRequests == \A r \in Requests : r < 2 * Chunk /\ r # Chunk

SleepInv ==
  /\ asked \in Requests
  /\ pc \in {"entry", "big", "short", "return"}
  /\ pc = "entry" => us = asked /\ reg = INT_MAX /\ i = 0 /\ iterations = 0
  /\ pc = "short" => us = asked /\ asked < Chunk /\ iterations = 0
  /\ pc = "big" =>
       /\ asked > Chunk
       /\ \/ i = 0 /\ us = asked /\ reg = INT_MAX /\ iterations = 0
          \/ i = 1 /\ us = asked - Chunk /\ iterations = INT_MAX
  /\ Calibrated

\* The numbers of the build.
LEMMA SleepNumbers ==
  ASSUME ShortRequests
  PROVE  /\ INT_MAX \in Nat \ {0} /\ Chunk \in Nat \ {0} /\ INT_MAX < WordMod /\ WordMod \in Nat
         /\ Factor \in Nat \ {0}
         /\ \E c \in Nat, r \in Nat : c = Chunk * Factor /\ r = INT_MAX % Factor /\ INT_MAX = c + r
         /\ \A r \in Requests : /\ r \in Nat /\ r * Factor \in Nat
                                /\ r < Chunk => r \div Chunk = 0 /\ r * Factor < WordMod
                                /\ r >= Chunk => /\ r \div Chunk = 1 /\ r > Chunk
                                                 /\ (r - Chunk) * Factor = r * Factor - Chunk * Factor
                                                 /\ (r - Chunk) * Factor \in 1..(WordMod - 1)
<1>1. /\ INT_MAX \in Nat \ {0} /\ INT_MAX < WordMod /\ WordMod \in Nat /\ Factor \in Nat \ {0}
      /\ Factor <= INT_MAX
  <2>1. WordMod \in Nat /\ Factor \in Nat \ {0} /\ Factor <= WordMod \div 2 - 1
    BY SleepAssumption
  <2>2. INT_MAX = WordMod \div 2 - 1
    BY DEF INT_MAX
  <2> QED
    BY <2>1, <2>2
<1>2. /\ Chunk \in Nat /\ Chunk * Factor \in Nat /\ Chunk * Factor <= INT_MAX /\ Chunk # 0
      /\ \E c \in Nat, r \in Nat : c = Chunk * Factor /\ r = INT_MAX % Factor /\ INT_MAX = c + r
  <2>1. PICK q \in Nat, r \in 0..(Factor - 1) :
          INT_MAX \div Factor = q /\ INT_MAX % Factor = r /\ INT_MAX = q * Factor + r /\ q * Factor \in Nat
    BY <1>1, Quotient
  <2>2. Chunk = q
    BY <2>1 DEF Chunk
  <2>3. q # 0
    BY <1>1, <2>1
  <2> QED
    BY <1>1, <2>1, <2>2, <2>3
<1>3. Chunk \in Nat \ {0}
  BY <1>2
<1>4. ASSUME NEW r \in Requests
      PROVE  /\ r \in Nat /\ r * Factor \in Nat
             /\ r < Chunk => r \div Chunk = 0 /\ r * Factor < WordMod
             /\ r >= Chunk => /\ r \div Chunk = 1 /\ r > Chunk
                              /\ (r - Chunk) * Factor = r * Factor - Chunk * Factor
                              /\ (r - Chunk) * Factor \in 1..(WordMod - 1)
  <2>1. r \in Nat /\ r < 2 * Chunk /\ r # Chunk
    BY SleepAssumption DEF ShortRequests
  <2>2. r * Factor \in Nat
    BY <1>1, <2>1
  <2>3. ASSUME r < Chunk
        PROVE  r \div Chunk = 0 /\ r * Factor < WordMod
    <3>1. r \div Chunk = 0
      BY <1>2, <1>3, <2>1, <2>3
    <3>2. r * Factor <= Chunk * Factor
      BY <1>1, <1>2, <2>1, <2>3, Monotone
    <3> QED
      BY <1>1, <1>2, <2>2, <3>1, <3>2
  <2>4. ASSUME r >= Chunk
        PROVE  /\ r \div Chunk = 1 /\ r > Chunk
               /\ (r - Chunk) * Factor = r * Factor - Chunk * Factor
               /\ (r - Chunk) * Factor \in 1..(WordMod - 1)
    <3>1. r \div Chunk = 1 /\ r > Chunk
      <4>1. r \div Chunk = 1
        BY <1>3, <2>1, <2>4, OneQuotient
      <4> QED
        BY <1>3, <2>1, <2>4, <4>1
    <3>2. PICK d \in Nat : d = r - Chunk /\ d # 0 /\ d <= Chunk
      BY <1>2, <2>1, <3>1
    <3>3. ASSUME NEW x \in Nat, NEW y \in Nat, NEW z \in Nat, z = x - y, NEW c \in Nat
          PROVE  z * c = x * c - y * c
      BY <3>3
    <3>4. d * Factor = r * Factor - Chunk * Factor
      BY <1>1, <1>2, <2>1, <3>2, <3>3
    <3>5. d * Factor <= Chunk * Factor /\ 1 * Factor <= d * Factor
      BY <1>1, <1>2, <3>2, Monotone
    <3> QED
      BY <1>1, <1>2, <2>2, <3>1, <3>2, <3>4, <3>5
  <2> QED
    BY <2>1, <2>2, <2>3, <2>4
<1> QED
  BY <1>1, <1>2, <1>3, <1>4

\* Every step of the busy loop keeps that what is left to wait is what was asked less
\* what was waited (alt_busy_sleep.c:77-132).
LEMMA SleepKept ==
  ASSUME ShortRequests, SleepInv, [SleepNext]_sleepVars
  PROVE  SleepInv'
<1> USE SleepNumbers
<1>1. CASE UNCHANGED sleepVars
  BY <1>1 DEF sleepVars, SleepInv, Calibrated, big_loops
<1>2. CASE Branch
  BY <1>2 DEF Branch, SleepInv, Calibrated, big_loops
<1>3. CASE BigLoop
  <2>1. /\ pc = "big" /\ i < big_loops /\ asked > Chunk /\ asked \in Requests
        /\ UNCHANGED <<asked, pc>>
        /\ us' = us - Chunk /\ i' = i + 1 /\ iterations' = iterations + BneTurns(reg)
    BY <1>3 DEF BigLoop, SleepInv
  <2>2. big_loops = 1
    BY <2>1 DEF big_loops
  <2>3. i = 0 /\ us = asked /\ reg = INT_MAX /\ iterations = 0
    BY <2>1, <2>2 DEF SleepInv
  <2>4. BneTurns(INT_MAX) = INT_MAX
    BY DEF BneTurns
  <2> QED
    BY <2>1, <2>3, <2>4 DEF SleepInv, Calibrated
<1>4. CASE Remainder
  <2>1. /\ pc = "big" /\ i >= big_loops /\ asked > Chunk /\ asked \in Requests
        /\ UNCHANGED <<asked, us, i, reg>> /\ pc' = "return"
        /\ iterations' = iterations + BneTurns((us * Factor) % WordMod)
    BY <1>4 DEF Remainder, SleepInv
  <2>2. big_loops = 1
    BY <2>1 DEF big_loops
  <2>3. us = asked - Chunk /\ iterations = INT_MAX
    BY <2>1, <2>2 DEF SleepInv
  <2>4. PICK n \in 1..(WordMod - 1) : n = us * Factor /\ n = asked * Factor - Chunk * Factor
    <3>1. asked >= Chunk
      BY <2>1, SleepNumbers, SleepAssumption
    <3>2. /\ (asked - Chunk) * Factor = asked * Factor - Chunk * Factor
          /\ (asked - Chunk) * Factor \in 1..(WordMod - 1)
      BY <2>1, <3>1, SleepNumbers
    <3> QED
      BY <2>3, <3>2
  <2>5. n % WordMod = n /\ BneTurns(n) = n
    BY <2>4, Small, SleepNumbers DEF BneTurns
  <2>6. iterations' = INT_MAX + n
    BY <2>1, <2>3, <2>4, <2>5
  <2>7. big_loops' = 1
    BY <2>1, <2>2 DEF big_loops
  <2>8. /\ iterations' >= asked * Factor
        /\ iterations' <= asked * Factor + 1 * (INT_MAX % Factor) + 1
    <3>1. PICK c \in Nat, r \in Nat : c = Chunk * Factor /\ r = INT_MAX % Factor /\ INT_MAX = c + r
      BY SleepNumbers
    <3>2. PICK m \in Nat : m = asked * Factor /\ n = m - c
      BY <2>1, <2>4, <3>1, SleepNumbers
    <3>3. iterations' = m + r
      BY <2>6, <3>1, <3>2
    <3> QED
      BY <3>1, <3>2, <3>3
  <2> QED
    BY <2>1, <2>7, <2>8 DEF SleepInv, Calibrated
<1>5. CASE Short
  <2>1. /\ pc = "short" /\ us = asked /\ asked < Chunk /\ iterations = 0 /\ asked \in Requests
        /\ UNCHANGED <<asked, us, i, reg>> /\ pc' = "return"
        /\ iterations' = iterations + BgtTurns((us * Factor) % WordMod)
    BY <1>5 DEF Short, SleepInv
  <2>2. PICK n \in Nat : n = us * Factor /\ n < WordMod
    BY <2>1
  <2>3. n % WordMod = n /\ BgtTurns(n) \in {n, n + 1}
    BY <2>2, Small, SleepNumbers DEF BgtTurns
  <2>4. iterations' \in {n, n + 1}
    BY <2>1, <2>2, <2>3
  <2>5. big_loops' = 0
    BY <2>1 DEF big_loops
  <2> QED
    BY <2>1, <2>2, <2>4, <2>5 DEF SleepInv, Calibrated
<1> QED
  BY <1>1, <1>2, <1>3, <1>4, <1>5 DEF SleepNext

\* Before the first step nothing was waited (alt_busy_sleep.c:52-75).
LEMMA SleepStarts ==
  ASSUME SleepInit
  PROVE  SleepInv
BY SleepNumbers DEF SleepInit, SleepInv, Calibrated

\* For every clock rate and every length of a loop: a request below two of the chunks
\* that alt_busy_sleep divides a long one into, and not of exactly one, is waited as
\* long as it was asked, but for what the division of INT_MAX leaves over
\* (alt_busy_sleep.c:52-133). The other requests are the subject of the run
\* busy_sleep_long.
THEOREM SleepIsCalibrated ==
  ASSUME ShortRequests
  PROVE  SleepSpec => []Calibrated
<1>1. SleepInit => SleepInv
  BY SleepStarts
<1>2. SleepInv /\ [SleepNext]_sleepVars => SleepInv'
  BY SleepKept
<1>3. SleepInv => Calibrated
  BY DEF SleepInv
<1> QED
  BY <1>1, <1>2, <1>3, PTL DEF SleepSpec

-----------------------------------------------------------------------------
(* The parts together.                                                      *)

\* A step of the board is a step of the part that runs; the others rest.
LEMMA StepOfParts ==
  ASSUME [BspNext]_all
  PROVE  /\ [TimerNext]_timerVars
         /\ [AlarmNext]_alarmVars
         /\ [TodNext]_todVars
         /\ [IrqNext]_irqVars
         /\ [FdNext]_fdVars
         /\ [EndNext]_io
         /\ [LogNext]_lgVars
         /\ [PtNext]_ptVars
         /\ [CcNext]_ccVars
         /\ [HpNext]_hpVars
         /\ [PfNext]_pfVars
         /\ [BtNext]_btVars
         /\ [SleepNext]_sleepVars
<1>1. CASE UNCHANGED all
  BY <1>1 DEF all
<1>2. CASE Of("timer", TimerNext)
  BY <1>2 DEF Of, OthersRest, Rests
<1>3. CASE Of("alarms", AlarmNext)
  BY <1>3 DEF Of, OthersRest, Rests
<1>4. CASE Of("time", TodNext)
  BY <1>4 DEF Of, OthersRest, Rests
<1>5. CASE Of("irq", IrqNext)
  BY <1>5 DEF Of, OthersRest, Rests
<1>6. CASE Of("files", FdNext)
  BY <1>6 DEF Of, OthersRest, Rests
<1>7. CASE Of("addresses", EndNext)
  BY <1>7 DEF Of, OthersRest, Rests
<1>8. CASE Of("log", LogNext)
  BY <1>8 DEF Of, OthersRest, Rests
<1>9. CASE Of("print", PtNext)
  BY <1>9 DEF Of, OthersRest, Rests
<1>10. CASE Of("cache", CcNext)
  BY <1>10 DEF Of, OthersRest, Rests
<1>11. CASE Of("heap", HpNext)
  BY <1>11 DEF Of, OthersRest, Rests
<1>12. CASE Of("profile", PfNext)
  BY <1>12 DEF Of, OthersRest, Rests
<1>13. CASE Of("boot", BtNext)
  BY <1>13 DEF Of, OthersRest, Rests
<1>14. CASE Of("sleep", SleepNext)
  BY <1>14 DEF Of, OthersRest, Rests
<1> QED
  BY <1>1, <1>2, <1>3, <1>4, <1>5, <1>6, <1>7, <1>8, <1>9, <1>10, <1>11, <1>12, <1>13, <1>14 DEF BspNext

\* Every part starts as its own module says.
LEMMA StartOfParts ==
  ASSUME BspInit
  PROVE  /\ TimerInit /\ AlarmInit /\ TodInit /\ IrqInit /\ FdInit /\ EndInit /\ LogInit
         /\ PtInit /\ CcInit /\ HpInit /\ PfInit /\ BtInit /\ SleepInit
BY DEF BspInit

\* The clock and the time of day are true on the whole board
\* (altera_avalon_timer_sc.c, altera_avalon_timer_ts.c, alt_gettod.c), when an interrupt is
\* served before the timestamp timer has gone round.
THEOREM TimeIsTrue ==
  ASSUME Prompt
  PROVE  BspSpec => []TimeSafe
<1>1. BspInit => TimerInv /\ TodInv
  BY StartOfParts, TimerStarts, TodStarts
<1>2. TimerInv /\ TodInv /\ [BspNext]_all => TimerInv' /\ TodInv'
  BY StepOfParts, TimerKept, TodKept
<1>3. TimerInv /\ TodInv => TimeSafe
  BY Answered, TodMeans DEF TimeSafe
<1> QED
  BY <1>1, <1>2, <1>3, PTL DEF BspSpec

\* Memory holds what the program put there (alt_sbrk.c, alt_dcache_flush.c, alt_load.c,
\* crt0.S), with a heap that grows by whole words and sections the linker laid out apart.
THEOREM MemoryIsSafe ==
  ASSUME AlignedIncrements, LaidOut
  PROVE  BspSpec => []MemorySafe
<1>1. BspInit => HpInv /\ CcInv /\ BtInv
  BY StartOfParts, HpStarts, CcStarts, BtStarts
<1>2. HpInv /\ CcInv /\ BtInv /\ [BspNext]_all => HpInv' /\ CcInv' /\ BtInv'
  BY StepOfParts, HpKept, CcKept, BtStays
<1>3. HpInv /\ CcInv /\ BtInv => MemorySafe
  BY HpMeans, CcMeans, BtMeans DEF MemorySafe
<1> QED
  BY <1>1, <1>2, <1>3, PTL DEF BspSpec

\* The alarms are called once each in the period they are due (alt_tick.c,
\* alt_alarm_start.c), unless a callback stops another alarm.
THEOREM AlarmsKeepTime ==
  ASSUME ~StopsOthers
  PROVE  BspSpec => []AlarmSafe
<1>1. BspInit => AlarmInv
  BY StartOfParts, StartsOnRing
<1>2. AlarmInv /\ [BspNext]_all => AlarmInv'
  BY StepOfParts, StaysOnRing
<1>3. AlarmInv => AlarmSafe
  BY RingIsSafe
<1> QED
  BY <1>1, <1>2, <1>3, PTL DEF BspSpec

\* Handlers nest by priority and are called by whole entries of the table
\* (alt_irq_handler.c, alt_iic_isr_register.c), with any number of lines and of nested
\* handlers, where none calls on the controller inside an interruptible one.
THEOREM InterruptsAreSafe ==
  ASSUME ~CallsNested
  PROVE  BspSpec => []IrqSafe
<1>1. BspInit => IrqInv
  BY StartOfParts, IrqStarts
<1>2. IrqInv /\ [BspNext]_all => IrqInv'
  BY StepOfParts, IrqKept
<1>3. IrqInv => IrqSafe
  BY IrqMeans
<1> QED
  BY <1>1, <1>2, <1>3, PTL DEF BspSpec

\* The slots of the pool that are taken are those the program holds, a handle held keeps the
\* device and the access mode it was opened with, the standard streams are open and reach
\* the console, and no step opens a device that stays locked (alt_open.c, alt_close.c,
\* alt_fd_lock.c, alt_io_redirect.c), in a pool with a slot beside the three standard ones.
THEOREM DescriptorsAreSafe ==
  ASSUME Room
  PROVE  BspSpec => []FdSafe /\ DescriptorsKept
<1>1. BspInit => FdInv
  BY StartOfParts, FdStarts
<1>2. FdInv /\ [BspNext]_all => FdInv'
  BY StepOfParts, FdStep
<1>3. FdInv => FdSafe
  BY AlikeDrivers DEF FdInv, FdSafe
<1>4. FdInv /\ [BspNext]_all => [LockRespected /\ HandlesKept]_fdVars
  BY StepOfParts, FdStep, KeptForHolders
<1> QED
  BY <1>1, <1>2, <1>3, <1>4, PTL DEF BspSpec, DescriptorsKept

\* The log loses only what an interrupt of its own puts between a poll and a write, and
\* prints harmless lines at the level it was built for (alt_log_printf.c).
THEOREM LogKeepsItsLines == BspSpec => []LogSafe
<1>1. BspInit => LogInv
  BY StartOfParts, LogStarts
<1>2. LogInv /\ [BspNext]_all => LogInv'
  BY StepOfParts, LogKept
<1>3. LogInv => LogSafe
  BY LogMeans
<1> QED
  BY <1>1, <1>2, <1>3, PTL DEF BspSpec

\* What the formatters print is right: every conversion prints the number it was given in the
\* width asked for, %x the shortest form of it, and nothing is left in the buffer, for any
\* sequence of characters as the format and any words (alt_log_printf.c, alt_printf.c).
THEOREM PrintsAreExact == BspSpec => []PrintSafe
<1>1. BspInit => PrintInv
  BY StartOfParts, PrintStarts
<1>2. PrintInv /\ [BspNext]_all => PrintInv'
  BY StepOfParts, PrintsOn
<1>3. PrintInv => PrintSafe
  BY PrintMeans DEF PrintSafe
<1> QED
  BY <1>1, <1>2, <1>3, PTL DEF BspSpec

\* The profile counts every call, whatever interrupts of the board call meanwhile
\* (alt_mcount.S, alt_gmon.c).
THEOREM ProfileIsSafe == BspSpec => []ProfileSafe
<1>1. BspInit => PfInv
  BY StartOfParts, PfStarts
<1>2. PfInv /\ [BspNext]_all => PfInv'
  BY StepOfParts, PfKept
<1>3. PfInv => ProfileSafe
  BY PfMeans
<1> QED
  BY <1>1, <1>2, <1>3, PTL DEF BspSpec

\* usleep waits what it was asked for (alt_busy_sleep.c), for requests below two chunks and
\* not of exactly one.
THEOREM DelaysAreTrue ==
  ASSUME ShortRequests
  PROVE  BspSpec => []Calibrated
<1>1. BspInit => SleepInv
  BY StartOfParts, SleepStarts
<1>2. SleepInv /\ [BspNext]_all => SleepInv'
  BY StepOfParts, SleepKept
<1>3. SleepInv => Calibrated
  BY DEF SleepInv
<1> QED
  BY <1>1, <1>2, <1>3, PTL DEF BspSpec

-----------------------------------------------------------------------------
(* Addresses and registers (system.h, io.h, the register headers, and the   *)
(* interconnect).                                                          *)

\* The parallel ports.
Ports == {"HEX_5", "HEX_4", "HEX_3", "HEX_2", "HEX_1", "HEX_0", "LEDS"}

\* The devices of system.h.
LEMMA DeviceNames ==
  Devices = Ports \cup {"jtag_uart_0", "spi_0", "uart_0", "timer_0", "sysid_qsys_0", "scroller_avallon_0"}
BY DEF Devices, system_h, system_h_pio, system_h_dev, Ports

\* Their addresses.
LEMMA DeviceRows ==
  /\ system_h["HEX_5"] = EndAt(69728, 16, "pio") /\ system_h["HEX_4"] = EndAt(69744, 16, "pio")
  /\ system_h["HEX_3"] = EndAt(69760, 16, "pio") /\ system_h["HEX_2"] = EndAt(69776, 16, "pio")
  /\ system_h["HEX_1"] = EndAt(69792, 16, "pio") /\ system_h["HEX_0"] = EndAt(69808, 16, "pio")
  /\ system_h["LEDS"] = EndAt(69824, 16, "pio")
  /\ system_h["jtag_uart_0"] = EndAt(69848, 8, "jtag_uart") /\ system_h["spi_0"] = EndAt(69632, 32, "spi")
  /\ system_h["uart_0"] = EndAt(69664, 32, "uart") /\ system_h["timer_0"] = EndAt(69696, 32, "timer")
  /\ system_h["sysid_qsys_0"] = EndAt(69840, 8, "sysid")
  /\ system_h["scroller_avallon_0"] = EndAt(0, 256, "scroller")
BY DEF system_h, system_h_pio, system_h_dev, EndAt

\* Spans of the decoder are powers of 2, which log2ceil leaves alone.
LEMMA Pads == \A n \in {8, 16, 32, 256, 2048, 32768} : Pad(n) = n
<1> SUFFICES ASSUME NEW n \in {8, 16, 32, 256, 2048, 32768} PROVE Pad(n) = n
  OBVIOUS
<1>1. {2^k : k \in 0..17} = {1, 2, 4, 8, 16, 32, 64, 128, 256, 512, 1024, 2048, 4096, 8192, 16384,
                             32768, 65536, 131072}
  OBVIOUS
<1>2. \A p \in {2^k : k \in 0..17} : n <= p /\ p < 2 * n <=> p = n
  BY <1>1
<1> QED
  BY <1>1, <1>2 DEF Pad

\* A range as wide as its alignment holds the addresses of which it is the upper part.
LEMMA InAlignedRange ==
  ASSUME NEW n \in {8, 16, 32, 256, 2048, 32768}, NEW k \in Nat, NEW addr \in Nat
  PROVE  addr - (addr % n) = n * k <=> n * k <= addr /\ addr < n * k + n
<1>1. PICK q \in Nat, r \in 0 .. n - 1 : addr % n = r /\ addr = n * q + r
  OBVIOUS
<1>2. n * q = n * k <=> q = k
  OBVIOUS
<1> QED
  BY <1>1, <1>2

\* The decoder has the same ranges for them, and two of its own.
LEMMA DecoderRanges ==
  /\ DOMAIN Decoder = Devices \cup {"onchip_memory2_0", "debug"}
  /\ \A dev \in Devices : /\ Decoder[dev][1] = system_h[dev].base
                          /\ Decoder[dev][2] - Decoder[dev][1] = system_h[dev].span
BY DeviceNames, DeviceRows DEF Decoder, EndAt, Ports

\* The first address of a range, and its length.
RangeStart(s)  == Decoder[s][1]
RangeLength(s) == Decoder[s][2] - Decoder[s][1]

\* Every range begins at a multiple of its length.
LEMMA RangesAligned ==
  ASSUME NEW s \in DOMAIN Decoder
  PROVE  /\ RangeLength(s) \in {8, 16, 32, 256, 2048, 32768}
         /\ \E k \in Nat : RangeStart(s) = RangeLength(s) * k
<1>1. /\ Decoder["scroller_avallon_0"] = <<0, 256>> /\ Decoder["onchip_memory2_0"] = <<32768, 65536>>
      /\ Decoder["debug"] = <<67584, 69632>> /\ Decoder["spi_0"] = <<69632, 69664>>
      /\ Decoder["uart_0"] = <<69664, 69696>> /\ Decoder["timer_0"] = <<69696, 69728>>
      /\ Decoder["HEX_5"] = <<69728, 69744>> /\ Decoder["HEX_4"] = <<69744, 69760>>
      /\ Decoder["HEX_3"] = <<69760, 69776>> /\ Decoder["HEX_2"] = <<69776, 69792>>
      /\ Decoder["HEX_1"] = <<69792, 69808>> /\ Decoder["HEX_0"] = <<69808, 69824>>
      /\ Decoder["LEDS"] = <<69824, 69840>> /\ Decoder["sysid_qsys_0"] = <<69840, 69848>>
      /\ Decoder["jtag_uart_0"] = <<69848, 69856>>
  BY DEF Decoder
<1>2. s \in {"scroller_avallon_0", "onchip_memory2_0", "debug", "spi_0", "uart_0", "timer_0",
             "HEX_5", "HEX_4", "HEX_3", "HEX_2", "HEX_1", "HEX_0", "LEDS", "sysid_qsys_0", "jtag_uart_0"}
  BY DEF Decoder
<1>3. RangeLength(s) \in {8, 16, 32, 256, 2048, 32768}
  BY <1>1, <1>2 DEF RangeLength
<1>4. RangeStart(s) \in Nat /\ \A n \in {8, 16, 32, 256, 2048, 32768} : RangeLength(s) = n => RangeStart(s) % n = 0
  BY <1>1, <1>2 DEF RangeLength, RangeStart
<1>5. \A a \in Nat, n \in Nat \ {0} : a % n = 0 => \E k \in Nat : a = n * k
  <2> SUFFICES ASSUME NEW a \in Nat, NEW n \in Nat \ {0}, a % n = 0
               PROVE  \E k \in Nat : a = n * k
    OBVIOUS
  <2>1. PICK q \in Nat, r \in 0 .. n - 1 : a % n = r /\ a = n * q + r
    OBVIOUS
  <2>2. n * q \in Nat
    OBVIOUS
  <2> QED
    BY <2>1, <2>2
<1>6. RangeStart(s) \in Nat /\ RangeLength(s) \in Nat \ {0} /\ RangeStart(s) % RangeLength(s) = 0
  BY <1>3, <1>4
<1>7. \E k \in Nat : RangeStart(s) = RangeLength(s) * k
  BY <1>5, <1>6, Zenon
<1> QED
  BY <1>3, <1>7

\* A slave is selected by the addresses of its range, whatever the decoder ignores of them.
LEMMA SelectedWithin ==
  ASSUME NEW s \in DOMAIN Decoder, NEW addr \in Nat, NEW dir
  PROVE  Selects(s, addr, dir) <=> /\ RangeStart(s) <= addr /\ addr < RangeStart(s) + RangeLength(s)
                                   /\ s = "scroller_avallon_0" => dir = "IOWR"
                                   /\ s = "sysid_qsys_0" => dir = "IORD"
<1>1. RangeLength(s) \in {8, 16, 32, 256, 2048, 32768}
  BY RangesAligned
<1>2. PICK k \in Nat : RangeStart(s) = RangeLength(s) * k
  BY RangesAligned
<1>3. Pad(RangeLength(s)) = RangeLength(s)
  BY <1>1, Pads
<1>4. addr - (addr % RangeLength(s)) = RangeStart(s) <=> RangeStart(s) <= addr /\ addr < RangeStart(s) + RangeLength(s)
  <2>1. addr - (addr % RangeLength(s)) = RangeLength(s) * k <=> RangeLength(s) * k <= addr /\ addr < RangeLength(s) * k + RangeLength(s)
    BY <1>1, InAlignedRange
  <2> QED
    BY <1>2, <2>1, Zenon
<1>5. Selects(s, addr, dir) <=> /\ addr - (addr % Pad(RangeLength(s))) = RangeStart(s)
                                /\ s = "scroller_avallon_0" => dir = "IOWR"
                                /\ s = "sysid_qsys_0" => dir = "IORD"
  BY Zenon DEF Selects, RangeStart, RangeLength
<1> QED
  BY <1>3, <1>4, <1>5, Zenon

\* The ranges are apart.
LEMMA RangesApart ==
  ASSUME NEW s \in DOMAIN Decoder, NEW t \in DOMAIN Decoder, s # t
  PROVE  RangeStart(s) + RangeLength(s) <= RangeStart(t) \/ RangeStart(t) + RangeLength(t) <= RangeStart(s)
BY DEF Decoder, RangeStart, RangeLength

\* An address in the range of a slave that takes the direction reaches that slave.
LEMMA RangeReached ==
  ASSUME NEW s \in DOMAIN Decoder, NEW addr \in Nat, NEW dir,
         RangeStart(s) <= addr, addr < RangeStart(s) + RangeLength(s),
         s = "scroller_avallon_0" => dir = "IOWR", s = "sysid_qsys_0" => dir = "IORD"
  PROVE  Slave(addr, dir) = s
<1>1. Selects(s, addr, dir)
  BY SelectedWithin
<1>2. ASSUME NEW t \in DOMAIN Decoder, Selects(t, addr, dir), t # s
      PROVE  FALSE
  <2>1. RangeStart(t) <= addr /\ addr < RangeStart(t) + RangeLength(t)
    BY <1>2, SelectedWithin
  <2>2. RangeStart(s) + RangeLength(s) <= RangeStart(t) \/ RangeStart(t) + RangeLength(t) <= RangeStart(s)
    BY <1>2, RangesApart
  <2>3. /\ RangeStart(s) \in Int /\ RangeLength(s) \in Int /\ RangeStart(t) \in Int /\ RangeLength(t) \in Int
    BY RangesAligned
  <2> QED
    BY <2>1, <2>2, <2>3
<1>3. {t \in DOMAIN Decoder : Selects(t, addr, dir)} = {s}
  BY <1>1, <1>2
<1> QED
  BY <1>3 DEF Slave

\* A register that a device has lies in its range.
LEMMA RegisterInRange ==
  ASSUME NEW dev \in Devices, NEW regnum \in Answers[system_h[dev].type]
  PROVE  LET addr == IO_CALC_ADDRESS_NATIVE(system_h[dev].base, regnum)
         IN  /\ addr \in Nat /\ RangeStart(dev) <= addr /\ addr < RangeStart(dev) + RangeLength(dev)
             /\ (addr \div 4) % Words(dev) = regnum
             /\ addr < system_h[dev].base + system_h[dev].span
<1> DEFINE addr == system_h[dev].base + regnum * 4
<1>1. /\ RangeStart(dev) = system_h[dev].base /\ RangeLength(dev) = system_h[dev].span
  BY DecoderRanges DEF RangeStart, RangeLength
<1>2. /\ addr \in Nat /\ RangeStart(dev) <= addr /\ addr < RangeStart(dev) + RangeLength(dev)
      /\ (addr \div 4) % Words(dev) = regnum
  <2>1. CASE dev \in Ports
    <3>1. regnum = 0 /\ Words(dev) = 4 /\ system_h[dev].span = 16
      BY <2>1, DeviceRows DEF Ports, EndAt, Answers, Words
    <3>2. system_h[dev].base \in {69728, 69744, 69760, 69776, 69792, 69808, 69824}
      BY <2>1, DeviceRows DEF Ports, EndAt
    <3> QED
      BY <1>1, <3>1, <3>2
  <2>2. CASE dev = "scroller_avallon_0"
    <3>1. regnum \in 0..63 /\ Words(dev) = 64 /\ system_h[dev].span = 256 /\ system_h[dev].base = 0
      BY <2>2, DeviceRows DEF EndAt, Answers, Words
    <3> QED
      BY <1>1, <3>1
  <2>3. CASE dev \in {"jtag_uart_0", "sysid_qsys_0"}
    <3>1. /\ regnum \in 0..1 /\ Words(dev) = 2 /\ system_h[dev].span = 8
          /\ system_h[dev].base \in {69848, 69840}
      BY <2>3, DeviceRows DEF EndAt, Answers, Words
    <3> QED
      BY <1>1, <3>1
  <2>4. CASE dev \in {"spi_0", "uart_0", "timer_0"}
    <3>1. /\ regnum \in 0..6 /\ Words(dev) = 8 /\ system_h[dev].span = 32
          /\ system_h[dev].base \in {69632, 69664, 69696}
      BY <2>4, DeviceRows DEF EndAt, Answers, Words
    <3> QED
      BY <1>1, <3>1
  <2> QED
    BY <2>1, <2>2, <2>3, <2>4, DeviceNames
<1> QED
  BY <1>1, <1>2 DEF IO_CALC_ADDRESS_NATIVE

\* An access reaches the register regnum of the device dev, and no other device's.
Hits(dev, regnum, dir) ==
  LET addr == IO_CALC_ADDRESS_NATIVE(system_h[dev].base, regnum)
  IN  /\ Slave(addr, dir) = dev /\ (addr \div 4) % Words(dev) = regnum
      /\ \A other \in Devices \ {dev} :
           system_h[dev].base + 4 * regnum \notin
             system_h[other].base..(system_h[other].base + system_h[other].span - 1)

\* It does through a macro, if the device has the register.
LEMMA MacroHits ==
  ASSUME NEW dev \in Devices, NEW regnum \in Answers[system_h[dev].type], NEW dir,
         dir \in Directions(system_h[dev].type)
  PROVE  Hits(dev, regnum, dir)
<1> DEFINE addr == IO_CALC_ADDRESS_NATIVE(system_h[dev].base, regnum)
<1>1. /\ addr \in Nat /\ RangeStart(dev) <= addr /\ addr < RangeStart(dev) + RangeLength(dev)
      /\ (addr \div 4) % Words(dev) = regnum
  BY RegisterInRange
<1>2. /\ dev = "scroller_avallon_0" => dir = "IOWR"
      /\ dev = "sysid_qsys_0" => dir = "IORD"
  BY DeviceRows DEF Directions, EndAt
<1>3. \A d \in Devices : /\ d \in DOMAIN Decoder /\ RangeStart(d) = system_h[d].base
                         /\ RangeLength(d) = system_h[d].span /\ RangeStart(d) \in Nat /\ RangeLength(d) \in Nat
  <2>1. \A d \in Devices : d \in DOMAIN Decoder
    BY DecoderRanges
  <2>2. \A d \in Devices : RangeStart(d) \in Nat /\ RangeLength(d) \in Nat
    BY <2>1, RangesAligned
  <2> QED
    BY <2>1, <2>2, DecoderRanges DEF RangeStart, RangeLength
<1>4. Slave(addr, dir) = dev
  BY <1>1, <1>2, <1>3, RangeReached
<1>5. addr = system_h[dev].base + 4 * regnum
  <2>1. regnum \in Nat
    BY DeviceNames, DeviceRows DEF Answers, EndAt, Ports
  <2> QED
    BY <2>1, <1>3 DEF IO_CALC_ADDRESS_NATIVE
<1>6. ASSUME NEW other \in Devices \ {dev}
      PROVE  ~(RangeStart(other) <= addr /\ addr < RangeStart(other) + RangeLength(other))
  BY <1>1, <1>3, RangesApart
<1> HIDE DEF addr
<1>7. ASSUME NEW other \in Devices \ {dev}
      PROVE  addr \notin system_h[other].base..(system_h[other].base + system_h[other].span - 1)
  BY <1>1, <1>3, <1>6
<1> QED
  BY <1>1, <1>4, <1>5, <1>7 DEF Hits, addr

\* Four bits below the rest of a word.
FourBelow(w, a, b, c, d, h) ==
  /\ a \in {0, 1} /\ b \in {0, 1} /\ c \in {0, 1} /\ d \in {0, 1} /\ h \in Nat /\ w \in Nat
  /\ w = a + 2 * b + 4 * c + 8 * d + 16 * h

\* They are found by dividing.
LEMMA FourBits ==
  ASSUME NEW w, NEW a, NEW b, NEW c, NEW d, NEW h, FourBelow(w, a, b, c, d, h)
  PROVE  /\ w % 2 = a /\ (w \div 2) % 2 = b /\ (w \div 4) % 2 = c /\ (w \div 8) % 2 = d
         /\ w \div 16 = h
<1> DEFINE low == a + 2 * b + 4 * c
<1>1. a \in {0, 1} /\ b \in {0, 1} /\ c \in {0, 1} /\ d \in {0, 1} /\ h \in Nat /\ w \in Nat
  BY DEF FourBelow
<1>2. low \in 0 .. 7 /\ low % 2 = a /\ (low \div 2) % 2 = b /\ low \div 4 = c
  BY <1>1
<1>3. w = low + 8 * d + 16 * h
  BY <1>1 DEF FourBelow
<1> HIDE DEF low
<1>4. w \div 16 = h
  BY <1>1, <1>2, <1>3
<1>5. (w \div 8) % 2 = d
  <2>1. w \div 8 = d + 2 * h
    BY <1>1, <1>2, <1>3
  <2> QED
    BY <1>1, <2>1
<1>6. (w \div 4) % 2 = c
  <2>1. w \div 4 = low \div 4 + 2 * (d + 2 * h)
    BY <1>1, <1>2, <1>3
  <2> QED
    BY <1>1, <1>2, <2>1
<1>7. (w \div 2) % 2 = b
  <2>1. w \div 2 = low \div 2 + 2 * (2 * d + 4 * h)
    BY <1>1, <1>2, <1>3
  <2> QED
    BY <1>1, <1>2, <2>1
<1>8. w % 2 = a
  BY <1>1, <1>2, <1>3
<1> QED
  BY <1>4, <1>5, <1>6, <1>7, <1>8

\* Four of the bits b of a word, from the k-th up.
Four(b, k) == b[k] + 2 * b[k + 1] + 4 * b[k + 2] + 8 * b[k + 3]

\* The 16 bits b below the count c of a word.
Composed(b, c) == Four(b, 1) + 16 * Four(b, 5) + 256 * Four(b, 9) + 4096 * Four(b, 13) + 65536 * c

\* The word w has these bits at their weights.
BitsAt(w, b) ==
  /\ (w \div 1) % 2 = b[1] /\ (w \div 2) % 2 = b[2] /\ (w \div 4) % 2 = b[3]
  /\ (w \div 8) % 2 = b[4] /\ (w \div 16) % 2 = b[5] /\ (w \div 32) % 2 = b[6]
  /\ (w \div 64) % 2 = b[7] /\ (w \div 128) % 2 = b[8] /\ (w \div 256) % 2 = b[9]
  /\ (w \div 512) % 2 = b[10] /\ (w \div 1024) % 2 = b[11] /\ (w \div 2048) % 2 = b[12]
  /\ (w \div 4096) % 2 = b[13] /\ (w \div 8192) % 2 = b[14] /\ (w \div 16384) % 2 = b[15]
  /\ (w \div 32768) % 2 = b[16]

\* Each bit of a word is found at its weight, and the count above them.
LEMMA BitsOfWord ==
  ASSUME NEW b \in [1 .. 16 -> {0, 1}], NEW c \in Nat
  PROVE  /\ Composed(b, c) \in Nat
         /\ BitsAt(Composed(b, c), b) /\ Composed(b, c) \div 65536 = c
<1> DEFINE w4 == Four(b, 13) + 16 * c
           w3 == Four(b, 9) + 16 * w4
           w2 == Four(b, 5) + 16 * w3
           w1 == Four(b, 1) + 16 * w2
<1>1. /\ Four(b, 1) \in Nat /\ Four(b, 5) \in Nat /\ Four(b, 9) \in Nat /\ Four(b, 13) \in Nat
  <2>1. \A k \in 1 .. 16 : b[k] \in Nat
    OBVIOUS
  <2>2. \A k \in 1 .. 13 : Four(b, k) \in Nat
    BY <2>1 DEF Four
  <2> QED
    BY <2>2
<1>2. w1 \in Nat /\ w2 \in Nat /\ w3 \in Nat /\ w4 \in Nat
  BY <1>1
<1>3. Composed(b, c) = w1
  BY <1>1 DEF Composed
<1>4. /\ w1 % 2 = b[1] /\ (w1 \div 2) % 2 = b[2] /\ (w1 \div 4) % 2 = b[3]
      /\ (w1 \div 8) % 2 = b[4] /\ w1 \div 16 = w2
  <2>1. /\ b[1] \in {0, 1} /\ b[2] \in {0, 1} /\ b[3] \in {0, 1} /\ b[4] \in {0, 1}
    OBVIOUS
  <2>2. w1 = b[1] + 2 * b[2] + 4 * b[3] + 8 * b[4] + 16 * w2
    BY DEF Four
  <2> HIDE DEF w1, w2, w3, w4
  <2>3. FourBelow(w1, b[1], b[2], b[3], b[4], w2)
    BY <1>2, <2>1, <2>2 DEF FourBelow
  <2> QED
    BY <2>3, FourBits
<1>5. /\ w2 % 2 = b[5] /\ (w2 \div 2) % 2 = b[6] /\ (w2 \div 4) % 2 = b[7]
      /\ (w2 \div 8) % 2 = b[8] /\ w2 \div 16 = w3
  <2>1. /\ b[5] \in {0, 1} /\ b[6] \in {0, 1} /\ b[7] \in {0, 1} /\ b[8] \in {0, 1}
    OBVIOUS
  <2>2. w2 = b[5] + 2 * b[6] + 4 * b[7] + 8 * b[8] + 16 * w3
    BY DEF Four
  <2> HIDE DEF w1, w2, w3, w4
  <2>3. FourBelow(w2, b[5], b[6], b[7], b[8], w3)
    BY <1>2, <2>1, <2>2 DEF FourBelow
  <2> QED
    BY <2>3, FourBits
<1>6. /\ w3 % 2 = b[9] /\ (w3 \div 2) % 2 = b[10] /\ (w3 \div 4) % 2 = b[11]
      /\ (w3 \div 8) % 2 = b[12] /\ w3 \div 16 = w4
  <2>1. /\ b[9] \in {0, 1} /\ b[10] \in {0, 1} /\ b[11] \in {0, 1} /\ b[12] \in {0, 1}
    OBVIOUS
  <2>2. w3 = b[9] + 2 * b[10] + 4 * b[11] + 8 * b[12] + 16 * w4
    BY DEF Four
  <2> HIDE DEF w1, w2, w3, w4
  <2>3. FourBelow(w3, b[9], b[10], b[11], b[12], w4)
    BY <1>2, <2>1, <2>2 DEF FourBelow
  <2> QED
    BY <2>3, FourBits
<1>7. /\ w4 % 2 = b[13] /\ (w4 \div 2) % 2 = b[14] /\ (w4 \div 4) % 2 = b[15]
      /\ (w4 \div 8) % 2 = b[16] /\ w4 \div 16 = c
  <2>1. /\ b[13] \in {0, 1} /\ b[14] \in {0, 1} /\ b[15] \in {0, 1} /\ b[16] \in {0, 1}
    OBVIOUS
  <2>2. w4 = b[13] + 2 * b[14] + 4 * b[15] + 8 * b[16] + 16 * c
    BY DEF Four
  <2> HIDE DEF w1, w2, w3, w4
  <2>3. FourBelow(w4, b[13], b[14], b[15], b[16], c)
    BY <1>2, <2>1, <2>2 DEF FourBelow
  <2> QED
    BY <2>3, FourBits
<1> HIDE DEF w1, w2, w3, w4
<1>8. w1 \div 256 = w3 /\ w1 \div 4096 = w4 /\ w1 \div 65536 = c
  <2>1. /\ w1 \div 256 = (w1 \div 16) \div 16 /\ w1 \div 4096 = (w1 \div 256) \div 16
        /\ w1 \div 65536 = (w1 \div 4096) \div 16
    BY <1>2
  <2> QED
    BY <1>4, <1>5, <1>6, <1>7, <2>1
<1>9. /\ w1 \div 32 = w2 \div 2 /\ w1 \div 64 = w2 \div 4 /\ w1 \div 128 = w2 \div 8
  BY <1>2, <1>4
<1>10. /\ w1 \div 512 = w3 \div 2 /\ w1 \div 1024 = w3 \div 4 /\ w1 \div 2048 = w3 \div 8
  BY <1>2, <1>8
<1>11. /\ w1 \div 8192 = w4 \div 2 /\ w1 \div 16384 = w4 \div 4 /\ w1 \div 32768 = w4 \div 8
  BY <1>2, <1>8
<1>12. /\ (w1 \div 1) % 2 = b[1] /\ (w1 \div 2) % 2 = b[2]
       /\ (w1 \div 4) % 2 = b[3] /\ (w1 \div 8) % 2 = b[4]
  BY <1>2, <1>4
<1>13. /\ (w1 \div 16) % 2 = b[5] /\ (w1 \div 32) % 2 = b[6]
       /\ (w1 \div 64) % 2 = b[7] /\ (w1 \div 128) % 2 = b[8]
  BY <1>2, <1>4, <1>5, <1>9
<1>14. /\ (w1 \div 256) % 2 = b[9] /\ (w1 \div 512) % 2 = b[10]
       /\ (w1 \div 1024) % 2 = b[11] /\ (w1 \div 2048) % 2 = b[12]
  BY <1>2, <1>6, <1>8, <1>10
<1>15. /\ (w1 \div 4096) % 2 = b[13] /\ (w1 \div 8192) % 2 = b[14]
       /\ (w1 \div 16384) % 2 = b[15] /\ (w1 \div 32768) % 2 = b[16]
  BY <1>2, <1>7, <1>8, <1>11
<1>16. BitsAt(w1, b)
  BY <1>12, <1>13, <1>14, <1>15 DEF BitsAt
<1> QED
  BY <1>2, <1>3, <1>8, <1>16
\* The bits that are up in a word of the wires r.
UpBits(r, up) == [k \in 1 .. 16 |-> IF k \in DOMAIN Wires[r] /\ Wires[r][k] \in up THEN 1 ELSE 0]

\* A word w with these bits answers every mask of the header.
LEMMA MasksOfBits ==
  ASSUME NEW r \in DOMAIN Wires, NEW up \in SUBSET Signals(r), NEW w \in Nat, BitsAt(w, UpBits(r, up))
  PROVE  \A f \in DOMAIN MSK[r] : (w \div MSK[r][f]) % 2 = 1 <=> f \in up
<1> DEFINE b == UpBits(r, up)
<1>1. \A k \in 1 .. 16 : b[k] = IF k \in DOMAIN Wires[r] /\ Wires[r][k] \in up THEN 1 ELSE 0
  BY DEF UpBits
<1>2. BitsAt(w, b)
  OBVIOUS
<1>3. up \subseteq Signals(r)
  OBVIOUS
<1> HIDE DEF b
<1>4. CASE r = "uart_status"
  <2>1. Wires[r] = <<"PE", "FE", "BRK", "ROE", "TOE", "TMT", "TRDY", "RRDY", "E">>
    BY <1>4 DEF Wires
  <2>2. /\ (b[1] = 1 <=> "PE" \in up) /\ (b[2] = 1 <=> "FE" \in up) /\ (b[3] = 1 <=> "BRK" \in up)
        /\ (b[4] = 1 <=> "ROE" \in up) /\ (b[5] = 1 <=> "TOE" \in up) /\ (b[6] = 1 <=> "TMT" \in up)
        /\ (b[7] = 1 <=> "TRDY" \in up) /\ (b[8] = 1 <=> "RRDY" \in up) /\ (b[9] = 1 <=> "E" \in up)
        /\ b[11] = 0 /\ b[12] = 0 /\ b[13] = 0
    BY <1>1, <2>1
  <2>3. /\ "DCTS" \notin up /\ "CTS" \notin up /\ "EOP" \notin up
    BY <1>3, <2>1 DEF Signals
  <2>4. MSK[r] = uart_status
    BY <1>4 DEF MSK
  <2>5. DOMAIN uart_status = {"PE", "FE", "BRK", "ROE", "TOE", "TMT", "TRDY", "RRDY", "E", "DCTS", "CTS", "EOP"}
    BY DEF uart_status
  <2>6. /\ uart_status["PE"] = 1 /\ uart_status["FE"] = 2 /\ uart_status["BRK"] = 4
        /\ uart_status["ROE"] = 8 /\ uart_status["TOE"] = 16 /\ uart_status["TMT"] = 32
        /\ uart_status["TRDY"] = 64 /\ uart_status["RRDY"] = 128 /\ uart_status["E"] = 256
        /\ uart_status["DCTS"] = 1024 /\ uart_status["CTS"] = 2048 /\ uart_status["EOP"] = 4096
    BY DEF uart_status
  <2>7. /\ (w \div 1) % 2 = b[1] /\ (w \div 2) % 2 = b[2] /\ (w \div 4) % 2 = b[3]
        /\ (w \div 8) % 2 = b[4] /\ (w \div 16) % 2 = b[5] /\ (w \div 32) % 2 = b[6]
        /\ (w \div 64) % 2 = b[7] /\ (w \div 128) % 2 = b[8] /\ (w \div 256) % 2 = b[9]
        /\ (w \div 1024) % 2 = b[11] /\ (w \div 2048) % 2 = b[12] /\ (w \div 4096) % 2 = b[13]
    BY <1>2 DEF BitsAt
  <2> QED
    BY <2>2, <2>3, <2>4, <2>5, <2>6, <2>7
<1>5. CASE r = "uart_control"
  <2>1. Wires[r] = <<"PE", "FE", "BRK", "ROE", "TOE", "TMT", "TRDY", "RRDY", "E">>
    BY <1>5 DEF Wires
  <2>2. /\ (b[1] = 1 <=> "PE" \in up) /\ (b[2] = 1 <=> "FE" \in up) /\ (b[3] = 1 <=> "BRK" \in up)
        /\ (b[4] = 1 <=> "ROE" \in up) /\ (b[5] = 1 <=> "TOE" \in up) /\ (b[6] = 1 <=> "TMT" \in up)
        /\ (b[7] = 1 <=> "TRDY" \in up) /\ (b[8] = 1 <=> "RRDY" \in up) /\ (b[9] = 1 <=> "E" \in up)
        /\ b[11] = 0 /\ b[12] = 0 /\ b[13] = 0
    BY <1>1, <2>1
  <2>3. /\ "DCTS" \notin up /\ "RTS" \notin up /\ "EOP" \notin up
    BY <1>3, <2>1 DEF Signals
  <2>4. MSK[r] = uart_control
    BY <1>5 DEF MSK
  <2>5. DOMAIN uart_control = {"PE", "FE", "BRK", "ROE", "TOE", "TMT", "TRDY", "RRDY", "E", "DCTS", "RTS", "EOP"}
    BY DEF uart_control
  <2>6. /\ uart_control["PE"] = 1 /\ uart_control["FE"] = 2 /\ uart_control["BRK"] = 4
        /\ uart_control["ROE"] = 8 /\ uart_control["TOE"] = 16 /\ uart_control["TMT"] = 32
        /\ uart_control["TRDY"] = 64 /\ uart_control["RRDY"] = 128 /\ uart_control["E"] = 256
        /\ uart_control["DCTS"] = 1024 /\ uart_control["RTS"] = 2048 /\ uart_control["EOP"] = 4096
    BY DEF uart_control
  <2>7. /\ (w \div 1) % 2 = b[1] /\ (w \div 2) % 2 = b[2] /\ (w \div 4) % 2 = b[3]
        /\ (w \div 8) % 2 = b[4] /\ (w \div 16) % 2 = b[5] /\ (w \div 32) % 2 = b[6]
        /\ (w \div 64) % 2 = b[7] /\ (w \div 128) % 2 = b[8] /\ (w \div 256) % 2 = b[9]
        /\ (w \div 1024) % 2 = b[11] /\ (w \div 2048) % 2 = b[12] /\ (w \div 4096) % 2 = b[13]
    BY <1>2 DEF BitsAt
  <2> QED
    BY <2>2, <2>3, <2>4, <2>5, <2>6, <2>7
<1>6. CASE r = "timer_status"
  <2>1. Wires[r] = <<"TO", "RUN">>
    BY <1>6 DEF Wires
  <2>2. /\ (b[1] = 1 <=> "TO" \in up) /\ (b[2] = 1 <=> "RUN" \in up)
    BY <1>1, <2>1
  <2>4. MSK[r] = timer_status
    BY <1>6 DEF MSK
  <2>5. DOMAIN timer_status = {"TO", "RUN"}
    BY DEF timer_status
  <2>6. /\ timer_status["TO"] = 1 /\ timer_status["RUN"] = 2
    BY DEF timer_status
  <2>7. /\ (w \div 1) % 2 = b[1] /\ (w \div 2) % 2 = b[2]
    BY <1>2 DEF BitsAt
  <2> QED
    BY <2>2, <2>4, <2>5, <2>6, <2>7
<1>7. CASE r = "timer_control"
  <2>1. Wires[r] = <<"ITO", "CONT", "START", "STOP">>
    BY <1>7 DEF Wires
  <2>2. /\ (b[1] = 1 <=> "ITO" \in up) /\ (b[2] = 1 <=> "CONT" \in up) /\ (b[3] = 1 <=> "START" \in up)
        /\ (b[4] = 1 <=> "STOP" \in up)
    BY <1>1, <2>1
  <2>4. MSK[r] = timer_control
    BY <1>7 DEF MSK
  <2>5. DOMAIN timer_control = {"ITO", "CONT", "START", "STOP"}
    BY DEF timer_control
  <2>6. /\ timer_control["ITO"] = 1 /\ timer_control["CONT"] = 2 /\ timer_control["START"] = 4
        /\ timer_control["STOP"] = 8
    BY DEF timer_control
  <2>7. /\ (w \div 1) % 2 = b[1] /\ (w \div 2) % 2 = b[2] /\ (w \div 4) % 2 = b[3]
        /\ (w \div 8) % 2 = b[4]
    BY <1>2 DEF BitsAt
  <2> QED
    BY <2>2, <2>4, <2>5, <2>6, <2>7
<1>8. CASE r = "spi_status"
  <2>1. Wires[r] = <<"-", "-", "-", "ROE", "TOE", "TMT", "TRDY", "RRDY", "E">>
    BY <1>8 DEF Wires
  <2>2. /\ (b[4] = 1 <=> "ROE" \in up) /\ (b[5] = 1 <=> "TOE" \in up) /\ (b[6] = 1 <=> "TMT" \in up)
        /\ (b[7] = 1 <=> "TRDY" \in up) /\ (b[8] = 1 <=> "RRDY" \in up) /\ (b[9] = 1 <=> "E" \in up)
    BY <1>1, <2>1
  <2>4. MSK[r] = spi_status
    BY <1>8 DEF MSK
  <2>5. DOMAIN spi_status = {"ROE", "TOE", "TMT", "TRDY", "RRDY", "E"}
    BY DEF spi_status
  <2>6. /\ spi_status["ROE"] = 8 /\ spi_status["TOE"] = 16 /\ spi_status["TMT"] = 32
        /\ spi_status["TRDY"] = 64 /\ spi_status["RRDY"] = 128 /\ spi_status["E"] = 256
    BY DEF spi_status
  <2>7. /\ (w \div 8) % 2 = b[4] /\ (w \div 16) % 2 = b[5] /\ (w \div 32) % 2 = b[6]
        /\ (w \div 64) % 2 = b[7] /\ (w \div 128) % 2 = b[8] /\ (w \div 256) % 2 = b[9]
    BY <1>2 DEF BitsAt
  <2> QED
    BY <2>2, <2>4, <2>5, <2>6, <2>7
<1>9. CASE r = "spi_control"
  <2>1. Wires[r] = <<"-", "-", "-", "ROE", "TOE", "-", "TRDY", "RRDY", "E", "-", "SSO">>
    BY <1>9 DEF Wires
  <2>2. /\ (b[4] = 1 <=> "ROE" \in up) /\ (b[5] = 1 <=> "TOE" \in up) /\ (b[7] = 1 <=> "TRDY" \in up)
        /\ (b[8] = 1 <=> "RRDY" \in up) /\ (b[9] = 1 <=> "E" \in up) /\ (b[11] = 1 <=> "SSO" \in up)
    BY <1>1, <2>1
  <2>4. MSK[r] = spi_control
    BY <1>9 DEF MSK
  <2>5. DOMAIN spi_control = {"ROE", "TOE", "TRDY", "RRDY", "E", "SSO"}
    BY DEF spi_control
  <2>6. /\ spi_control["ROE"] = 8 /\ spi_control["TOE"] = 16 /\ spi_control["TRDY"] = 64
        /\ spi_control["RRDY"] = 128 /\ spi_control["E"] = 256 /\ spi_control["SSO"] = 1024
    BY DEF spi_control
  <2>7. /\ (w \div 8) % 2 = b[4] /\ (w \div 16) % 2 = b[5] /\ (w \div 64) % 2 = b[7]
        /\ (w \div 128) % 2 = b[8] /\ (w \div 256) % 2 = b[9] /\ (w \div 1024) % 2 = b[11]
    BY <1>2 DEF BitsAt
  <2> QED
    BY <2>2, <2>4, <2>5, <2>6, <2>7
<1>10. CASE r = "jtag_data"
  <2>1. Wires[r] = <<"-", "-", "-", "-", "-", "-", "-", "-", "RI", "WI", "AC", "-", "-", "-", "-", "RVALID">>
    BY <1>10 DEF Wires
  <2>2. /\ (b[16] = 1 <=> "RVALID" \in up)
    BY <1>1, <2>1
  <2>4. MSK[r] = jtag_data
    BY <1>10 DEF MSK
  <2>5. DOMAIN jtag_data = {"RVALID"}
    BY DEF jtag_data
  <2>6. /\ jtag_data["RVALID"] = 32768
    BY DEF jtag_data
  <2>7. /\ (w \div 32768) % 2 = b[16]
    BY <1>2 DEF BitsAt
  <2> QED
    BY <2>2, <2>4, <2>5, <2>6, <2>7
<1>11. CASE r = "jtag_control"
  <2>1. Wires[r] = <<"RE", "WE", "-", "-", "-", "-", "-", "-", "RI", "WI", "AC", "-", "-", "-", "-", "RVALID">>
    BY <1>11 DEF Wires
  <2>2. /\ (b[1] = 1 <=> "RE" \in up) /\ (b[2] = 1 <=> "WE" \in up) /\ (b[9] = 1 <=> "RI" \in up)
        /\ (b[10] = 1 <=> "WI" \in up) /\ (b[11] = 1 <=> "AC" \in up)
    BY <1>1, <2>1
  <2>4. MSK[r] = jtag_control
    BY <1>11 DEF MSK
  <2>5. DOMAIN jtag_control = {"RE", "WE", "RI", "WI", "AC"}
    BY DEF jtag_control
  <2>6. /\ jtag_control["RE"] = 1 /\ jtag_control["WE"] = 2 /\ jtag_control["RI"] = 256
        /\ jtag_control["WI"] = 512 /\ jtag_control["AC"] = 1024
    BY DEF jtag_control
  <2>7. /\ (w \div 1) % 2 = b[1] /\ (w \div 2) % 2 = b[2] /\ (w \div 256) % 2 = b[9]
        /\ (w \div 512) % 2 = b[10] /\ (w \div 1024) % 2 = b[11]
    BY <1>2 DEF BitsAt
  <2> QED
    BY <2>2, <2>4, <2>5, <2>6, <2>7
<1> QED
  BY <1>4, <1>5, <1>6, <1>7, <1>8, <1>9, <1>10, <1>11 DEF Wires
\* The count above the bits.
CountOf(r, used) == CASE r = "jtag_data" -> used [] r = "jtag_control" -> 64 - used [] OTHER -> 0

\* A word that is read is made of its bits and its count.
LEMMA WordIsComposed ==
  ASSUME NEW r \in DOMAIN Wires, NEW up \in SUBSET Signals(r), NEW used \in 0..64
  PROVE  Word(r, up, used) = Composed(UpBits(r, up), CountOf(r, used))
<1> DEFINE bit(k)  == IF k \in DOMAIN Wires[r] /\ Wires[r][k] \in up THEN 1 ELSE 0
           four(k) == bit(k) + 2 * bit(k + 1) + 4 * bit(k + 2) + 8 * bit(k + 3)
           b       == UpBits(r, up)
<1>1. \A k \in 1 .. 16 : b[k] = bit(k)
  BY DEF UpBits
<1>2. Word(r, up, used) = four(1) + 16 * four(5) + 256 * four(9) + 4096 * four(13)
                            + 65536 * CountOf(r, used)
  BY DEF Word, CountOf
<1> HIDE DEF bit, b
<1>3. /\ Four(b, 1) = four(1) /\ Four(b, 5) = four(5) /\ Four(b, 9) = four(9)
      /\ Four(b, 13) = four(13)
  BY <1>1 DEF Four
<1> HIDE DEF four
<1> QED
  BY <1>2, <1>3 DEF Composed, b

\* The masks of the header find the signals in it, and its upper half the count.
LEMMA WordMasks ==
  ASSUME NEW r \in DOMAIN Wires, NEW up \in SUBSET Signals(r), NEW used \in 0..64
  PROVE  /\ \A f \in DOMAIN MSK[r] : (Word(r, up, used) \div MSK[r][f]) % 2 = 1 <=> f \in up
         /\ r = "jtag_data" => OFST16(Word(r, up, used)) = used
         /\ r = "jtag_control" => OFST16(Word(r, up, used)) + used = 64
<1> DEFINE w == Composed(UpBits(r, up), CountOf(r, used))
<1>1. UpBits(r, up) \in [1 .. 16 -> {0, 1}]
  BY DEF UpBits
<1>2. CountOf(r, used) \in Nat
  BY DEF CountOf
<1>3. w \in Nat /\ BitsAt(w, UpBits(r, up)) /\ w \div 65536 = CountOf(r, used)
  BY <1>1, <1>2, BitsOfWord
<1> HIDE DEF w
<1>4. \A f \in DOMAIN MSK[r] : (w \div MSK[r][f]) % 2 = 1 <=> f \in up
  BY <1>3, MasksOfBits
<1>5. Word(r, up, used) = w
  BY WordIsComposed DEF w
<1>6. /\ r = "jtag_data" => OFST16(w) = used
      /\ r = "jtag_control" => OFST16(w) + used = 64
  BY <1>3 DEF OFST16, CountOf
<1> QED
  BY <1>4, <1>5, <1>6, Zenon

\* The words at the ends of the linker's regions are in the memory, each its own.
LEMMA RegionsInMemory ==
  ASSUME NEW m \in linker_h, NEW addr \in {m.base, m.base + m.span - 4}, NEW dir
  PROVE  LET s == Slave(addr, dir)
             w == (addr \div 4) % Words(s)
         IN  s = "onchip_memory2_0" /\ w < MemoryWords /\ w = (addr - 32768) \div 4
<1>1. addr \in {32800, 52764, 32768, 32796}
  BY DEF linker_h
<1>2. "onchip_memory2_0" \in DOMAIN Decoder /\ Decoder["onchip_memory2_0"] = <<32768, 65536>>
  BY DEF Decoder
<1>3. RangeStart("onchip_memory2_0") = 32768 /\ RangeLength("onchip_memory2_0") = 32768
  BY <1>2 DEF RangeStart, RangeLength
<1>4. Slave(addr, dir) = "onchip_memory2_0"
  <2>1. addr \in Nat /\ 32768 <= addr /\ addr < 32768 + 32768
    BY <1>1
  <2> QED
    BY <1>2, <1>3, <2>1, RangeReached
<1>5. Words("onchip_memory2_0") = 8192
  BY DEF Words
<1>6. (addr \div 4) % 8192 < 5000 /\ (addr \div 4) % 8192 = (addr - 32768) \div 4
  BY <1>1
<1> QED
  BY <1>4, <1>5, <1>6 DEF MemoryWords

\* A device's request arrives on the line that the software knows it by, and on no other.
LEMMA LinesReceived ==
  ASSUME NEW devs \in SUBSET DOMAIN IRQ
  PROVE  \A d \in DOMAIN IRQ : d \in devs <=> IRQ[d] \in {IRQ_MAP[Receiver[e]] : e \in devs}
<1>1. DOMAIN IRQ = {"jtag_uart_0", "timer_0", "spi_0", "uart_0"}
  BY DEF IRQ
<1>2. /\ IRQ["jtag_uart_0"] = 0 /\ IRQ["timer_0"] = 1 /\ IRQ["spi_0"] = 2 /\ IRQ["uart_0"] = 3
  BY DEF IRQ
<1>3. \A e \in DOMAIN IRQ : IRQ_MAP[Receiver[e]] = IRQ[e]
  BY <1>1, <1>2 DEF Receiver, IRQ_MAP
<1>4. \A d, e \in DOMAIN IRQ : IRQ[d] = IRQ[e] => d = e
  BY <1>1, <1>2
<1> QED
  BY <1>3, <1>4

\* What is said of all but the stamps.
Reaches == MacroReaches /\ RegionsBacked /\ LinesAgree /\ MasksAgree

\* Each kind of access keeps all that is said of the others, and is answered as the
\* software believes.
LEMMA ReachesKept == Reaches /\ [EndNext]_io => Reaches'
<1> SUFFICES ASSUME Reaches, [EndNext]_io PROVE Reaches'
  OBVIOUS
<1> USE DEF Reaches, MacroReaches, RegionsBacked, LinesAgree, MasksAgree
<1>1. CASE UNCHANGED io
  BY <1>1
<1>2. CASE io' = [op |-> "none"]
  BY <1>2
<1>3. ASSUME NEW dev \in Devices, NEW regnum \in Macros[system_h[dev].type],
             NEW dir \in Directions(system_h[dev].type), Access(dev, regnum, dir)
      PROVE  Reaches'
  <2> DEFINE addr == IO_CALC_ADDRESS_NATIVE(system_h[dev].base, regnum)
             s    == Slave(addr, dir)
             w    == (addr \div 4) % Words(s)
  <2>1. io' = [op |-> "reg", dev |-> dev, reg |-> regnum, slave |-> s, word |-> w]
    BY <1>3 DEF Access
  <2>2. ASSUME regnum \in Answers[system_h[dev].type]
        PROVE  /\ s = dev /\ w = regnum
               /\ \A other \in Devices \ {dev} :
                    system_h[dev].base + 4 * regnum \notin
                      system_h[other].base..(system_h[other].base + system_h[other].span - 1)
    <3>1. Hits(dev, regnum, dir)
      BY <2>2, MacroHits
    <3> QED
      BY <3>1 DEF Hits
  <2> HIDE DEF s, w
  <2> QED
    BY <2>1, <2>2
<1>4. ASSUME NEW m \in linker_h, NEW addr \in {m.base, m.base + m.span - 4}, NEW dir, Fetch(addr, dir)
      PROVE  Reaches'
  <2> DEFINE s == Slave(addr, dir)
             w == (addr \div 4) % Words(s)
  <2>1. io' = [op |-> "mem", addr |-> addr, slave |-> s, word |-> w]
    BY <1>4 DEF Fetch
  <2>2. s = "onchip_memory2_0" /\ w < MemoryWords /\ w = (addr - 32768) \div 4
    BY RegionsInMemory
  <2> HIDE DEF s, w
  <2> QED
    BY <2>1, <2>2
<1>5. ASSUME NEW devs \in SUBSET DOMAIN IRQ, Raise(devs)
      PROVE  Reaches'
  <2> DEFINE received == {IRQ_MAP[Receiver[d]] : d \in devs}
  <2>1. io' = [op |-> "irq", devs |-> devs, ipending |-> received]
    BY <1>5 DEF Raise
  <2>2. \A d \in DOMAIN IRQ : d \in devs <=> IRQ[d] \in received
    BY LinesReceived
  <2> HIDE DEF received
  <2> QED
    BY <2>1, <2>2
<1>6. ASSUME NEW r \in DOMAIN Wires, NEW up \in SUBSET Signals(r), NEW used \in {0, 1, 63, 64},
             ReadWord(r, up, used)
      PROVE  Reaches'
  <2> DEFINE w == Word(r, up, used)
  <2>1. io' = [op |-> "word", r |-> r, up |-> up, used |-> used, word |-> w]
    BY <1>6 DEF ReadWord
  <2>2. used \in 0..64
    OBVIOUS
  <2>3. /\ \A f \in DOMAIN MSK[r] : (w \div MSK[r][f]) % 2 = 1 <=> f \in up
        /\ r = "jtag_data" => OFST16(w) = used
        /\ r = "jtag_control" => OFST16(w) + used = 64
    BY <2>2, WordMasks
  <2> HIDE DEF w
  <2> QED
    BY <2>1, <2>3
<1>7. ASSUME NEW ours \in Stamp, NEW hardware \in Stamp, TestId(ours, hardware)
      PROVE  Reaches'
  BY <1>7 DEF TestId
<1> HIDE DEF Reaches, MacroReaches, RegionsBacked, LinesAgree, MasksAgree
<1>8. CASE EndStep
  BY <1>3, <1>4, <1>5, <1>6, <1>7, <1>8 DEF EndStep
<1> QED
  BY <1>1, <1>2, <1>8 DEF EndNext

\* A difference of stamps, as the comparison takes it: round the range.
LEMMA AgeRoundTheRange ==
  ASSUME NEW s \in 0..(IdModulus - 1), NEW h \in 0..(IdModulus - 1)
  PROVE  (h - s) % IdModulus = IF s <= h THEN h - s ELSE h - s + IdModulus
<1>1. IdModulus \in Nat \ {0}
  BY EndAssumption
<1>2. \A m \in Nat \ {0} : \A d \in 0..(m - 1) : d % m = d
  OBVIOUS
<1>3. ASSUME NEW d \in Int, NEW m \in Nat \ {0}, -m <= d, d < 0
      PROVE  d % m = d + m
  BY <1>3
<1>4. CASE s <= h
  <2>1. h - s \in 0..(IdModulus - 1)
    BY <1>1, <1>4
  <2> QED
    BY <1>1, <1>2, <1>4, <2>1
<1>5. CASE ~(s <= h)
  <2>1. h - s \in Int /\ -IdModulus <= h - s /\ h - s < 0
    BY <1>1, <1>5
  <2>2. (h - s) % IdModulus = h - s + IdModulus
    BY <1>1, <1>3, <2>1
  <2> QED
    BY <1>5, <2>2
<1> QED
  BY <1>4, <1>5

\* The stamps whose comparison is on record, with what it answered.
Compared ==
  io.op = "id" =>
    /\ io.ours \in Stamp /\ io.hardware \in Stamp
    /\ io.verdict = alt_avalon_sysid_qsys_test(io.ours, io.hardware)

LEMMA ComparedKept == Compared /\ [EndNext]_io => Compared'
<1> SUFFICES ASSUME Compared, [EndNext]_io PROVE Compared'
  OBVIOUS
<1>1. CASE UNCHANGED io
  BY <1>1 DEF Compared
<1>2. CASE io' = [op |-> "none"]
  BY <1>2 DEF Compared
<1>3. CASE \E ours, hardware \in Stamp : TestId(ours, hardware)
  BY <1>3 DEF TestId, Compared
<1>4. CASE EndStep /\ ~(\E ours, hardware \in Stamp : TestId(ours, hardware))
  <2>1. io'.op \in {"reg", "mem", "irq", "word"}
    BY <1>4 DEF EndStep, Access, Fetch, Raise, ReadWord
  <2> QED
    BY <2>1 DEF Compared
<1> QED
  BY <1>1, <1>2, <1>3, <1>4 DEF EndNext

\* The comparison tells which of two stamps is older.
LEMMA ComparedByAge == Compared => VerdictOnAge
<1> SUFFICES ASSUME Compared, io.op = "id"
             PROVE  LET s == io.ours.timestamp
                        h == io.hardware.timestamp
                    IN  /\ io.verdict = 0 <=> io.ours = io.hardware
                        /\ s < h /\ h - s < IdModulus \div 2 => io.verdict = 1
                        /\ h < s /\ s - h < IdModulus \div 2 => io.verdict = -1
  BY DEF VerdictOnAge
<1> DEFINE s == io.ours.timestamp
           h == io.hardware.timestamp
           d == (h - s) % IdModulus
           half == IdModulus \div 2
<1>1. s \in 0..(IdModulus - 1) /\ h \in 0..(IdModulus - 1)
  BY DEF Compared, Stamp
<1>2. io.verdict = IF io.ours = io.hardware THEN 0 ELSE IF 0 < d /\ d < half THEN 1 ELSE -1
  BY DEF Compared, alt_avalon_sysid_qsys_test
<1>3. d = IF s <= h THEN h - s ELSE h - s + IdModulus
  BY <1>1, AgeRoundTheRange
<1>4. half + half = IdModulus /\ half \in Nat /\ IdModulus \in Nat
  BY EndAssumption
<1>5. s # h => io.ours # io.hardware
  OBVIOUS
<1> HIDE DEF s, h, d, half
<1>6. io.verdict = 0 <=> io.ours = io.hardware
  BY <1>2
<1>7. s < h /\ h - s < half => io.verdict = 1
  BY <1>1, <1>2, <1>3, <1>4, <1>5
<1>8. h < s /\ s - h < half => io.verdict = -1
  BY <1>1, <1>2, <1>3, <1>4, <1>5
<1> QED
  BY <1>6, <1>7, <1>8 DEF s, h, half

\* Software and hardware agree: every macro reaches the register it names, the linker's
\* regions are backed, requests arrive on the lines they are known by, masks find the signals
\* of their names (system.h, linker.h, io.h, altera_avalon_*_regs.h), and the comparison of
\* the generation stamps tells which is older, for words of any even number of values, the
\* code's 2^32 among them, and stamps less than half the range apart
\* (altera_avalon_sysid_qsys.c:51).
THEOREM AddressesAreRight == BspSpec => []AddressesAgree
<1>1. BspInit => Reaches /\ Compared
  BY DEF BspInit, EndInit, Reaches, MacroReaches, RegionsBacked, LinesAgree, MasksAgree, Compared
<1>2. Reaches /\ Compared /\ [BspNext]_all => Reaches' /\ Compared'
  BY StepOfParts, ReachesKept, ComparedKept
<1>3. Reaches /\ Compared => AddressesAgree
  BY ComparedByAge DEF Reaches, AddressesAgree
<1> QED
  BY <1>1, <1>2, <1>3, PTL DEF BspSpec

\* The parts that rely on what they are configured with, and those that do not.
ConfiguredInv == TimerInv /\ AlarmInv /\ FdInv /\ HpInv /\ BtInv
OtherInv == TodInv /\ IrqInv /\ LogInv /\ PtInv /\ CcInv /\ PfInv

\* Every part of the board keeps its state in its types and ranges, the indices of its
\* tables and buffers among them: the pool of descriptors, the echo, the buffer of
\* alt_printf, the table of handlers, the nesting of handlers and the histogram.
THEOREM BoardStaysInRange ==
  ASSUME Prompt, ~StopsOthers, ~CallsNested, Room, AlignedIncrements, LaidOut
  PROVE  BspSpec => []BspTypeOK
<1>1. BspInit => ConfiguredInv
  BY StartOfParts, TimerStarts, StartsOnRing, FdStarts, HpStarts, BtStarts DEF ConfiguredInv
<1>2. BspInit => OtherInv
  BY StartOfParts, TodStarts, IrqStarts, LogStarts, PtStarts, CcStarts, PfStarts DEF OtherInv
<1>3. ConfiguredInv /\ [BspNext]_all => ConfiguredInv'
  BY StepOfParts, TimerKept, StaysOnRing, FdStep, HpKept, BtStays DEF ConfiguredInv
<1>4. OtherInv /\ [BspNext]_all => OtherInv'
  BY StepOfParts, TodKept, IrqKept, LogKept, PtKept, CcKept, PfKept DEF OtherInv
<1>5. ConfiguredInv => TimerTypeOK /\ AlarmTypeOK /\ FdTypeOK /\ HpTypeOK /\ BtTypeOK
  BY HpMeans, BtMeans DEF ConfiguredInv, TimerInv, AlarmInv, FdInv
<1>6. OtherInv => TodTypeOK /\ IrqTypeOK /\ LogTypeOK /\ PtTypeOK /\ CcTypeOK /\ PfTypeOK
  BY TodMeans, IrqMeans, LogMeans, PtMeans, CcMeans, PfMeans DEF OtherInv
<1>7. ConfiguredInv /\ OtherInv => BspTypeOK
  BY <1>5, <1>6 DEF BspTypeOK
<1> QED
  BY <1>1, <1>2, <1>3, <1>4, <1>7, PTL DEF BspSpec

=============================================================================
