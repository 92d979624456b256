------------------------------- MODULE Placa -------------------------------
(* The parts of the board support package that carry no characters: each    *)
(* keeps its own state, so that a behaviour runs one of them, chosen at the *)
(* start, and leaves the others in their initial states.                    *)
EXTENDS Temporizador, Alarmes, HoraDoDia, Interrupcoes, Descritores, Enderecos, Registro,
        Impressao, Cache, Monte, Perfil, Arranque, AltBusySleep

VARIABLE part

-----------------------------------------------------------------------------
Parts == {"timer", "alarms", "time", "irq", "files", "addresses", "log", "print", "cache",
          "heap", "profile", "boot", "sleep"}

all == <<part, timerVars, alarmVars, todVars, irqVars, fdVars, io, lgVars, ptVars, ccVars,
         hpVars, pfVars, btVars, sleepVars>>

Rests(p, v) == IF part = p THEN TRUE ELSE UNCHANGED v

OthersRest ==
  /\ Rests("timer", timerVars) /\ Rests("alarms", alarmVars) /\ Rests("time", todVars)
  /\ Rests("irq", irqVars) /\ Rests("files", fdVars) /\ Rests("addresses", io)
  /\ Rests("log", lgVars) /\ Rests("print", ptVars) /\ Rests("cache", ccVars)
  /\ Rests("heap", hpVars) /\ Rests("profile", pfVars) /\ Rests("boot", btVars)
  /\ Rests("sleep", sleepVars)

Of(p, A) == part = p /\ A /\ OthersRest /\ UNCHANGED part

\* Of parts with several initial states all but the one that runs take one.
BspInit ==
  /\ part \in Parts
  /\ TimerInit /\ AlarmInit /\ TodInit /\ IrqInit /\ FdInit /\ EndInit
  /\ LogInit /\ (part # "log" => lgOn = {})
  /\ PtInit /\ CcInit /\ PfInit
  /\ HpInit /\ (part # "heap" => hp_check)
  /\ BtInit /\ (part # "boot" => bt_with = {})
  /\ SleepInit /\ (part # "sleep" => asked = 0)

BspNext ==
  \/ Of("timer", TimerNext) \/ Of("alarms", AlarmNext) \/ Of("time", TodNext)
  \/ Of("irq", IrqNext) \/ Of("files", FdNext) \/ Of("addresses", EndNext)
  \/ Of("log", LogNext) \/ Of("print", PtNext) \/ Of("cache", CcNext)
  \/ Of("heap", HpNext) \/ Of("profile", PfNext) \/ Of("boot", BtNext)
  \/ Of("sleep", SleepNext)

\* The fairness of the timer, the alarms and the interrupts, as their modules state it.
BspFairness ==
  /\ WF_all(\/ Of("timer", td.pc # "boot" /\ TimerNext) \/ Of("alarms", TickAlarm)
            \/ Of("irq", Interrupt))
  /\ WF_all(Of("irq", Serve)) /\ WF_all(Of("irq", Handling))

BspSpec == BspInit /\ [][BspNext]_all /\ BspFairness

-----------------------------------------------------------------------------
\* The parts keep their state in its types and ranges, which for the time of day,
\* the pool of descriptors and the buffers is what their loops rely on.
BspTypeOK ==
  /\ TimerTypeOK /\ AlarmTypeOK /\ TodTypeOK /\ IrqTypeOK /\ FdTypeOK /\ LogTypeOK
  /\ PtTypeOK /\ CcTypeOK /\ HpTypeOK /\ PfTypeOK /\ BtTypeOK

\* Time is true: ticks, timestamps and the time of day
\* (altera_avalon_timer_sc.c, altera_avalon_timer_ts.c, alt_gettod.c, alt_settod.c).
TimeSafe == TicksKeepUp /\ TimestampTrue /\ Truthful

\* Memory holds what the program put there: heap and stack stay apart, no store is lost
\* in a cache, sections start as they were compiled and what was constructed is destroyed
\* (alt_sbrk.c, alt_dcache_flush.c, alt_uncached_malloc.c, alt_load.c, crt0.S).
MemorySafe ==
  /\ HeapApartFromStack /\ LimitFollowsHeap
  /\ ReadsLastStore /\ FlushReachesMemory /\ CodeIsFetched
  /\ StartsAfresh /\ DestroysAsConstructed

\* What is printed is what was asked for (alt_log_printf.c, alt_printf.c,
\* alt_putcharbuf.c).
PrintSafe == part = "print" => ConversionsExact /\ NothingLeftInBuffer /\ HexShortest

\* What moves goes on moving: the clock ticks, a tick ends, the most urgent request is
\* served (altera_avalon_timer_sc.c, alt_tick.c, alt_irq_handler.c).
BspLive == ClockTicks /\ TickEnds /\ MostUrgentServed

=============================================================================
