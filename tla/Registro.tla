------------------------------ MODULE Registro ------------------------------
(***************************************************************************)
(* The logging half of HAL/src/alt_log_printf.c and the switches of        *)
(* HAL/inc/sys/alt_log_printf.h: which message is printed at which level   *)
(* of ALT_LOG_FLAGS, the echo of alt_write, the heartbeat of the system    *)
(* clock, the reports of the JTAG UART, and alt_log_txchar, which polls    *)
(* the port and then writes to it, also from an interrupt.                 *)
(*                                                                         *)
(* The characters of a message other than the echo are not told apart;     *)
(* the formatter that produces them is in Impressao.                       *)
(***************************************************************************)
EXTENDS Integers, Sequences

CONSTANTS LogPlaces,     \* places of the port's FIFO
          LogEchoLen,    \* ALT_LOG_WRITE_ECHO_LEN
          LogInterval,   \* ALT_LOG_SYS_CLK_INTERVAL, in ticks
          LogAlarm,      \* ALT_LOG_JTAG_UART_TICKS
          LogMaxGaps,    \* bound: logs of an interrupt between a poll and its write
          LogTexts       \* what is passed to alt_write: sequences of "a", "eot", "nul"

ASSUME LogAssumption == /\ LogPlaces \in Nat \ {0} /\ LogEchoLen \in Nat \ {0}
                        /\ LogInterval \in Nat \ {0} /\ LogAlarm \in Nat \ {0}
                        /\ LogMaxGaps \in Nat
                        /\ LogTexts \subseteq Seq({"a", "eot", "nul"})

VARIABLES lgOn,       \* the on-flags, as the compiler initialised them
          lgPort,     \* characters in the port's FIFO
          lgStack,    \* the messages being printed, the running one last
          lgBuf,      \* alt_log_write_buf
          lgClk,      \* alt_log_sys_clk_count
          lgAlarm,    \* ticks until alt_log_jtag_uart_alarm_1 is due; 0 when it was not
              \* started, -1 before the JTAG UART is initialised
          lgLost,     \* characters written to a full FIFO
          lgGaps      \* logs of an interrupt between a poll and its write

lgVars == <<lgOn, lgPort, lgStack, lgBuf, lgClk, lgAlarm, lgLost, lgGaps>>

-----------------------------------------------------------------------------
(* The switches. ALT_LOG_FLAGS is 0 when it is not set. *)

LogLevels == -1 .. 3
LogFlags == {"boot", "sys_clk", "write", "alarm", "startup", "isr"}

LogFrom == [boot |-> 0, sys_clk |-> 1, startup |-> 1, write |-> 2, alarm |-> 2, isr |-> 3]

LogOn(level) == {f \in LogFlags : level # -1 /\ LogFrom[f] <= level}

-----------------------------------------------------------------------------
(* A message: who prints it, how many characters are left, and whether    *)
(* alt_log_txchar has seen room for the next one.                         *)

LogMessage(who, n) == [who |-> who, left |-> n, polled |-> FALSE]
LogRunning == lgStack[Len(lgStack)]
LogInterrupted == lgStack # <<>> /\ LogRunning.who = "interrupt"

(* Pushing the message of an interrupt over a message that has polled opens *)
(* the gap alt_log_txchar does not close.                                   *)
LogPush(who, n) ==
  /\ lgStack' = Append(lgStack, LogMessage(who, n))
  /\ lgGaps' = lgGaps + (IF lgStack # <<>> /\ LogRunning.polled THEN 1 ELSE 0)
  /\ lgGaps' <= LogMaxGaps

alt_log_txchar_poll_NoWait ==
  /\ lgStack # <<>> /\ ~LogRunning.polled
  /\ lgStack' = [lgStack EXCEPT ![Len(lgStack)].polled = TRUE]
  /\ UNCHANGED <<lgOn, lgPort, lgBuf, lgClk, lgAlarm, lgLost, lgGaps>>
alt_log_txchar_poll ==
  /\ lgStack # <<>> /\ ~LogRunning.polled /\ lgPort < LogPlaces
  /\ lgStack' = [lgStack EXCEPT ![Len(lgStack)].polled = TRUE]
  /\ UNCHANGED <<lgOn, lgPort, lgBuf, lgClk, lgAlarm, lgLost, lgGaps>>

alt_log_txchar_write ==
  /\ lgStack # <<>> /\ LogRunning.polled
  /\ lgStack' = IF LogRunning.left = 1 THEN SubSeq(lgStack, 1, Len(lgStack) - 1)
                ELSE [lgStack EXCEPT ![Len(lgStack)] = LogMessage(@.who, @.left - 1)]
  /\ lgPort' = IF lgPort < LogPlaces THEN lgPort + 1 ELSE lgPort
  /\ lgLost' = lgLost + (IF lgPort < LogPlaces THEN 0 ELSE 1)
  /\ UNCHANGED <<lgOn, lgBuf, lgClk, lgAlarm, lgGaps>>

-----------------------------------------------------------------------------
(* alt_write echoes the text: strncpy stops at a NUL and fills with NULs, *)
(* the last copied character gives way to the line's end.                 *)

LogCopied(text, n) ==
  [i \in 1 .. n |-> IF \E j \in 1 .. i : text[j] = "nul" THEN "nul" ELSE text[i]]
LogEcho(text, n) ==
  LET line == [LogCopied(text, n) EXCEPT ![n] = "lf"]
  IN  [i \in 1 .. n |-> IF line[i] = "eot" THEN "D" ELSE line[i]] \o <<"cr", "nul">>

(* What %s prints of the buffer. *)
LogShown(buf) ==
  LET end == CHOOSE i \in DOMAIN buf : buf[i] = "nul" /\ \A j \in 1 .. i - 1 : buf[j] # "nul"
  IN  SubSeq(buf, 1, end - 1)

alt_log_write ==
  /\ lgStack = <<>> /\ "write" \in lgOn
  /\ \E text \in LogTexts :
       LET length == IF LogEchoLen > Len(text) THEN Len(text) ELSE LogEchoLen
       IN  IF length < 2 THEN UNCHANGED <<lgBuf, lgStack, lgGaps>>
           ELSE /\ lgBuf' = LogEcho(text, length)
                /\ LogPush("write", 1 + Len(LogShown(lgBuf')))
  /\ UNCHANGED <<lgOn, lgPort, lgClk, lgAlarm, lgLost>>

(* The messages of the boot (alt_main, alt_exit) and of the JTAG UART's     *)
(* initialisation, which also starts the alarm of the periodic report.      *)
LogBoot ==
  /\ lgStack = <<>> /\ "boot" \in lgOn
  /\ LogPush("boot", 1)
  /\ UNCHANGED <<lgOn, lgPort, lgBuf, lgClk, lgAlarm, lgLost>>

LogStartup ==
  /\ lgStack = <<>> /\ lgAlarm = -1
  /\ lgAlarm' = IF "alarm" \in lgOn THEN LogAlarm ELSE 0
  /\ IF "startup" \in lgOn THEN LogPush("startup", 1) ELSE UNCHANGED <<lgStack, lgGaps>>
  /\ UNCHANGED <<lgOn, lgPort, lgBuf, lgClk, lgLost>>

-----------------------------------------------------------------------------
(* The interrupts. A tick of the system clock prints the heartbeat, counts *)
(* the alarm down and runs it when it is due; the interrupt of the JTAG    *)
(* UART prints its own report. An interrupt does not interrupt another.    *)

LogTick ==
  /\ ~LogInterrupted
  /\ LET on    == "sys_clk" \in lgOn
         beats == on /\ lgClk + 1 > LogInterval
         due   == lgAlarm = 1
         n     == (IF beats THEN 1 ELSE 0) + (IF due THEN 1 ELSE 0)
     IN  /\ lgClk' = IF beats THEN 0 ELSE IF on THEN lgClk + 1 ELSE lgClk
         /\ lgAlarm' = IF due THEN LogAlarm ELSE IF lgAlarm > 0 THEN lgAlarm - 1 ELSE lgAlarm
         /\ IF n > 0 THEN LogPush("interrupt", n) ELSE UNCHANGED <<lgStack, lgGaps>>
  /\ UNCHANGED <<lgOn, lgPort, lgBuf, lgLost>>

LogIsr ==
  /\ ~LogInterrupted /\ "isr" \in lgOn
  /\ LogPush("interrupt", 1)
  /\ UNCHANGED <<lgOn, lgPort, lgBuf, lgClk, lgAlarm, lgLost>>

LogDrain ==
  /\ lgPort > 0 /\ lgPort' = lgPort - 1
  /\ UNCHANGED <<lgOn, lgStack, lgBuf, lgClk, lgAlarm, lgLost, lgGaps>>

LogInit ==
  /\ \E level \in LogLevels : lgOn = LogOn(level)
  /\ lgPort = 0 /\ lgStack = <<>> /\ lgBuf = <<>> /\ lgClk = 0 /\ lgAlarm = -1
  /\ lgLost = 0 /\ lgGaps = 0

LogNext ==
  \/ alt_log_txchar_poll \/ alt_log_txchar_write
  \/ alt_log_write \/ LogBoot \/ LogStartup
  \/ LogTick \/ LogIsr \/ LogDrain

LogSpec == LogInit /\ [][LogNext]_lgVars

-----------------------------------------------------------------------------
(* The registers and buffers of the log keep their types: the port's FIFO  *)
(* its places, the clock's count its interval, the echo its buffer.        *)
LogTypeOK ==
  /\ lgOn \subseteq LogFlags
  /\ lgPort \in 0 .. LogPlaces
  /\ Len(lgStack) <= 2
  /\ Len(lgBuf) <= LogEchoLen + 2
  /\ lgClk \in 0 .. LogInterval
  /\ lgAlarm \in -1 .. LogAlarm

(* A character of the log is lost only where an interrupt logs between the *)
(* poll of alt_log_txchar and its write, one for each such interrupt at    *)
(* most: the poll protects everything else, interrupts included.           *)
LostOnlyInGaps == lgLost <= lgGaps

(* What alt_write echoes never carries a Ctrl-D, which would end the       *)
(* terminal's session, and is a whole line, unless the text itself holds a *)
(* NUL, terminated within the buffer however long the text. That it is the *)
(* beginning of the text is another matter: see EchoesTheFirst.            *)
EchoIsHarmless ==
  lgBuf # <<>> =>
    /\ \A i \in DOMAIN lgBuf : lgBuf[i] # "eot"
    /\ lgBuf[Len(lgBuf)] = "nul"
    /\ \/ SubSeq(lgBuf, Len(lgBuf) - 2, Len(lgBuf) - 1) = <<"lf", "cr">>
          /\ LogShown(lgBuf) = SubSeq(lgBuf, 1, Len(lgBuf) - 1)
       \/ \E i \in 1 .. Len(lgBuf) - 3 : lgBuf[i] = "nul"

(* With the log silent nothing is printed, lost or left in the port, and   *)
(* the level that prints from the interrupt handler prints all the others: *)
(* alt_log_printf.h, "As ALT_LOG_FLAGS increase, they increase in          *)
(* intrusiveness".                                                         *)
SilentMeansSilent ==
  /\ lgOn = {} => lgLost = 0 /\ lgStack = <<>> /\ lgPort = 0
  /\ "isr" \in lgOn => lgOn = LogFlags

(* Nothing of the log is lost: alt_log_printf.c:97, "Wait until the device *)
(* is ready for a character".                                              *)
WaitsUntilReady == lgLost = 0

(* "The first ALT_LOG_WRITE_ECHO_LEN characters of every printf command    *)
(* [...] gets echoed" (alt_log_printf.c:437-439). The line's end takes the *)
(* place of the last of them, and a text of one character is not echoed.   *)
EchoesTheFirst ==
  \A text \in LogTexts :
    LET n == IF LogEchoLen > Len(text) THEN Len(text) ELSE LogEchoLen
    IN  (\A i \in DOMAIN text : text[i] = "a")
          => SubSeq(LogEcho(text, n), 1, n) = SubSeq(text, 1, n)

(* "A system clock is alive message every ALT_LOG_SYS_CLK_INTERVAL (in     *)
(* ticks)" (alt_log_printf.c:464-466): with that many ticks counted the    *)
(* message is out. It comes a tick later.                                  *)
HeartbeatEveryInterval == lgClk < LogInterval

\* What the log prints and loses (alt_log_printf.c): its losses, the echo of alt_write and
\* the silent level.
LogSafe == LostOnlyInGaps /\ EchoIsHarmless /\ SilentMeansSilent
=============================================================================
