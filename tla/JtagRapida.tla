----------------------------- MODULE JtagRapida -----------------------------
(***************************************************************************)
(* The interrupt-driven ("fast") driver of the JTAG UART: write, read,     *)
(* close and ioctl of the program, the interrupt handler, the alarm that   *)
(* watches whether a host is there, and the device with its two FIFOs.     *)
(* The handler and the alarm run with interrupts off; only device and host *)
(* move while they do.  A call is cut wherever it reads or writes what it  *)
(* shares with them.  One task, no operating system: the semaphores and    *)
(* event flags are empty macros and a call that waits spins.               *)
(***************************************************************************)
EXTENDS Naturals, Sequences

CONSTANTS
  BUF_LEN,         \* ALTERA_AVALON_JTAG_UART_BUF_LEN, one slot stays free
  FifoDepth,       \* characters each FIFO of the device holds (64)
  AlmostEmpty,     \* the write interrupt comes at this many characters or fewer (8)
  JTAG_INT_MAX,    \* INT_MAX
  DEFAULT_TIMEOUT, \* silent alarm periods after which the host counts as gone
  HasClock,        \* there is a system clock for the alarm
  JtagChars,       \* bound: characters that travel, either way; they are numbered
  JtagMaxLen       \* bound: length of one read or write

ASSUME JtagAssumption ==
  /\ {BUF_LEN, FifoDepth, AlmostEmpty, JTAG_INT_MAX, DEFAULT_TIMEOUT} \subseteq Nat
  /\ BUF_LEN > 1 /\ AlmostEmpty < FifoDepth
  /\ 2 <= DEFAULT_TIMEOUT /\ DEFAULT_TIMEOUT <= JTAG_INT_MAX - 2
  /\ HasClock \in BOOLEAN
  /\ JtagChars \in Nat /\ JtagMaxLen \in Nat \ {0}

VARIABLES
  js,       \* altera_avalon_jtag_uart_state
  jd,       \* the device
  ji,       \* the handler: where it is, the control it read, the room it found
  jc,       \* the call in progress
  jo        \* the other end: is a host there; what was written, sent, received, read

jtagVars == <<js, jd, ji, jc, jo>>

JSlot == 0..(BUF_LEN - 1)
JChar == 1..JtagChars
ToSlot(i) == i % BUF_LEN
Least(a, b) == IF a < b THEN a ELSE b

JtagTypeOK ==
  /\ js \in [irq_enable : SUBSET {"RE", "WE"}, timeout : 0..JTAG_INT_MAX,
             host_inactive : 0..JTAG_INT_MAX, rx_in : JSlot, rx_out : JSlot,
             tx_in : JSlot, tx_out : JSlot, rx_buf : [JSlot -> 0..JtagChars],
             tx_buf : [JSlot -> 0..JtagChars]]
  /\ jd.ien \in SUBSET {"RE", "WE"} /\ {jd.pause_irq, jd.ac} \subseteq BOOLEAN
  /\ jd.rfifo \in Seq(JChar) /\ jd.wfifo \in Seq(JChar)
  /\ Len(jd.rfifo) <= FifoDepth
  /\ ji \in [pc : {"off", "control", "rx", "rx_end", "tx", "tx_end"},
             control : SUBSET {"RI", "WI"}, ravail : BOOLEAN, space : 0..FifoDepth]
  /\ jc \in [pc : {"idle", "w_sample", "w_copy", "w_publish", "w_kick", "w_wait", "w_host",
                   "w_return", "r_sample", "r_copy", "r_publish", "r_wait", "r_more",
                   "r_return", "close"},
             count : 0..JtagMaxLen, done : 0..JtagMaxLen, n : 0..JtagMaxLen,
             in : JSlot, out : JSlot, block : BOOLEAN]
  /\ jo \in [host : BOOLEAN, left : 0..JtagChars, written : 0..JtagChars, sent : 0..JtagChars,
             came : 0..JtagChars, read : 0..JtagChars]

NoCall == [pc |-> "idle", count |-> 0, done |-> 0, n |-> 0, in |-> 0, out |-> 0, block |-> TRUE]
NoIrq  == [pc |-> "off", control |-> {}, ravail |-> FALSE, space |-> 0]

\* After altera_avalon_jtag_uart_init: without a clock the alarm cannot start.
JtagInit ==
  /\ js = [irq_enable |-> {"RE"}, host_inactive |-> 0,
           timeout |-> IF HasClock THEN DEFAULT_TIMEOUT ELSE JTAG_INT_MAX,
           rx_in |-> 0, rx_out |-> 0, tx_in |-> 0, tx_out |-> 0,
           rx_buf |-> [s \in JSlot |-> 0], tx_buf |-> [s \in JSlot |-> 0]]
  /\ jd = [ien |-> {"RE"}, rfifo |-> <<>>, wfifo |-> <<>>, pause_irq |-> FALSE, ac |-> FALSE]
  /\ ji = NoIrq /\ jc = NoCall
  /\ jo = [host |-> FALSE, left |-> JtagChars, written |-> 0, sent |-> 0, came |-> 0, read |-> 0]

-----------------------------------------------------------------------------
(* Host and device.  Of the two causes of the receive interrupt only the   *)
(* host's pause is modelled; the other, an almost full FIFO, is a host that*)
(* pauses there.                                                           *)

Pending ==
  (IF "RE" \in jd.ien /\ jd.pause_irq THEN {"RI"} ELSE {})
    \cup (IF "WE" \in jd.ien /\ Len(jd.wfifo) <= AlmostEmpty THEN {"WI"} ELSE {})

HostMoves ==
  /\ jo' = [jo EXCEPT !.host = ~@]
  /\ UNCHANGED <<js, jd, ji, jc>>

HostSends ==
  /\ jo.host /\ jo.left > 0 /\ Len(jd.rfifo) < FifoDepth
  /\ jd' = [jd EXCEPT !.rfifo = Append(@, jo.came + 1), !.ac = TRUE]
  /\ jo' = [jo EXCEPT !.came = @ + 1, !.left = @ - 1]
  /\ UNCHANGED <<js, ji, jc>>

HostPauses ==
  /\ jo.host
  /\ jd' = [jd EXCEPT !.pause_irq = @ \/ jd.rfifo # <<>>, !.ac = TRUE]
  /\ UNCHANGED <<js, ji, jc, jo>>

HostTakes ==
  /\ jo.host /\ jd.wfifo # <<>>
  /\ jd' = [jd EXCEPT !.wfifo = Tail(@)]
  /\ jo' = [jo EXCEPT !.sent = Head(jd.wfifo)]
  /\ UNCHANGED <<js, ji, jc>>

Host == HostMoves \/ HostSends \/ HostPauses \/ HostTakes

-----------------------------------------------------------------------------
(* altera_avalon_jtag_uart_irq and altera_avalon_jtag_uart_timeout.        *)

jtag_Enter ==
  /\ ji.pc = "off" /\ Pending # {}
  /\ ji' = [ji EXCEPT !.pc = "control"]
  /\ UNCHANGED <<js, jd>>

\* The outer loop: the control register is read again until nothing is pending.
jtag_Control ==
  /\ ji.pc = "control"
  /\ ji' = IF Pending = {} THEN NoIrq
           ELSE [pc |-> IF "RI" \in Pending THEN "rx" ELSE "tx", control |-> Pending,
                 ravail |-> TRUE, space |-> FifoDepth - Len(jd.wfifo)]
  /\ UNCHANGED <<js, jd>>

\* One turn of the receive loop: no room leaves the FIFO alone.
jtag_RxFull ==
  /\ ji.pc = "rx" /\ ToSlot(js.rx_in + 1) = js.rx_out
  /\ ji' = [ji EXCEPT !.pc = "rx_end"]
  /\ UNCHANGED <<js, jd>>

jtag_RxData ==
  /\ ji.pc = "rx" /\ ToSlot(js.rx_in + 1) # js.rx_out
  /\ ji' = [ji EXCEPT !.pc = IF jd.rfifo = <<>> THEN "rx_end" ELSE "rx",
                      !.ravail = Len(jd.rfifo) > 1]
  /\ IF jd.rfifo = <<>>
       THEN jd' = [jd EXCEPT !.pause_irq = FALSE] /\ UNCHANGED js
       ELSE /\ jd' = [jd EXCEPT !.pause_irq = FALSE, !.rfifo = Tail(@)]
            /\ js' = [js EXCEPT !.rx_buf[js.rx_in] = Head(jd.rfifo), !.rx_in = ToSlot(@ + 1)]

\* Characters left over: the buffer is full, and receiving is off until a read.
jtag_RxEnd ==
  /\ ji.pc = "rx_end"
  /\ LET mask == IF ji.ravail THEN {"RE"} ELSE {}
     IN /\ js' = [js EXCEPT !.irq_enable = @ \ mask]
        /\ jd' = [jd EXCEPT !.ien = IF ji.ravail THEN js.irq_enable \ mask ELSE @]
  /\ ji' = [ji EXCEPT !.pc = IF "WI" \in ji.control THEN "tx" ELSE "control"]

jtag_TxData_IgnoresSpace ==
  /\ ji.pc = "tx" /\ js.tx_out # js.tx_in
  /\ jd' = [jd EXCEPT !.wfifo = Append(@, js.tx_buf[js.tx_out])]
  /\ js' = [js EXCEPT !.tx_out = ToSlot(@ + 1)]
  /\ ji' = [ji EXCEPT !.space = IF @ = 0 THEN 0 ELSE @ - 1]

jtag_TxData ==
  /\ ji.pc = "tx" /\ ji.space > 0 /\ js.tx_out # js.tx_in
  /\ jd' = [jd EXCEPT !.wfifo = Append(@, js.tx_buf[js.tx_out])]
  /\ js' = [js EXCEPT !.tx_out = ToSlot(@ + 1)]
  /\ ji' = [ji EXCEPT !.space = @ - 1]

\* Room left over: nothing more to send, and transmitting is off.
jtag_TxEnd ==
  /\ ji.pc = "tx" /\ (ji.space = 0 \/ js.tx_out = js.tx_in)
  /\ LET mask == IF ji.space > 0 THEN {"WE"} ELSE {}
     IN /\ js' = [js EXCEPT !.irq_enable = @ \ mask]
        /\ jd' = [jd EXCEPT !.ien = IF ji.space > 0 THEN js.irq_enable \ mask ELSE @]
  /\ ji' = [ji EXCEPT !.pc = "control"]

JtagHandler ==
  /\ \/ jtag_Enter \/ jtag_Control \/ jtag_RxFull \/ jtag_RxData \/ jtag_RxEnd
     \/ jtag_TxData \/ jtag_TxEnd
  /\ UNCHANGED <<jc, jo>>

\* The alarm, once per period: activity is acknowledged, silence is counted up to
\* INT_MAX - 2.
JtagTimeout ==
  /\ HasClock /\ ji.pc = "off"
  /\ IF jd.ac
       THEN /\ jd' = [jd EXCEPT !.ien = js.irq_enable, !.ac = FALSE]
            /\ js' = [js EXCEPT !.host_inactive = 0]
       ELSE /\ js.host_inactive < JTAG_INT_MAX - 2
            /\ js' = [js EXCEPT !.host_inactive = @ + 1]
            /\ UNCHANGED jd
  /\ UNCHANGED <<ji, jc, jo>>

-----------------------------------------------------------------------------
(* The calls.                                                              *)

Silent == js.host_inactive >= js.timeout

Enable(bit) ==
  /\ js' = [js EXCEPT !.irq_enable = @ \cup {bit}]
  /\ jd' = [jd EXCEPT !.ien = js.irq_enable \cup {bit}]

JtagWrite ==
  /\ jc.pc = "idle"
  /\ \E n \in 1..Least(JtagMaxLen, jo.left), b \in BOOLEAN :
       /\ jc' = [NoCall EXCEPT !.pc = "w_sample", !.count = n, !.block = b]
       /\ jo' = [jo EXCEPT !.left = @ - n]
  /\ UNCHANGED <<js, jd>>

jw_Room_NoGap(in, out) ==
  CASE in < out  -> out - 1 - in
    [] in >= out -> BUF_LEN - in

\* Room after in and before out, in one piece.
jw_Room(in, out) ==
  CASE in < out             -> out - 1 - in
    [] in >= out /\ out > 0 -> BUF_LEN - in
    [] in >= out /\ out = 0 -> BUF_LEN - 1 - in

jw_Sample ==
  /\ jc.pc = "w_sample"
  /\ LET n == Least(jw_Room(js.tx_in, js.tx_out), jc.count)
     IN jc' = IF n = 0 THEN [jc EXCEPT !.pc = "w_kick", !.out = js.tx_out]
              ELSE [jc EXCEPT !.pc = "w_copy", !.in = js.tx_in, !.n = n]
  /\ UNCHANGED <<js, jd, jo>>

jw_Copy ==
  /\ jc.pc = "w_copy"
  /\ js' = [js EXCEPT !.tx_buf = [s \in JSlot |->
              IF s \in jc.in..(jc.in + jc.n - 1)
                THEN jo.written + 1 + s - jc.in ELSE @[s]]]
  /\ jo' = [jo EXCEPT !.written = @ + jc.n]
  /\ jc' = [jc EXCEPT !.pc = "w_publish"]
  /\ UNCHANGED jd

jw_Publish ==
  /\ jc.pc = "w_publish"
  /\ js' = [js EXCEPT !.tx_in = ToSlot(jc.in + jc.n)]
  /\ jc' = [jc EXCEPT !.count = @ - jc.n, !.done = @ + jc.n, !.n = 0, !.in = 0,
                      !.pc = IF jc.count = jc.n THEN "w_kick" ELSE "w_sample"]
  /\ UNCHANGED <<jd, jo>>

\* The interrupt is kicked every time; then the call waits, or not.
jw_Kick ==
  /\ jc.pc = "w_kick"
  /\ Enable("WE")
  /\ jc' = [jc EXCEPT !.pc = IF jc.count > 0 /\ jc.block THEN "w_wait" ELSE "w_return"]
  /\ UNCHANGED jo

\* The spin ends; only then is the host looked at, at any silence of its.
jw_Wait ==
  /\ jc.pc = "w_wait" /\ (jc.out # js.tx_out \/ Silent)
  /\ jc' = [jc EXCEPT !.pc = "w_host"]
  /\ UNCHANGED <<js, jd, jo>>

jw_Host ==
  /\ jc.pc = "w_host"
  /\ jc' = [jc EXCEPT !.pc = IF js.host_inactive # 0 THEN "w_return" ELSE "w_sample"]
  /\ UNCHANGED <<js, jd, jo>>

jw_Return ==
  /\ jc.pc = "w_return"
  /\ jc' = NoCall
  /\ UNCHANGED <<js, jd, jo>>

Writes == jw_Sample \/ jw_Copy \/ jw_Publish \/ jw_Kick \/ jw_Wait \/ jw_Host \/ jw_Return

JtagRead ==
  /\ jc.pc = "idle"
  /\ \E n \in 1..JtagMaxLen, b \in BOOLEAN :
       jc' = [NoCall EXCEPT !.pc = "r_sample", !.count = n, !.block = b]
  /\ UNCHANGED <<js, jd, jo>>

\* Characters between out and in, in one piece.
jr_Ready(in, out) == IF in >= out THEN in - out ELSE BUF_LEN - out

jr_Sample ==
  /\ jc.pc = "r_sample"
  /\ LET n == Least(jr_Ready(js.rx_in, js.rx_out), jc.count)
     IN jc' = IF n > 0 THEN [jc EXCEPT !.pc = "r_copy", !.out = js.rx_out, !.n = n]
              ELSE [jc EXCEPT !.pc = IF jc.done = 0 /\ jc.block THEN "r_wait" ELSE "r_return",
                              !.in = js.rx_in]
  /\ UNCHANGED <<js, jd, jo>>

jr_Copy ==
  /\ jc.pc = "r_copy"
  /\ jo' = [jo EXCEPT !.read = js.rx_buf[jc.out + jc.n - 1]]
  /\ jc' = [jc EXCEPT !.pc = "r_publish"]
  /\ UNCHANGED <<js, jd>>

jr_Publish ==
  /\ jc.pc = "r_publish"
  /\ js' = [js EXCEPT !.rx_out = ToSlot(jc.out + jc.n)]
  /\ jc' = [jc EXCEPT !.count = @ - jc.n, !.done = @ + jc.n, !.n = 0, !.out = 0,
                      !.pc = IF jc.count = jc.n THEN "r_return" ELSE "r_sample"]
  /\ UNCHANGED <<jd, jo>>

jr_Wait ==
  /\ jc.pc = "r_wait" /\ (jc.in # js.rx_in \/ Silent)
  /\ jc' = [jc EXCEPT !.pc = "r_more"]
  /\ UNCHANGED <<js, jd, jo>>

\* What has come meanwhile is read, also after the host has been silent.
jr_More ==
  /\ jc.pc = "r_more"
  /\ jc' = [jc EXCEPT !.pc = IF jc.in = js.rx_in THEN "r_return" ELSE "r_sample"]
  /\ UNCHANGED <<js, jd, jo>>

\* Something was read: there is room, and receiving is on again.
jr_Return ==
  /\ jc.pc = "r_return"
  /\ IF jc.done > 0 THEN Enable("RE") ELSE UNCHANGED <<js, jd>>
  /\ jc' = NoCall
  /\ UNCHANGED jo

Reads == jr_Sample \/ jr_Copy \/ jr_Publish \/ jr_Wait \/ jr_More \/ jr_Return

JtagClose ==
  /\ jc.pc = "idle"
  /\ \E b \in BOOLEAN : jc' = [NoCall EXCEPT !.pc = "close", !.block = b]
  /\ UNCHANGED <<js, jd, jo>>

jtag_CloseWait ==
  /\ jc.pc = "close" /\ (js.tx_out = js.tx_in \/ Silent \/ ~jc.block)
  /\ jc' = NoCall
  /\ UNCHANGED <<js, jd, jo>>

\* TIOCSTIMEOUT; without an alarm it answers ENOTTY.  TIOCGCONNECTED only looks.
JtagIoctl ==
  /\ jc.pc = "idle" /\ js.timeout # JTAG_INT_MAX
  /\ \E arg \in {1, DEFAULT_TIMEOUT} :
       js' = [js EXCEPT !.timeout =
                IF arg >= 2 /\ arg < JTAG_INT_MAX THEN arg ELSE JTAG_INT_MAX - 1]
  /\ UNCHANGED <<jd, jc, jo>>

JtagCalls == JtagWrite \/ JtagRead \/ JtagClose \/ JtagIoctl
InCall    == Writes \/ Reads \/ jtag_CloseWait
Program   == ji.pc = "off" /\ (JtagCalls \/ InCall) /\ UNCHANGED ji

JtagNext == Host \/ JtagHandler \/ JtagTimeout \/ Program

\* The processor executes and its handler leaves the program a chance; the alarm
\* comes round; a host that is there again and again takes what is for it.
JtagFairness ==
  /\ WF_jtagVars(JtagHandler)
  /\ SF_jtagVars(ji.pc = "off" /\ InCall /\ UNCHANGED ji)
  /\ SF_jtagVars(JtagTimeout) /\ SF_jtagVars(HostTakes)

JtagSpec == JtagInit /\ [][JtagNext]_jtagVars /\ JtagFairness

-----------------------------------------------------------------------------
\* The room the handler reads once is enough for all it writes: the write FIFO, which
\* checks nothing, never gets a character it cannot hold
\* (altera_avalon_jtag_uart_init.c:173-185).
FifoNeverOverrun == Len(jd.wfifo) <= FifoDepth

\* Characters in the transmit buffer always have somebody who moves them: the
\* interrupt, or the write that is about to kick it (init.c:193-201, write.c:132-135).
KickedOrKicking ==
  ji.pc = "off" /\ js.tx_in # js.tx_out
    => "WE" \in jd.ien \/ jc.pc \in {"w_sample", "w_copy", "w_publish", "w_kick"}

\* Receiving is off only while the buffer is full or a read that took something is on
\* its way to turn it on (init.c:157-167, read.c:184-191).
ReceivingUnlessFull ==
  ji.pc = "off" /\ "RE" \notin jd.ien
    => \/ ToSlot(js.rx_in + 1) = js.rx_out
       \/ jc.pc \in {"r_publish", "r_sample", "r_copy", "r_return"} /\ jc.done > 0

\* The driver's safety: the three above.
JtagSafe == FifoNeverOverrun /\ KickedOrKicking /\ ReceivingUnlessFull

\* The host gets what the program wrote, in order and once, although write, handler
\* and host each hold a different end of the two buffers (write.c:99-123, init.c:175-185).
JtagOutInOrder ==
  [][jo'.sent # jo.sent => jo'.sent = jo.sent + 1]_jtagVars

\* The program reads every character the host sent, in order (read.c:116-138).
JtagInInOrder ==
  [][jc.pc = "r_copy" /\ jc'.pc = "r_publish" => jo'.read = jo.read + jc.n]_jtagVars

\* With a clock no write and no close waits for ever, whether the host reads, stays
\* away, or comes and goes, unless the timeout has been turned off
\* (write.c:179-184, init.c:254-258).
NoWaitForEver ==
  HasClock /\ <>[](js.timeout < JTAG_INT_MAX - 1) => []<>(jc.pc \notin {"w_wait", "w_host", "close"})

\* "Host not connected" (altera_avalon_jtag_uart_write.c:210): a blocking write that
\* took nothing answers EIO only when the host has been silent for the whole timeout
\* that "assuming host is not connected" needs (ioctl.c:61).
EioMeansNoHost ==
  jc.pc = "w_return" /\ jc.done = 0 /\ jc.block => Silent

=============================================================================
