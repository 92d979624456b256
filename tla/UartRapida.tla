----------------------------- MODULE UartRapida -----------------------------
(***************************************************************************)
(* The interrupt-driven ("fast") driver of the Avalon UART: the calls of   *)
(* the program, the interrupt handler that cuts into them, and the device. *)
(* The handler runs with interrupts off, so that only the device moves     *)
(* while it does; a call is cut wherever it touches what they share.  In   *)
(* a single-threaded build semaphores and event flags are empty macros,    *)
(* and a call that waits polls the buffer.                                 *)
(***************************************************************************)
EXTENDS Naturals

CONSTANTS
  ALT_AVALON_UART_BUF_LEN,  \* slots of each circular buffer, one always free
  UartChars,    \* bound: characters that travel, either way; they are numbered
  UartMaxLen    \* bound: length of one read or write

ASSUME UartAssumption ==
  /\ ALT_AVALON_UART_BUF_LEN \in Nat /\ ALT_AVALON_UART_BUF_LEN > 1
  /\ UartChars \in Nat /\ UartMaxLen \in Nat \ {0}

VARIABLES
  sp,        \* the driver's state, altera_avalon_uart_state
  hw,        \* the device's registers
  isr,       \* the handler: where it is, and the status it read
  fg,        \* the call in progress
  ends       \* what was written, sent, received and read so far

uartVars == <<sp, hw, isr, fg, ends>>

Slot    == 0..(ALT_AVALON_UART_BUF_LEN - 1)
Char    == 0..(UartChars + 1)
Damaged == UartChars + 1         \* what a character with a framing error reads as
IrqBits == {"RTS", "RRDY", "TRDY", "DCTS"}
StatusBits == {"RRDY", "TRDY", "FE", "CTS", "DCTS"}   \* this device never sets the last two

Places ==
  {"idle", "w_test", "w_enable", "w_wait", "w_store", "w_publish", "w_end",
   "r_test", "r_check", "r_enable", "r_take", "r_advance", "r_end", "c_wait"}

UartTypeOK ==
  /\ sp \in [ctrl : SUBSET IrqBits, rx_start : Slot, rx_end : Slot,
             tx_start : Slot, tx_end : Slot, rx_buf : [Slot -> Char],
             tx_buf : [Slot -> Char]]
  /\ hw \in [control : SUBSET IrqBits, rrdy : BOOLEAN, rxdata : Char, fe : BOOLEAN,
             trdy : BOOLEAN, txdata : Char, shifting : BOOLEAN, shift : Char]
  /\ isr \in [pc : {"off", "clear", "rx", "tx", "tx_end"}, status : SUBSET StatusBits]
  /\ fg \in [pc : Places, count : 0..UartMaxLen, len : 0..UartMaxLen, block : BOOLEAN]
  /\ ends \in [left : 0..UartChars, written : 0..UartChars, sent : Char,
              came : 0..UartChars, read : 0..UartChars, damaged : BOOLEAN, lapped : BOOLEAN]

After(i) == (i + 1) % ALT_AVALON_UART_BUF_LEN

AtRest == [pc |-> "idle", count |-> 0, len |-> 0, block |-> TRUE]

\* After altera_avalon_uart_init.
UartInit ==
  /\ sp = [ctrl |-> {"RTS", "RRDY", "DCTS"}, rx_start |-> 0, rx_end |-> 0,
           tx_start |-> 0, tx_end |-> 0, rx_buf |-> [i \in Slot |-> 0],
           tx_buf |-> [i \in Slot |-> 0]]
  /\ hw = [control |-> {"RTS", "RRDY", "DCTS"}, rrdy |-> FALSE, rxdata |-> 0, fe |-> FALSE,
           trdy |-> TRUE, txdata |-> 0, shifting |-> FALSE, shift |-> 0]
  /\ isr = [pc |-> "off", status |-> {}]
  /\ fg = AtRest
  /\ ends = [left |-> UartChars, written |-> 0, sent |-> 0, came |-> 0, read |-> 0,
             damaged |-> FALSE, lapped |-> FALSE]

-----------------------------------------------------------------------------
(* The device and its lines.                                               *)

Flag(b, on) == IF on THEN {b} ELSE {}

STATUS ==
  Flag("RRDY", hw.rrdy) \cup Flag("TRDY", hw.trdy) \cup Flag("FE", hw.fe)

irq == hw.control \cap STATUS # {}

\* A character comes in, over one that was not read if need be.
Receive ==
  /\ ends.left > 0
  /\ ends' = [ends EXCEPT !.came = @ + 1, !.left = @ - 1]
  /\ \E damaged \in BOOLEAN :
       hw' = [hw EXCEPT !.rrdy = TRUE, !.fe = @ \/ damaged,
                        !.rxdata = IF damaged THEN Damaged ELSE ends.came + 1]
  /\ UNCHANGED <<sp, isr, fg>>

LoadShifter ==
  /\ ~hw.trdy /\ ~hw.shifting
  /\ hw' = [hw EXCEPT !.trdy = TRUE, !.shifting = TRUE, !.shift = hw.txdata]
  /\ UNCHANGED <<sp, isr, fg, ends>>

ShiftOut ==
  /\ hw.shifting
  /\ hw' = [hw EXCEPT !.shifting = FALSE]
  /\ ends' = [ends EXCEPT !.sent = hw.shift]
  /\ UNCHANGED <<sp, isr, fg>>

Device == Receive \/ LoadShifter \/ ShiftOut

-----------------------------------------------------------------------------
(* The interrupt handler.                                                  *)

\* altera_avalon_uart_irq reads the status ...
IrqEnter ==
  /\ isr.pc = "off" /\ irq
  /\ isr' = [pc |-> "clear", status |-> STATUS]
  /\ UNCHANGED <<sp, hw, fg, ends>>

\* ... then clears the error flags, whatever has come up since, and branches.
IrqClear ==
  /\ isr.pc = "clear"
  /\ hw' = [hw EXCEPT !.fe = FALSE]
  /\ isr' = [isr EXCEPT !.pc = IF "RRDY" \in isr.status THEN "rx" ELSE "tx"]
  /\ UNCHANGED <<sp, fg, ends>>

rx_Drop ==
  /\ "FE" \in isr.status
  /\ UNCHANGED <<sp, hw>>

rx_Store ==
  /\ "FE" \notin isr.status
  /\ LET next == After(sp.rx_end)
         mask == IF After(next) = sp.rx_start THEN {"RRDY"} ELSE {}
     IN /\ sp' = [sp EXCEPT !.rx_buf[sp.rx_end] = hw.rxdata, !.rx_end = next,
                            !.ctrl = @ \ mask]
        /\ hw' = [hw EXCEPT !.rrdy = FALSE,
                            !.control = IF mask = {} THEN @ ELSE sp.ctrl \ mask]

IrqRx ==
  /\ isr.pc = "rx"
  /\ rx_Drop \/ rx_Store
  /\ isr' = [isr EXCEPT !.pc = "tx"]
  /\ ends' = [ends EXCEPT !.lapped = @ \/ (sp.rx_end # sp.rx_start /\ sp'.rx_end = sp.rx_start)]
  /\ UNCHANGED fg

\* altera_avalon_uart_txirq: the character is written on TRDY and on DCTS.
tx_Send ==
  /\ sp.tx_start # sp.tx_end
  /\ hw' = [hw EXCEPT !.txdata = sp.tx_buf[sp.tx_start], !.trdy = FALSE]
  /\ sp' = [sp EXCEPT !.tx_start = After(@), !.ctrl = @ \cup {"TRDY"}]
  /\ isr' = [isr EXCEPT !.pc = "tx_end"]

tx_Empty ==
  /\ sp.tx_start = sp.tx_end
  /\ isr' = [isr EXCEPT !.pc = "tx_end"]
  /\ UNCHANGED <<sp, hw>>

IrqTx ==
  /\ isr.pc = "tx" /\ isr.status \cap {"TRDY", "DCTS"} # {}
  /\ tx_Send \/ tx_Empty
  /\ UNCHANGED <<fg, ends>>

IrqTxEnd ==
  /\ isr.pc = "tx_end"
  /\ LET mask == IF sp.tx_start = sp.tx_end THEN {"TRDY", "DCTS"} ELSE {}
     IN /\ sp' = [sp EXCEPT !.ctrl = @ \ mask]
        /\ hw' = [hw EXCEPT !.control = sp.ctrl \ mask]
  /\ isr' = [pc |-> "off", status |-> {}]
  /\ UNCHANGED <<fg, ends>>

IrqReturn ==
  /\ isr.pc = "tx" /\ isr.status \cap {"TRDY", "DCTS"} = {}
  /\ isr' = [pc |-> "off", status |-> {}]
  /\ UNCHANGED <<sp, hw, fg, ends>>

Handler == IrqEnter \/ IrqClear \/ IrqRx \/ IrqTx \/ IrqTxEnd \/ IrqReturn

-----------------------------------------------------------------------------
(* The calls of the program; they run while the handler does not.          *)

Goto(place) == fg' = [fg EXCEPT !.pc = place]

\* alt_irq_disable_all .. alt_irq_enable_all around a change of the mask.
Unmask(bits) ==
  /\ sp' = [sp EXCEPT !.ctrl = @ \cup bits]
  /\ hw' = [hw EXCEPT !.control = sp.ctrl \cup bits]

CallWrite ==
  /\ fg.pc = "idle"
  /\ \E n \in 1..UartMaxLen, b \in BOOLEAN :
       /\ n <= ends.left
       /\ fg' = [pc |-> "w_test", count |-> n, len |-> 0, block |-> b]
       /\ ends' = [ends EXCEPT !.left = @ - n]
  /\ UNCHANGED <<sp, hw>>

w_Test ==
  /\ fg.pc = "w_test"
  /\ Goto(CASE fg.count = 0 -> "w_end"
            [] fg.count > 0 /\ After(sp.tx_end) # sp.tx_start -> "w_store"
            [] fg.count > 0 /\ After(sp.tx_end) = sp.tx_start ->
                 IF fg.block THEN "w_enable" ELSE "w_end")
  /\ UNCHANGED <<sp, hw, ends>>

w_Enable ==
  /\ fg.pc = "w_enable"
  /\ Unmask({"TRDY", "DCTS"}) /\ Goto("w_wait")
  /\ UNCHANGED ends

\* ALT_FLAG_PEND does nothing here: the loop polls until the handler makes room.
w_Wait ==
  /\ fg.pc = "w_wait" /\ After(sp.tx_end) # sp.tx_start
  /\ Goto("w_store")
  /\ UNCHANGED <<sp, hw, ends>>

w_Store ==
  /\ fg.pc = "w_store"
  /\ sp' = [sp EXCEPT !.tx_buf[sp.tx_end] = ends.written + 1]
  /\ ends' = [ends EXCEPT !.written = @ + 1]
  /\ fg' = [fg EXCEPT !.pc = "w_publish", !.count = @ - 1]
  /\ UNCHANGED hw

w_Publish ==
  /\ fg.pc = "w_publish"
  /\ sp' = [sp EXCEPT !.tx_end = After(@)]
  /\ Goto("w_test")
  /\ UNCHANGED <<hw, ends>>

w_End_NoEnable ==
  /\ fg.pc = "w_end"
  /\ fg' = AtRest
  /\ UNCHANGED <<sp, hw, ends>>

w_End ==
  /\ fg.pc = "w_end"
  /\ Unmask({"TRDY", "DCTS"}) /\ fg' = AtRest
  /\ UNCHANGED ends

Writing == w_Test \/ w_Enable \/ w_Wait \/ w_Store \/ w_Publish \/ w_End

CallRead ==
  /\ fg.pc = "idle"
  /\ \E n \in 0..UartMaxLen, b \in BOOLEAN :
       fg' = [pc |-> "r_test", count |-> 0, len |-> n, block |-> b]
  /\ UNCHANGED <<sp, hw, ends>>

r_Test ==
  /\ fg.pc = "r_test"
  /\ Goto(IF fg.count < fg.len /\ sp.rx_start # sp.rx_end THEN "r_take" ELSE "r_check")
  /\ UNCHANGED <<sp, hw, ends>>

r_Take ==
  /\ fg.pc = "r_take"
  /\ LET c == sp.rx_buf[sp.rx_start]
     IN ends' = [ends EXCEPT !.read = IF c = Damaged THEN @ ELSE c,
                             !.damaged = @ \/ c = Damaged]
  /\ fg' = [fg EXCEPT !.pc = "r_advance", !.count = @ + 1]
  /\ UNCHANGED <<sp, hw>>

r_Advance ==
  /\ fg.pc = "r_advance"
  /\ sp' = [sp EXCEPT !.rx_start = After(@)]
  /\ Goto("r_test")
  /\ UNCHANGED <<hw, ends>>

\* The buffer is looked at again; nothing read and nothing there means waiting.
r_Check ==
  /\ fg.pc = "r_check"
  /\ Goto(CASE fg.count = 0 /\ sp.rx_start = sp.rx_end ->
                 IF fg.block THEN "r_enable" ELSE "r_end"
            [] fg.count = 0 /\ sp.rx_start # sp.rx_end ->
                 IF fg.len = 0 THEN "r_end" ELSE "r_test"
            [] fg.count > 0 -> "r_end")
  /\ UNCHANGED <<sp, hw, ends>>

r_Enable ==
  /\ fg.pc = "r_enable"
  /\ Unmask({"RRDY"})
  /\ Goto(IF fg.len = 0 THEN "r_end" ELSE "r_test")
  /\ UNCHANGED ends

r_End ==
  /\ fg.pc = "r_end"
  /\ Unmask({"RRDY"}) /\ fg' = AtRest
  /\ UNCHANGED ends

Reading == r_Test \/ r_Take \/ r_Advance \/ r_Check \/ r_Enable \/ r_End

\* altera_avalon_uart_close: wait until the handler has sent everything.
CallClose ==
  /\ fg.pc = "idle"
  /\ \E b \in BOOLEAN : fg' = [fg EXCEPT !.pc = "c_wait", !.block = b]
  /\ UNCHANGED <<sp, hw, ends>>

c_Wait ==
  /\ fg.pc = "c_wait"
  /\ sp.tx_start = sp.tx_end \/ ~fg.block
  /\ fg' = AtRest
  /\ UNCHANGED <<sp, hw, ends>>

Call == CallWrite \/ CallRead \/ CallClose
Foreground == isr.pc = "off" /\ (Call \/ Writing \/ Reading \/ c_Wait) /\ UNCHANGED isr

UartNext == Device \/ Handler \/ Foreground

\* The device shifts, the processor executes, and a handler that returns lets the
\* program execute before the next one; the program and the other end do as they
\* please.
UartFairness ==
  /\ WF_uartVars(LoadShifter \/ ShiftOut) /\ WF_uartVars(Handler)
  /\ SF_uartVars(isr.pc = "off" /\ (Writing \/ Reading \/ c_Wait) /\ UNCHANGED isr)

UartSpec == UartInit /\ [][UartNext]_uartVars /\ UartFairness

-----------------------------------------------------------------------------
InWrite == fg.pc \in {"w_test", "w_enable", "w_store", "w_publish", "w_end"}
InRead  == fg.pc \in {"r_test", "r_check", "r_enable", "r_take", "r_advance", "r_end"}

\* Characters never lie in the transmit buffer with nothing to send them: outside
\* the handler and the write that will arm it, the interrupt that goes on with them
\* is armed (altera_avalon_uart_init.c:211-282 and altera_avalon_uart_write.c:175-179, 221-225).
TxNeverStranded ==
  isr.pc = "off" /\ ~InWrite /\ sp.tx_start # sp.tx_end => "TRDY" \in hw.control

\* The receive interrupt is masked only while the buffer is full or while a read is
\* on its way to unmask it, as long as no other interrupt has filled the buffer past
\* its end (init.c:186-197, altera_avalon_uart_read.c:193-196, 226-229).
RxNeverStranded ==
  "RRDY" \notin hw.control /\ ~ends.lapped => After(sp.rx_end) = sp.rx_start \/ InRead

\* Neither direction comes to a standstill with characters in it: the two above.
UartSafe == TxNeverStranded /\ RxNeverStranded

\* "If the cicular buffer was full, disable interrupts.  Interrupts will be
\* re-enabled when data is removed from the buffer" (init.c:189-190): what lies in a
\* full buffer stays there until it is read.
FullBufferKept == ~ends.lapped

\* What the program writes leaves in order, nothing lost and nothing twice, whatever
\* the handler does between two accesses of a write (altera_avalon_uart_write.c:152-207,
\* init.c:211-247).
TxInOrder ==
  [][hw.shifting /\ ~hw.shifting' => ends'.sent = ends.sent + 1]_uartVars

\* The program reads characters in the order they came and none twice; characters
\* may be missing, when the device was not emptied in time
\* (altera_avalon_uart_read.c:164-170, init.c:178-184).
RxInOrder ==
  [][fg.pc = "r_take" /\ fg.pc' = "r_advance"
       => sp.rx_buf[sp.rx_start] \in (ends.read + 1)..Damaged]_uartVars

\* "If there was an error, discard the data" (altera_avalon_uart_init.c:157).
DiscardsDamaged == ~ends.damaged

\* What lies in the transmit buffer gets out, and a write or close that waits for it
\* goes on (init.c:206-283 and 298-310).
TxDrains ==
  /\ []<>(fg.pc \notin {"w_wait", "c_wait"})
  /\ []<>(sp.tx_start = sp.tx_end \/ InWrite)

=============================================================================
