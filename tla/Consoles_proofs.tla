--------------------------- MODULE Consoles_proofs ---------------------------
(* The drivers that move characters: no order of program, handler, device    *)
(* and other end leaves an interrupt off with characters to move, no FIFO is *)
(* given more than it holds, and characters pass in order; the polled        *)
(* console and its driver implement the abstract one; an SPI command         *)
(* exchanges the bytes it was asked for with the slave it names.             *)
EXTENDS Integers, Consoles, SequenceTheorems, TLAPS

-----------------------------------------------------------------------------
(* The UART.                                                                 *)

\* The fields that the steps change are there.
UartFields ==
  /\ {"ctrl", "rx_start", "rx_end", "tx_start", "tx_end"} \subseteq DOMAIN sp
  /\ "control" \in DOMAIN hw /\ "pc" \in DOMAIN isr /\ "pc" \in DOMAIN fg
  /\ "lapped" \in DOMAIN ends
  /\ sp.rx_end \in Slot

\* The register holds what the driver remembers of it, but for TRDY at the end of a
\* transmit interrupt, when TRDY is remembered if characters are left.
ControlKept ==
  /\ isr.pc # "tx_end" => hw.control = sp.ctrl
  /\ isr.pc = "tx_end" =>
       /\ "RRDY" \in hw.control <=> "RRDY" \in sp.ctrl
       /\ sp.tx_start # sp.tx_end => "TRDY" \in sp.ctrl

\* Between the end of a write and the end of the handler, too, what lies in the
\* transmit buffer has its interrupt armed.
TxArmed == isr.pc # "tx_end" /\ ~InWrite /\ sp.tx_start # sp.tx_end => "TRDY" \in hw.control

UartInv == UartFields /\ ControlKept /\ TxArmed /\ RxNeverStranded

\* A write that is about to store a character has one left.
LeftToWrite ==
  /\ {"pc", "count"} \subseteq DOMAIN fg /\ fg.count \in Nat
  /\ fg.pc \in {"w_store", "w_enable", "w_wait"} => fg.count > 0

LEMMA LeftToWriteKept ==
  ASSUME LeftToWrite, [UartNext]_uartVars
  PROVE  LeftToWrite'
<1>1. CASE UNCHANGED fg
  BY <1>1 DEF LeftToWrite
<1>2. CASE Call
  <2>1. CASE CallWrite
    BY <2>1, UartAssumption DEF CallWrite, LeftToWrite
  <2>2. CASE CallRead
    BY <2>2 DEF CallRead, LeftToWrite
  <2>3. CASE CallClose
    BY <2>3 DEF CallClose, LeftToWrite
  <2> QED
    BY <1>2, <2>1, <2>2, <2>3 DEF Call
<1>3. CASE w_Test \/ w_Wait \/ w_Enable
  BY <1>3 DEF w_Test, w_Wait, w_Enable, Goto, LeftToWrite
<1>4. CASE w_Store
  <2>1. fg.count \in Nat /\ fg.count > 0 /\ fg'.count = fg.count - 1 /\ fg'.pc = "w_publish"
    BY <1>4 DEF w_Store, LeftToWrite
  <2>2. DOMAIN fg' = DOMAIN fg
    BY <1>4 DEF w_Store
  <2> QED
    BY <2>1, <2>2 DEF LeftToWrite
<1>5. CASE w_Publish \/ w_End \/ r_End \/ c_Wait
  BY <1>5 DEF w_Publish, w_End, r_End, c_Wait, Goto, AtRest, LeftToWrite
<1>6. CASE r_Take
  BY <1>6 DEF r_Take, LeftToWrite
<1>7. CASE r_Test \/ r_Advance \/ r_Check \/ r_Enable
  <2>1. /\ DOMAIN fg' = DOMAIN fg /\ fg'.count = fg.count
        /\ fg'.pc \notin {"w_store", "w_enable", "w_wait"}
    <3>1. CASE r_Check
      <4>1. fg.count = 0 \/ fg.count > 0
        BY DEF LeftToWrite
      <4> QED
        BY <3>1, <4>1 DEF r_Check, Goto, LeftToWrite
    <3>2. CASE r_Test \/ r_Advance \/ r_Enable
      BY <3>2 DEF r_Test, r_Advance, r_Enable, Goto, LeftToWrite
    <3> QED
      BY <1>7, <3>1, <3>2
  <2> QED
    BY <2>1 DEF LeftToWrite
<1>8. Device \/ Handler => UNCHANGED fg
  BY DEF Device, Receive, LoadShifter, ShiftOut, Handler, IrqEnter, IrqClear, IrqRx, IrqTx,
    IrqTxEnd, IrqReturn
<1> QED
  BY <1>1, <1>2, <1>3, <1>4, <1>5, <1>6, <1>7, <1>8
  DEF UartNext, Foreground, Writing, Reading, uartVars

LEMMA AfterMoves ==
  ASSUME NEW s \in Slot
  PROVE  After(s) \in Slot /\ After(s) # s
BY UartAssumption DEF Slot, After

\* The device leaves the control word alone.
LEMMA DeviceKeeps ==
  ASSUME UartInv, Device
  PROVE  UartInv'
<1>1. /\ UNCHANGED <<sp, isr, fg>> /\ hw'.control = hw.control /\ DOMAIN hw' = DOMAIN hw
      /\ DOMAIN ends' = DOMAIN ends /\ ends'.lapped = ends.lapped
  BY DEF Device, Receive, LoadShifter, ShiftOut, UartInv, UartFields
<1> QED
  BY <1>1 DEF UartInv, UartFields, ControlKept, TxArmed, RxNeverStranded, InWrite, InRead

\* The handler: it masks the receive interrupt with the character that fills the
\* buffer, and the transmit interrupt with the one that empties the other
\* (altera_avalon_uart_init.c:142-283).
LEMMA HandlerKeeps ==
  ASSUME UartInv, Handler
  PROVE  UartInv'
<1>1. CASE IrqEnter \/ IrqClear \/ IrqReturn
  BY <1>1
  DEF IrqEnter, IrqClear, IrqReturn, UartInv, UartFields, ControlKept, TxArmed,
    RxNeverStranded, InWrite, InRead
<1>2. CASE IrqRx
  <2>1. isr.pc = "rx" /\ isr'.pc = "tx" /\ DOMAIN isr' = DOMAIN isr /\ UNCHANGED fg
    BY <1>2 DEF IrqRx, UartInv, UartFields
  <2>2. CASE rx_Drop
    BY <1>2, <2>1, <2>2
    DEF rx_Drop, IrqRx, UartInv, UartFields, ControlKept, TxArmed, RxNeverStranded, InWrite, InRead
  <2>3. CASE rx_Store
    <3>1. /\ sp'.rx_end = After(sp.rx_end) /\ sp'.rx_start = sp.rx_start
          /\ sp'.tx_start = sp.tx_start /\ sp'.tx_end = sp.tx_end
          /\ DOMAIN sp' = DOMAIN sp /\ DOMAIN hw' = DOMAIN hw
      BY <2>3 DEF rx_Store, UartInv, UartFields
    <3>2. CASE After(After(sp.rx_end)) = sp.rx_start
      <4>1. sp'.ctrl = sp.ctrl \ {"RRDY"} /\ hw'.control = sp.ctrl \ {"RRDY"}
        BY <2>3, <3>2 DEF rx_Store, UartInv, UartFields
      <4>2. DOMAIN ends' = DOMAIN ends
        BY <1>2 DEF IrqRx
      <4> QED
        BY <2>1, <3>1, <3>2, <4>1, <4>2, AfterMoves
        DEF UartInv, UartFields, ControlKept, TxArmed, RxNeverStranded, InWrite
    <3>3. CASE After(After(sp.rx_end)) # sp.rx_start
      <4>1. sp'.ctrl = sp.ctrl /\ hw'.control = hw.control
        BY <2>3, <3>3 DEF rx_Store, UartInv, UartFields
      <4>2. /\ DOMAIN ends' = DOMAIN ends
            /\ ends'.lapped = (ends.lapped \/ (sp.rx_end # sp.rx_start /\ sp'.rx_end = sp.rx_start))
        BY <1>2 DEF IrqRx, UartInv, UartFields
      <4>3. sp.rx_end \in Slot /\ After(sp.rx_end) \in Slot /\ After(sp.rx_end) # sp.rx_end
        BY AfterMoves DEF UartInv, UartFields
      <4>4. RxNeverStranded'
        BY <2>1, <3>1, <4>1, <4>2, <4>3 DEF UartInv, RxNeverStranded, InRead
      <4> QED
        BY <2>1, <3>1, <4>1, <4>2, <4>3, <4>4
        DEF UartInv, UartFields, ControlKept, TxArmed, InWrite
    <3> QED
      BY <3>2, <3>3
  <2> QED
    BY <1>2, <2>2, <2>3 DEF IrqRx
<1>3. CASE IrqTx
  <2>1. isr.pc = "tx" /\ UNCHANGED <<fg, ends>>
    BY <1>3 DEF IrqTx
  <2>2. CASE tx_Send
    <3>1. /\ sp'.rx_end = sp.rx_end /\ sp'.rx_start = sp.rx_start
          /\ sp'.ctrl = sp.ctrl \cup {"TRDY"} /\ hw'.control = hw.control
          /\ DOMAIN sp' = DOMAIN sp /\ DOMAIN hw' = DOMAIN hw
          /\ isr'.pc = "tx_end" /\ DOMAIN isr' = DOMAIN isr
      BY <2>2 DEF tx_Send, UartInv, UartFields
    <3> QED
      BY <2>1, <3>1 DEF UartInv, UartFields, ControlKept, TxArmed, RxNeverStranded, InRead
  <2>3. CASE tx_Empty
    <3>1. /\ UNCHANGED <<sp, hw>> /\ sp.tx_start = sp.tx_end
          /\ isr'.pc = "tx_end" /\ DOMAIN isr' = DOMAIN isr
      BY <2>3 DEF tx_Empty, UartInv, UartFields
    <3> QED
      BY <2>1, <3>1 DEF UartInv, UartFields, ControlKept, TxArmed, RxNeverStranded, InRead
  <2> QED
    BY <1>3, <2>2, <2>3 DEF IrqTx
<1>4. CASE IrqTxEnd
  <2> DEFINE mask == IF sp.tx_start = sp.tx_end THEN {"TRDY", "DCTS"} ELSE {}
  <2>1. /\ sp'.rx_end = sp.rx_end /\ sp'.rx_start = sp.rx_start
        /\ sp'.tx_end = sp.tx_end /\ sp'.tx_start = sp.tx_start
        /\ sp'.ctrl = sp.ctrl \ mask /\ hw'.control = sp.ctrl \ mask
        /\ DOMAIN sp' = DOMAIN sp /\ DOMAIN hw' = DOMAIN hw
        /\ isr'.pc = "off" /\ "pc" \in DOMAIN isr' /\ UNCHANGED <<fg, ends>>
        /\ isr.pc = "tx_end"
    BY <1>4 DEF IrqTxEnd, UartInv, UartFields
  <2> QED
    BY <2>1 DEF UartInv, UartFields, ControlKept, TxArmed, RxNeverStranded, InRead
<1> QED
  BY <1>1, <1>2, <1>3, <1>4 DEF Handler

\* The program: every write ends by arming the transmit interrupt, every read by
\* unmasking the receive interrupt (altera_avalon_uart_write.c:152-226,
\* altera_avalon_uart_read.c:140-230).
LEMMA ForegroundKeeps ==
  ASSUME UartInv, LeftToWrite, Foreground
  PROVE  UartInv'
<1>1. isr.pc = "off" /\ isr'.pc = "off" /\ UNCHANGED isr
  BY DEF Foreground
<1>2. CASE Call \/ w_Test \/ w_Wait \/ r_Test \/ r_Take \/ r_Check \/ c_Wait
  <2>1. /\ UNCHANGED <<sp, hw>>
        /\ "pc" \in DOMAIN fg' /\ DOMAIN ends' = DOMAIN ends /\ ends'.lapped = ends.lapped
    BY <1>2
    DEF Call, CallWrite, CallRead, CallClose, w_Test, w_Wait, r_Test, r_Take, r_Check, c_Wait,
      Goto, AtRest, UartInv, UartFields
  <2>2. (InWrite => InWrite') /\ (InRead => InRead')
    <3>1. CASE Call \/ w_Wait \/ c_Wait
      BY <3>1 DEF Call, CallWrite, CallRead, CallClose, w_Wait, c_Wait, InWrite, InRead
    <3>2. CASE w_Test
      BY <3>2 DEF w_Test, Goto, LeftToWrite, InWrite, InRead
    <3>3. CASE r_Test \/ r_Take
      BY <3>3 DEF r_Test, r_Take, Goto, LeftToWrite, InWrite, InRead
    <3>4. CASE r_Check
      <4>1. fg.count = 0 \/ fg.count > 0
        BY DEF LeftToWrite
      <4> QED
        BY <3>4, <4>1 DEF r_Check, Goto, LeftToWrite, InWrite, InRead
    <3> QED
      BY <1>2, <3>1, <3>2, <3>3, <3>4
  <2> QED
    BY <1>1, <2>1, <2>2 DEF UartInv, UartFields, ControlKept, TxArmed, RxNeverStranded
<1>3. CASE w_Store \/ w_Publish
  <2>1. /\ sp'.ctrl = sp.ctrl /\ sp'.rx_end = sp.rx_end /\ sp'.rx_start = sp.rx_start
        /\ DOMAIN sp' = DOMAIN sp /\ UNCHANGED hw
        /\ DOMAIN fg' = DOMAIN fg /\ fg.pc \in {"w_store", "w_publish"}
        /\ fg'.pc \in {"w_publish", "w_test"}
        /\ DOMAIN ends' = DOMAIN ends /\ ends'.lapped = ends.lapped
    BY <1>3 DEF w_Store, w_Publish, Goto, UartInv, UartFields
  <2> QED
    BY <1>1, <2>1
    DEF UartInv, UartFields, ControlKept, TxArmed, RxNeverStranded, InWrite, InRead
<1>4. CASE r_Advance
  <2>1. /\ sp'.ctrl = sp.ctrl /\ sp'.rx_end = sp.rx_end
        /\ sp'.tx_end = sp.tx_end /\ sp'.tx_start = sp.tx_start
        /\ DOMAIN sp' = DOMAIN sp /\ UNCHANGED <<hw, ends>>
        /\ DOMAIN fg' = DOMAIN fg /\ fg.pc = "r_advance" /\ fg'.pc = "r_test"
    BY <1>4 DEF r_Advance, Goto, UartInv, UartFields
  <2> QED
    BY <1>1, <2>1
    DEF UartInv, UartFields, ControlKept, TxArmed, RxNeverStranded, InWrite, InRead
<1>5. CASE w_Enable \/ w_End
  <2>1. Unmask({"TRDY", "DCTS"}) /\ UNCHANGED ends /\ "pc" \in DOMAIN fg' /\ ~InRead
    BY <1>5 DEF w_Enable, w_End, Goto, AtRest, UartInv, UartFields, InRead
  <2>2. /\ sp'.ctrl = sp.ctrl \cup {"TRDY", "DCTS"} /\ hw'.control = sp.ctrl \cup {"TRDY", "DCTS"}
        /\ sp'.rx_end = sp.rx_end /\ sp'.rx_start = sp.rx_start
        /\ sp'.tx_end = sp.tx_end /\ sp'.tx_start = sp.tx_start
        /\ DOMAIN sp' = DOMAIN sp /\ DOMAIN hw' = DOMAIN hw
    BY <2>1 DEF Unmask, UartInv, UartFields
  <2> QED
    BY <1>1, <2>1, <2>2 DEF UartInv, UartFields, ControlKept, TxArmed, RxNeverStranded, InWrite
<1>6. CASE r_Enable \/ r_End
  <2>1. Unmask({"RRDY"}) /\ UNCHANGED ends /\ "pc" \in DOMAIN fg' /\ ~InWrite
    BY <1>6 DEF r_Enable, r_End, Goto, AtRest, UartInv, UartFields, InWrite
  <2>2. /\ sp'.ctrl = sp.ctrl \cup {"RRDY"} /\ hw'.control = sp.ctrl \cup {"RRDY"}
        /\ sp'.rx_end = sp.rx_end /\ sp'.rx_start = sp.rx_start
        /\ sp'.tx_end = sp.tx_end /\ sp'.tx_start = sp.tx_start
        /\ DOMAIN sp' = DOMAIN sp /\ DOMAIN hw' = DOMAIN hw
    BY <2>1 DEF Unmask, UartInv, UartFields
  <2> QED
    BY <1>1, <2>1, <2>2 DEF UartInv, UartFields, ControlKept, TxArmed, RxNeverStranded, InRead
<1> QED
  BY <1>2, <1>3, <1>4, <1>5, <1>6 DEF Foreground, Writing, Reading

\* At the start nothing waits for anybody.
LEMMA UartInvInit ==
  UartInit => UartInv /\ LeftToWrite
BY UartAssumption
DEF UartInit, AtRest, Slot, UartInv, UartFields, ControlKept, TxArmed, RxNeverStranded,
  LeftToWrite

\* Every step keeps it so.
LEMMA UartInvStep ==
  UartInv /\ LeftToWrite /\ [UartNext]_uartVars => UartInv'
<1>1. UartInv /\ UNCHANGED uartVars => UartInv'
  BY DEF uartVars, UartInv, UartFields, ControlKept, TxArmed, RxNeverStranded, InWrite, InRead
<1> QED
  BY <1>1, DeviceKeeps, HandlerKeeps, ForegroundKeeps DEF UartNext

\* That is the safety of the driver.
LEMMA UartInvIsSafe ==
  UartInv => UartSafe
BY DEF UartInv, TxArmed, UartSafe, TxNeverStranded

\* Characters never lie in a buffer with nobody to move them, however program, handler,
\* device and line interleave and however long the buffers are
\* (altera_avalon_uart_init.c:142-283, altera_avalon_uart_write.c:152-226,
\* altera_avalon_uart_read.c:140-230).
THEOREM UartNeverStranded == UartSpec => []UartSafe
<1>1. LeftToWrite /\ [UartNext]_uartVars => LeftToWrite'
  BY LeftToWriteKept
<1> QED
  BY UartInvInit, UartInvStep, <1>1, UartInvIsSafe, PTL DEF UartSpec

-----------------------------------------------------------------------------
(* The JTAG UART.                                                            *)

LEMMA SlotRemainder == \A n \in Int : ToSlot(n) \in JSlot
<1>1. BUF_LEN \in Nat /\ BUF_LEN > 1
  BY JtagAssumption
<1>2. \A n \in Int : n % BUF_LEN \in 0..(BUF_LEN - 1)
  BY <1>1
<1> QED
  BY <1>2 DEF ToSlot, JSlot

\* The fields that the steps change are there, ...
JtagFields ==
  /\ {"irq_enable", "tx_in", "tx_out", "rx_in", "rx_out", "tx_buf", "rx_buf", "host_inactive",
      "timeout"} \subseteq DOMAIN js
  /\ {"ien", "rfifo", "wfifo", "pause_irq", "ac"} \subseteq DOMAIN jd
  /\ {"pc", "control", "ravail", "space"} \subseteq DOMAIN ji
  /\ {"pc", "count", "done", "n", "in", "out", "block"} \subseteq DOMAIN jc
  /\ {"host", "left", "written", "sent", "came", "read"} \subseteq DOMAIN jo

\* ... the ends of the receive buffer are slots, and a read counts what it took.
ReadPlaces == {"r_sample", "r_copy", "r_publish", "r_wait", "r_more", "r_return"}

JtagNumbers ==
  /\ js.rx_in \in JSlot /\ js.rx_out \in JSlot
  /\ jc.pc \in ReadPlaces =>
       jc.count \in Int /\ jc.done \in Nat /\ jc.n \in Int /\ jc.out \in Int
  /\ jc.pc \in {"r_copy", "r_publish"} => jc.n > 0

LEMMA FieldsKept ==
  ASSUME JtagFields, [JtagNext]_jtagVars
  PROVE  JtagFields'
<1>1. CASE Host
  BY <1>1 DEF Host, HostMoves, HostSends, HostPauses, HostTakes, JtagFields
<1>2. CASE JtagHandler
  BY <1>2
  DEF JtagHandler, jtag_Enter, jtag_Control, jtag_RxFull, jtag_RxData, jtag_RxEnd, jtag_TxData,
    jtag_TxEnd, NoIrq, JtagFields
<1>3. CASE JtagTimeout
  BY <1>3 DEF JtagTimeout, JtagFields
<1>4. CASE JtagCalls /\ UNCHANGED ji
  BY <1>4 DEF JtagCalls, JtagWrite, JtagRead, JtagClose, JtagIoctl, NoCall, JtagFields
<1>5. CASE Writes /\ UNCHANGED ji
  BY <1>5
  DEF Writes, jw_Sample, jw_Copy, jw_Publish, jw_Kick, jw_Wait, jw_Host, jw_Return, Enable, NoCall,
    JtagFields
<1>6. CASE (Reads \/ jtag_CloseWait) /\ UNCHANGED ji
  BY <1>6
  DEF Reads, jr_Sample, jr_Copy, jr_Publish, jr_Wait, jr_More, jr_Return, jtag_CloseWait, Enable, NoCall,
    JtagFields
<1>7. CASE UNCHANGED jtagVars
  BY <1>7 DEF jtagVars, JtagFields
<1> QED
  BY <1>1, <1>2, <1>3, <1>4, <1>5, <1>6, <1>7 DEF JtagNext, Program, InCall

\* The program's calls, but for those of a read, leave what a read counts alone.
LEMMA NumbersKept ==
  ASSUME JtagFields, JtagNumbers, [JtagNext]_jtagVars
  PROVE  JtagNumbers'
<1>1. CASE Host \/ JtagTimeout
  BY <1>1
  DEF Host, HostMoves, HostSends, HostPauses, HostTakes, JtagTimeout, JtagFields, JtagNumbers
<1>2. CASE JtagHandler
  <2>1. js'.rx_in \in JSlot /\ js'.rx_out = js.rx_out
    <3>1. CASE jtag_RxData
      <4>1. js.rx_in + 1 \in Int
        BY DEF JtagNumbers, JSlot
      <4> QED
        BY <3>1, <4>1, SlotRemainder DEF jtag_RxData, JtagFields, JtagNumbers
    <3>2. CASE jtag_RxEnd \/ jtag_TxData \/ jtag_TxEnd
      BY <3>2 DEF jtag_RxEnd, jtag_TxData, jtag_TxEnd, JtagFields, JtagNumbers
    <3>3. CASE UNCHANGED js
      BY <3>3 DEF JtagNumbers
    <3> QED
      BY <1>2, <3>1, <3>2, <3>3 DEF JtagHandler, jtag_Enter, jtag_Control, jtag_RxFull
  <2> QED
    BY <1>2, <2>1 DEF JtagHandler, JtagNumbers
<1>3. CASE JtagCalls
  <2>1. CASE JtagWrite \/ JtagClose
    BY <2>1 DEF JtagWrite, JtagClose, NoCall, JtagNumbers, ReadPlaces
  <2>2. CASE JtagRead
    BY <2>2 DEF JtagRead, NoCall, JtagNumbers, ReadPlaces
  <2>3. CASE JtagIoctl
    BY <2>3 DEF JtagIoctl, JtagFields, JtagNumbers
  <2> QED
    BY <1>3, <2>1, <2>2, <2>3 DEF JtagCalls
<1>4. CASE Writes \/ jtag_CloseWait
  <2>1. js'.rx_in = js.rx_in /\ js'.rx_out = js.rx_out
    BY <1>4
    DEF Writes, jw_Sample, jw_Copy, jw_Publish, jw_Kick, jw_Wait, jw_Host, jw_Return, jtag_CloseWait,
      Enable, JtagFields
  <2>2. jc'.pc \notin ReadPlaces
    <3>1. CASE jw_Sample
      BY <3>1 DEF jw_Sample, JtagFields, ReadPlaces
    <3>2. CASE jw_Copy \/ jw_Publish \/ jw_Kick \/ jw_Wait \/ jw_Host
      BY <3>2 DEF jw_Copy, jw_Publish, jw_Kick, jw_Wait, jw_Host, JtagFields, ReadPlaces
    <3>3. CASE jw_Return \/ jtag_CloseWait
      BY <3>3 DEF jw_Return, jtag_CloseWait, NoCall, ReadPlaces
    <3> QED
      BY <1>4, <3>1, <3>2, <3>3 DEF Writes
  <2> QED
    BY <2>1, <2>2 DEF JtagNumbers, ReadPlaces
<1>5. CASE jr_Sample
  <2> DEFINE n == Least(jr_Ready(js.rx_in, js.rx_out), jc.count)
  <2>1. n \in Int /\ js.rx_out \in Int
    BY <1>5, JtagAssumption DEF jr_Sample, JtagNumbers, ReadPlaces, Least, jr_Ready, JSlot
  <2> HIDE DEF n
  <2>2. CASE n > 0
    BY <1>5, <2>1, <2>2 DEF jr_Sample, n, JtagFields, JtagNumbers, ReadPlaces
  <2>3. CASE ~(n > 0)
    BY <1>5, <2>1, <2>3 DEF jr_Sample, n, JtagFields, JtagNumbers, ReadPlaces
  <2> QED
    BY <2>2, <2>3
<1>6. CASE jr_Copy \/ jr_Wait \/ jr_More
  BY <1>6 DEF jr_Copy, jr_Wait, jr_More, JtagFields, JtagNumbers, ReadPlaces
<1>7. CASE jr_Publish
  <2>1. jc.out + jc.n \in Int /\ jc.done + jc.n \in Nat /\ jc.count - jc.n \in Int
    BY <1>7 DEF jr_Publish, JtagNumbers, ReadPlaces
  <2> QED
    BY <1>7, <2>1, SlotRemainder DEF jr_Publish, JtagFields, JtagNumbers, ReadPlaces
<1>8. CASE jr_Return
  BY <1>8 DEF jr_Return, Enable, NoCall, JtagFields, JtagNumbers, ReadPlaces
<1>9. CASE UNCHANGED jtagVars
  BY <1>9 DEF jtagVars, JtagNumbers
<1> QED
  BY <1>1, <1>2, <1>3, <1>4, <1>5, <1>6, <1>7, <1>8, <1>9
  DEF JtagNext, Program, InCall, Reads

\* What is armed.  The register holds what the driver remembers of it; the handler is
\* in the receive loop only while receiving is on, and leaves it with characters in the
\* FIFO only if its buffer is full.
Kicks   == {"w_sample", "w_copy", "w_publish", "w_kick"}
Unmasks == {"r_publish", "r_sample", "r_copy", "r_return"}
RxFull  == ToSlot(js.rx_in + 1) = js.rx_out

JtagArmed ==
  /\ jd.ien = js.irq_enable
  /\ js.tx_in # js.tx_out => "WE" \in js.irq_enable \/ jc.pc \in Kicks
  /\ "RE" \notin js.irq_enable => RxFull \/ (jc.pc \in Unmasks /\ jc.done > 0)
  /\ ji.pc \in {"rx", "rx_end"} => "RE" \in js.irq_enable
  /\ ji.pc = "rx_end" /\ ji.ravail => RxFull

LEMMA ArmedKept ==
  ASSUME JtagFields, JtagNumbers, JtagArmed, [JtagNext]_jtagVars
  PROVE  JtagArmed'
<1>1. CASE Host
  <2>1. UNCHANGED <<js, ji, jc>> /\ jd'.ien = jd.ien
    BY <1>1 DEF Host, HostMoves, HostSends, HostPauses, HostTakes, JtagFields
  <2> QED
    BY <2>1 DEF JtagArmed, RxFull
<1>2. CASE JtagTimeout
  <2>1. /\ UNCHANGED <<ji, jc>> /\ jd'.ien = js.irq_enable /\ js'.irq_enable = js.irq_enable
        /\ js'.rx_in = js.rx_in /\ js'.rx_out = js.rx_out
        /\ js'.tx_in = js.tx_in /\ js'.tx_out = js.tx_out
    BY <1>2 DEF JtagTimeout, JtagFields, JtagArmed
  <2> QED
    BY <2>1 DEF JtagArmed, RxFull
<1>3. CASE JtagHandler
  <2>1. CASE jtag_Enter
    BY <1>3, <2>1 DEF JtagHandler, jtag_Enter, JtagFields, JtagArmed, RxFull
  <2>2. CASE jtag_Control
    BY <1>3, <2>2 DEF JtagHandler, jtag_Control, Pending, NoIrq, JtagFields, JtagArmed, RxFull
  <2>3. CASE jtag_RxFull
    BY <1>3, <2>3 DEF JtagHandler, jtag_RxFull, JtagFields, JtagArmed, RxFull
  <2>4. CASE jtag_RxData
    <3>1. CASE jd.rfifo = <<>>
      <4>1. Len(<<>>) = 0
        OBVIOUS
      <4>2. UNCHANGED <<js, jc>> /\ jd'.ien = jd.ien /\ ji.pc = "rx"
        BY <1>3, <2>4, <3>1 DEF JtagHandler, jtag_RxData, JtagFields
      <4>3. ji'.ravail = (Len(jd.rfifo) > 1)
        BY <2>4 DEF jtag_RxData, JtagFields
      <4>4. ~(Len(jd.rfifo) > 1)
        BY <3>1, <4>1
      <4>5. ~ji'.ravail
        BY <4>3, <4>4, Zenon
      <4> QED
        BY <4>2, <4>5 DEF JtagArmed, RxFull
    <3>2. CASE jd.rfifo # <<>>
      BY <1>3, <2>4, <3>2 DEF JtagHandler, jtag_RxData, JtagFields, JtagArmed, RxFull
    <3> QED
      BY <3>1, <3>2
  <2>5. CASE jtag_RxEnd
    BY <1>3, <2>5 DEF JtagHandler, jtag_RxEnd, JtagFields, JtagArmed, RxFull
  <2>6. CASE jtag_TxData
    BY <1>3, <2>6 DEF JtagHandler, jtag_TxData, JtagFields, JtagArmed, RxFull
  <2>7. CASE jtag_TxEnd
    BY <1>3, <2>7 DEF JtagHandler, jtag_TxEnd, JtagFields, JtagArmed, RxFull
  <2> QED
    BY <1>3, <2>1, <2>2, <2>3, <2>4, <2>5, <2>6, <2>7 DEF JtagHandler
<1>4. CASE JtagCalls /\ UNCHANGED ji
  <2>1. CASE JtagWrite
    BY <1>4, <2>1 DEF JtagWrite, NoCall, JtagArmed, Kicks, Unmasks, RxFull
  <2>2. CASE JtagRead
    BY <1>4, <2>2 DEF JtagRead, NoCall, JtagArmed, Kicks, Unmasks, RxFull
  <2>3. CASE JtagClose
    BY <1>4, <2>3 DEF JtagClose, NoCall, JtagArmed, Kicks, Unmasks, RxFull
  <2>4. CASE JtagIoctl
    BY <1>4, <2>4 DEF JtagIoctl, JtagFields, JtagArmed, RxFull
  <2> QED
    BY <1>4, <2>1, <2>2, <2>3, <2>4 DEF JtagCalls
<1>5. CASE (Writes \/ jtag_CloseWait) /\ UNCHANGED ji
  <2>1. CASE jw_Sample
    BY <1>5, <2>1 DEF jw_Sample, JtagFields, JtagArmed, Kicks, Unmasks, RxFull
  <2>2. CASE jw_Copy
    BY <1>5, <2>2 DEF jw_Copy, JtagFields, JtagArmed, Kicks, Unmasks, RxFull
  <2>3. CASE jw_Publish
    BY <1>5, <2>3 DEF jw_Publish, JtagFields, JtagArmed, Kicks, Unmasks, RxFull
  <2>4. CASE jw_Kick
    BY <1>5, <2>4 DEF jw_Kick, Enable, JtagFields, JtagArmed, Kicks, Unmasks, RxFull
  <2>5. CASE jw_Wait \/ jw_Host
    BY <1>5, <2>5 DEF jw_Wait, jw_Host, JtagFields, JtagArmed, Kicks, Unmasks, RxFull
  <2>6. CASE jw_Return \/ jtag_CloseWait
    BY <1>5, <2>6 DEF jw_Return, jtag_CloseWait, NoCall, JtagArmed, Kicks, Unmasks, RxFull
  <2> QED
    BY <1>5, <2>1, <2>2, <2>3, <2>4, <2>5, <2>6 DEF Writes
<1>6. CASE Reads /\ UNCHANGED ji /\ ji.pc = "off"
  <2>1. CASE jr_Sample
    <3>1. /\ UNCHANGED <<js, jd, ji>> /\ jc.pc = "r_sample" /\ jc'.done = jc.done
          /\ jc'.pc \in {"r_copy", "r_return"} \/ (jc'.pc = "r_wait" /\ jc.done = 0)
      BY <1>6, <2>1 DEF jr_Sample, JtagFields
    <3> QED
      BY <3>1 DEF JtagArmed, Kicks, Unmasks, RxFull
  <2>2. CASE jr_Copy
    BY <1>6, <2>2 DEF jr_Copy, JtagFields, JtagArmed, Kicks, Unmasks, RxFull
  <2>3. CASE jr_Publish
    <3>1. jc'.done = jc.done + jc.n /\ jc.done \in Nat /\ jc.n \in Int /\ jc.n > 0
      BY <2>3 DEF jr_Publish, JtagFields, JtagNumbers, ReadPlaces
    <3>2. jc'.done > 0
      BY <3>1
    <3>3. /\ jc'.pc \in {"r_return", "r_sample"} /\ jc.pc = "r_publish"
          /\ js'.irq_enable = js.irq_enable /\ js'.tx_in = js.tx_in /\ js'.tx_out = js.tx_out
          /\ UNCHANGED <<jd, ji>>
      BY <1>6, <2>3 DEF jr_Publish, JtagFields
    <3> QED
      BY <1>6, <3>2, <3>3 DEF JtagArmed, Kicks, Unmasks
  <2>4. CASE jr_Wait \/ jr_More
    BY <1>6, <2>4 DEF jr_Wait, jr_More, JtagFields, JtagArmed, Kicks, Unmasks, RxFull
  <2>5. CASE jr_Return
    BY <1>6, <2>5 DEF jr_Return, Enable, NoCall, JtagFields, JtagArmed, Kicks, Unmasks, RxFull
  <2> QED
    BY <1>6, <2>1, <2>2, <2>3, <2>4, <2>5 DEF Reads
<1>7. CASE UNCHANGED jtagVars
  BY <1>7 DEF jtagVars, JtagArmed, RxFull
<1> QED
  BY <1>1, <1>2, <1>3, <1>4, <1>5, <1>6, <1>7 DEF JtagNext, Program, InCall

\* What the write FIFO holds and the room the handler still counts on fit in it
\* together: only the host, who takes characters out, moves between the handler's
\* reading of the room and its writing.
FifoRoom ==
  /\ \E S : jd.wfifo \in Seq(S)
  /\ Len(jd.wfifo) <= FifoDepth
  /\ ji.pc \in {"rx", "rx_end", "tx"} =>
       ji.space \in Nat /\ Len(jd.wfifo) + ji.space <= FifoDepth

LEMMA OneMore ==
  ASSUME NEW q, NEW e, \E S : q \in Seq(S)
  PROVE  (\E S : Append(q, e) \in Seq(S)) /\ Len(Append(q, e)) = Len(q) + 1
<1>1. PICK S : q \in Seq(S)
  OBVIOUS
<1>2. q \in Seq(S \cup {e})
  BY <1>1
<1>3. Append(q, e) \in Seq(S \cup {e}) /\ Len(Append(q, e)) = Len(q) + 1
  BY <1>2
<1> QED
  BY <1>3

LEMMA OneLess ==
  ASSUME NEW q, \E S : q \in Seq(S), q # <<>>
  PROVE  (\E S : Tail(q) \in Seq(S)) /\ Len(Tail(q)) = Len(q) - 1
<1>1. PICK S : q \in Seq(S)
  OBVIOUS
<1>2. Tail(q) \in Seq(S) /\ Len(Tail(q)) = Len(q) - 1
  BY <1>1
<1> QED
  BY <1>2

LEMMA FifoKept ==
  ASSUME JtagFields, FifoRoom, [JtagNext]_jtagVars
  PROVE  FifoRoom'
<1> USE JtagAssumption
<1>0. Len(jd.wfifo) \in Nat
  BY DEF FifoRoom
<1>1. CASE jd'.wfifo = jd.wfifo /\ UNCHANGED ji
  BY <1>1 DEF FifoRoom
<1>2. CASE HostTakes
  <2>1. jd'.wfifo = Tail(jd.wfifo) /\ jd.wfifo # <<>> /\ UNCHANGED ji
    BY <1>2 DEF HostTakes, JtagFields
  <2>2. (\E S : jd'.wfifo \in Seq(S)) /\ Len(jd'.wfifo) = Len(jd.wfifo) - 1
    BY <2>1, OneLess DEF FifoRoom
  <2> QED
    BY <1>0, <2>1, <2>2 DEF FifoRoom
<1>3. CASE jtag_TxData
  <2>1. jd'.wfifo = Append(jd.wfifo, js.tx_buf[js.tx_out])
    BY <1>3 DEF jtag_TxData, JtagFields
  <2>2. ji.pc = "tx" /\ ji.space > 0 /\ ji'.pc = "tx" /\ ji'.space = ji.space - 1
    BY <1>3 DEF jtag_TxData, JtagFields
  <2>3. (\E S : jd'.wfifo \in Seq(S)) /\ Len(jd'.wfifo) = Len(jd.wfifo) + 1
    <3> DEFINE e == js.tx_buf[js.tx_out]
    <3>1. jd'.wfifo = Append(jd.wfifo, e)
      BY <2>1
    <3> HIDE DEF e
    <3>2. (\E S : Append(jd.wfifo, e) \in Seq(S)) /\ Len(Append(jd.wfifo, e)) = Len(jd.wfifo) + 1
      BY OneMore DEF FifoRoom
    <3> QED
      BY <3>1, <3>2
  <2>4. Len(jd.wfifo) \in Nat /\ ji.space \in Nat /\ Len(jd.wfifo) + ji.space <= FifoDepth
    BY <2>2 DEF FifoRoom
  <2>5. FifoDepth \in Nat
    BY JtagAssumption
  <2>6. /\ Len(jd'.wfifo) <= FifoDepth /\ ji'.space \in Nat
        /\ Len(jd'.wfifo) + ji'.space <= FifoDepth
    <3>1. Len(jd'.wfifo) = Len(jd.wfifo) + 1
      BY <2>3
    <3>2. ji.space > 0 /\ ji'.space = ji.space - 1
      BY <2>2
    <3>3. \A len, space, depth \in Nat : space > 0 /\ len + space <= depth
            => len + 1 <= depth /\ space - 1 \in Nat /\ (len + 1) + (space - 1) <= depth
      OBVIOUS
    <3> QED
      BY <2>4, <2>5, <3>1, <3>2, <3>3
  <2> QED
    BY <2>3, <2>6 DEF FifoRoom
<1>4. CASE jtag_Control
  <2>1. UNCHANGED jd /\ (ji'.pc = "off" \/ ji'.space = FifoDepth - Len(jd.wfifo))
    BY <1>4 DEF jtag_Control, NoIrq
  <2> QED
    BY <1>0, <2>1 DEF FifoRoom
<1>5. CASE jtag_Enter \/ jtag_RxFull \/ jtag_RxData \/ jtag_RxEnd \/ jtag_TxEnd
  <2>1. jd'.wfifo = jd.wfifo
    BY <1>5
    DEF jtag_Enter, jtag_RxFull, jtag_RxData, jtag_RxEnd, jtag_TxEnd, JtagFields
  <2>2. /\ ji'.space = ji.space
        /\ ji.pc \in {"rx", "rx_end"} \/ ji'.pc = "control"
    BY <1>5
    DEF jtag_Enter, jtag_RxFull, jtag_RxData, jtag_RxEnd, jtag_TxEnd, JtagFields
  <2> QED
    BY <2>1, <2>2 DEF FifoRoom
<1>6. Host \/ JtagTimeout => HostTakes \/ (jd'.wfifo = jd.wfifo /\ UNCHANGED ji)
  BY DEF Host, HostMoves, HostSends, HostPauses, JtagTimeout, JtagFields
<1>7. Program => jd'.wfifo = jd.wfifo /\ UNCHANGED ji
  BY
  DEF Program, JtagCalls, JtagWrite, JtagRead, JtagClose, JtagIoctl, InCall, Writes, jw_Sample,
    jw_Copy, jw_Publish, jw_Kick, jw_Wait, jw_Host, jw_Return, Reads, jr_Sample, jr_Copy, jr_Publish,
    jr_Wait, jr_More, jr_Return, jtag_CloseWait, Enable, JtagFields
<1> QED
  BY <1>1, <1>2, <1>3, <1>4, <1>5, <1>6, <1>7 DEF JtagNext, JtagHandler, jtagVars

\* What arms the interrupts, with what it rests on.
JtagInv == JtagFields /\ JtagNumbers /\ JtagArmed /\ FifoRoom

\* At the start the buffers are empty and receiving is on.
LEMMA JtagInvInit ==
  JtagInit => JtagInv
<1> SUFFICES ASSUME JtagInit PROVE JtagInv
  OBVIOUS
<1>1. JtagFields
  BY DEF JtagInit, NoIrq, NoCall, JtagFields
<1>2. JtagNumbers
  BY JtagAssumption DEF JtagInit, NoCall, JSlot, JtagNumbers, ReadPlaces
<1>3. JtagArmed
  BY DEF JtagInit, NoIrq, NoCall, JtagArmed
<1>4. jd.wfifo \in Seq({}) /\ Len(jd.wfifo) = 0 /\ ji.pc = "off"
  BY DEF JtagInit, NoIrq
<1> QED
  BY <1>1, <1>2, <1>3, <1>4, JtagAssumption DEF JtagInv, FifoRoom

\* Every step keeps what arms the interrupts, and the room in the FIFO.
LEMMA JtagInvStep ==
  JtagInv /\ [JtagNext]_jtagVars => JtagInv'
BY FieldsKept, NumbersKept, ArmedKept, FifoKept DEF JtagInv

\* That is the safety of the driver.
LEMMA JtagInvIsSafe ==
  JtagInv => JtagSafe
BY DEF JtagInv, JtagArmed, Kicks, Unmasks, RxFull, FifoRoom, JtagSafe, FifoNeverOverrun,
  KickedOrKicking, ReceivingUnlessFull

\* The write FIFO is never given more than it holds, characters to send always have an
\* interrupt or a write on its way to arm it, and receiving is off only while there is
\* no room or a read is about to turn it on, for buffers and FIFOs of any length
\* (altera_avalon_jtag_uart_init.c:120-205, altera_avalon_jtag_uart_write.c:99-190,
\* altera_avalon_jtag_uart_read.c:116-191).
THEOREM JtagNeverStranded == JtagSpec => []JtagSafe
BY JtagInvInit, JtagInvStep, JtagInvIsSafe, PTL DEF JtagSpec

-----------------------------------------------------------------------------
(* What is written to the UART leaves in order.                              *)

\* Slots from a up to b, round the buffer.
Ahead(a, b) == IF b >= a THEN b - a ELSE b - a + ALT_AVALON_UART_BUF_LEN

LEMMA AfterIs ==
  ASSUME NEW a \in Slot
  PROVE  After(a) = IF a = ALT_AVALON_UART_BUF_LEN - 1 THEN 0 ELSE a + 1
BY UartAssumption DEF Slot, After

LEMMA AheadMoves ==
  ASSUME NEW a \in Slot, NEW b \in Slot
  PROVE  /\ Ahead(a, b) \in Slot
         /\ Ahead(a, b) = 0 <=> a = b
         /\ After(b) # a => Ahead(a, After(b)) = Ahead(a, b) + 1
         /\ a # b => Ahead(After(a), b) = Ahead(a, b) - 1
         /\ a # b => After(a) # After(b)
         /\ Ahead(After(a), a) = ALT_AVALON_UART_BUF_LEN - 1
         /\ Ahead(a, b) = ALT_AVALON_UART_BUF_LEN - 1 => After(b) = a
BY AfterIs, UartAssumption DEF Slot, Ahead

\* Characters in the device, and in the buffer: one that is stored but not yet
\* published counts.
One(b)   == IF b THEN 1 ELSE 0
InDevice == One(hw.shifting) + One(~hw.trdy)
Stored   == Ahead(sp.tx_start, sp.tx_end) + One(fg.pc = "w_publish")

TxFields ==
  /\ {"tx_start", "tx_end", "tx_buf"} \subseteq DOMAIN sp
  /\ sp.tx_start \in Slot /\ sp.tx_end \in Slot /\ DOMAIN sp.tx_buf = Slot
  /\ {"trdy", "txdata", "shifting", "shift"} \subseteq DOMAIN hw
  /\ {hw.trdy, hw.shifting} \subseteq BOOLEAN
  /\ "pc" \in DOMAIN fg /\ {"pc", "status"} \subseteq DOMAIN isr
  /\ {"written", "sent"} \subseteq DOMAIN ends /\ ends.written \in Nat /\ ends.sent \in Nat

\* The register to load was seen empty, and only the handler fills it.
SeenEmpty ==
  isr.pc \in {"clear", "rx", "tx"} /\ isr.status \cap {"TRDY", "DCTS"} # {} => hw.trdy

\* Shift register, transmit register and buffer hold, in this order, the characters that
\* follow the last one sent, and no others have been written.
TxChain ==
  /\ hw.shifting => hw.shift = ends.sent + 1
  /\ ~hw.trdy => hw.txdata = ends.sent + One(hw.shifting) + 1
  /\ \A s \in Slot : Ahead(sp.tx_start, s) < Stored =>
       sp.tx_buf[s] = ends.sent + InDevice + Ahead(sp.tx_start, s) + 1
  /\ ends.written = ends.sent + InDevice + Stored
  /\ fg.pc \in {"w_store", "w_publish"} => After(sp.tx_end) # sp.tx_start

TxInv == TxFields /\ SeenEmpty /\ TxChain

\* A step that moves no character.
LEMMA TxRests ==
  ASSUME TxInv, TxFields', SeenEmpty',
         sp'.tx_start = sp.tx_start, sp'.tx_end = sp.tx_end, sp'.tx_buf = sp.tx_buf,
         hw'.trdy = hw.trdy, hw'.shifting = hw.shifting,
         hw'.txdata = hw.txdata, hw'.shift = hw.shift,
         ends'.written = ends.written, ends'.sent = ends.sent,
         fg'.pc = "w_publish" <=> fg.pc = "w_publish",
         fg'.pc = "w_store" => After(sp.tx_end) # sp.tx_start
  PROVE  TxInv'
BY DEF TxInv, TxChain, InDevice, Stored, One

LEMMA TxDevice ==
  ASSUME TxInv, Device
  PROVE  TxInv' /\ (hw.shifting /\ ~hw.shifting' => ends'.sent = ends.sent + 1)
<1>1. CASE Receive
  <2>1. /\ UNCHANGED <<sp, isr, fg>> /\ DOMAIN hw' = DOMAIN hw /\ DOMAIN ends' = DOMAIN ends
        /\ hw'.trdy = hw.trdy /\ hw'.shifting = hw.shifting
        /\ hw'.txdata = hw.txdata /\ hw'.shift = hw.shift
        /\ ends'.written = ends.written /\ ends'.sent = ends.sent
    BY <1>1 DEF Receive, TxInv, TxFields
  <2>2. TxFields' /\ SeenEmpty'
    BY <2>1 DEF TxInv, TxFields, SeenEmpty
  <2>3. TxInv'
    BY <2>1, <2>2, TxRests DEF TxInv, TxChain
  <2> QED
    BY <2>1, <2>3
<1>2. CASE LoadShifter
  <2>1. /\ ~hw.trdy /\ ~hw.shifting /\ UNCHANGED <<sp, isr, fg, ends>>
        /\ hw'.trdy = TRUE /\ hw'.shifting = TRUE /\ hw'.shift = hw.txdata
        /\ DOMAIN hw' = DOMAIN hw
    BY <1>2 DEF LoadShifter, TxInv, TxFields
  <2>2. TxFields' /\ SeenEmpty'
    BY <2>1 DEF TxInv, TxFields, SeenEmpty
  <2>3. InDevice = 1 /\ InDevice' = 1 /\ Stored' = Stored
    BY <2>1 DEF InDevice, Stored, One
  <2>4. hw'.shift = ends.sent + 1
    BY <2>1 DEF TxInv, TxFields, TxChain, One
  <2> QED
    BY <2>1, <2>2, <2>3, <2>4 DEF TxInv, TxChain
<1>3. CASE ShiftOut
  <2>1. /\ hw.shifting /\ UNCHANGED <<sp, isr, fg>>
        /\ hw'.trdy = hw.trdy /\ hw'.shifting = FALSE /\ hw'.txdata = hw.txdata
        /\ DOMAIN hw' = DOMAIN hw /\ DOMAIN ends' = DOMAIN ends
        /\ ends'.sent = ends.sent + 1 /\ ends'.written = ends.written
    BY <1>3 DEF ShiftOut, TxInv, TxFields, TxChain
  <2>2. TxFields' /\ SeenEmpty'
    <3>1. ends'.sent \in Nat
      BY <2>1 DEF TxInv, TxFields
    <3> QED
      BY <2>1, <3>1 DEF TxInv, TxFields, SeenEmpty
  <2>3. InDevice \in Nat /\ ends'.sent + InDevice' = ends.sent + InDevice /\ Stored' = Stored
    BY <2>1 DEF InDevice, Stored, One, TxInv, TxFields
  <2>4. ends.sent \in Nat /\ One(hw.shifting) = 1 /\ One(hw'.shifting) = 0
    BY <2>1 DEF One, TxInv, TxFields
  <2>5. ~hw'.trdy => hw'.txdata = ends'.sent + One(hw'.shifting) + 1
    BY <2>1 DEF TxInv, TxFields, TxChain, One
  <2>6. TxChain'
    BY <2>1, <2>3, <2>5 DEF TxInv, TxChain
  <2> QED
    BY <2>1, <2>2, <2>6 DEF TxInv
<1> QED
  BY <1>1, <1>2, <1>3 DEF Device

LEMMA TxHandler ==
  ASSUME TxInv, Handler
  PROVE  TxInv' /\ UNCHANGED hw.shifting
<1>0. fg' = fg /\ (fg.pc = "w_store" => After(sp.tx_end) # sp.tx_start)
  BY DEF Handler, IrqEnter, IrqClear, IrqRx, IrqTx, IrqTxEnd, IrqReturn, TxInv, TxChain
<1>1. CASE IrqEnter \/ IrqClear \/ IrqReturn
  <2>1. /\ UNCHANGED <<sp, ends>> /\ DOMAIN hw' = DOMAIN hw
        /\ hw'.trdy = hw.trdy /\ hw'.shifting = hw.shifting
        /\ hw'.txdata = hw.txdata /\ hw'.shift = hw.shift
        /\ {"pc", "status"} \subseteq DOMAIN isr'
    BY <1>1 DEF IrqEnter, IrqClear, IrqReturn, TxInv, TxFields
  <2>2. SeenEmpty'
    <3>1. CASE IrqEnter
      <4>1. isr'.status = STATUS /\ UNCHANGED hw
        BY <3>1 DEF IrqEnter
      <4>2. isr'.status \cap {"TRDY", "DCTS"} # {} => hw.trdy
        BY <4>1 DEF STATUS, Flag
      <4> QED
        BY <4>1, <4>2 DEF SeenEmpty
    <3>2. CASE IrqClear
      <4>1. isr'.status = isr.status /\ isr.pc = "clear"
        BY <3>2 DEF IrqClear, TxInv, TxFields
      <4> QED
        BY <2>1, <4>1 DEF TxInv, SeenEmpty
    <3>3. CASE IrqReturn
      BY <3>3 DEF IrqReturn, SeenEmpty
    <3> QED
      BY <1>1, <3>1, <3>2, <3>3
  <2>3. TxFields'
    BY <1>0, <2>1 DEF TxInv, TxFields
  <2> QED
    BY <1>0, <2>1, <2>2, <2>3, TxRests
<1>2. CASE IrqRx
  <2>1. /\ sp'.tx_start = sp.tx_start /\ sp'.tx_end = sp.tx_end /\ sp'.tx_buf = sp.tx_buf
        /\ DOMAIN sp' = DOMAIN sp
        /\ hw'.trdy = hw.trdy /\ hw'.shifting = hw.shifting
        /\ hw'.txdata = hw.txdata /\ hw'.shift = hw.shift /\ DOMAIN hw' = DOMAIN hw
    BY <1>2 DEF IrqRx, rx_Drop, rx_Store, TxInv, TxFields
  <2>2. /\ DOMAIN ends' = DOMAIN ends /\ ends'.written = ends.written /\ ends'.sent = ends.sent
        /\ DOMAIN isr' = DOMAIN isr /\ isr'.status = isr.status /\ isr.pc = "rx"
    BY <1>2 DEF IrqRx, TxInv, TxFields
  <2>3. TxFields'
    BY <1>0, <2>1, <2>2 DEF TxInv, TxFields
  <2>4. SeenEmpty'
    BY <2>1, <2>2 DEF TxInv, SeenEmpty
  <2> QED
    BY <1>0, <2>1, <2>2, <2>3, <2>4, TxRests
<1>3. CASE IrqTx /\ tx_Empty
  <2>1. UNCHANGED <<sp, hw, ends>> /\ DOMAIN isr' = DOMAIN isr /\ isr'.pc = "tx_end"
    BY <1>3 DEF IrqTx, tx_Empty, TxInv, TxFields
  <2>2. TxFields' /\ SeenEmpty'
    BY <1>0, <2>1 DEF TxInv, TxFields, SeenEmpty
  <2> QED
    BY <1>0, <2>1, <2>2, TxRests
<1>4. CASE IrqTxEnd
  <2>1. /\ sp'.tx_start = sp.tx_start /\ sp'.tx_end = sp.tx_end /\ sp'.tx_buf = sp.tx_buf
        /\ DOMAIN sp' = DOMAIN sp
        /\ hw'.trdy = hw.trdy /\ hw'.shifting = hw.shifting
        /\ hw'.txdata = hw.txdata /\ hw'.shift = hw.shift /\ DOMAIN hw' = DOMAIN hw
        /\ UNCHANGED ends /\ isr'.pc = "off" /\ {"pc", "status"} \subseteq DOMAIN isr'
    BY <1>4 DEF IrqTxEnd, TxInv, TxFields
  <2>2. TxFields' /\ SeenEmpty'
    BY <1>0, <2>1 DEF TxInv, TxFields, SeenEmpty
  <2> QED
    BY <1>0, <2>1, <2>2, TxRests
<1>5. CASE IrqTx /\ tx_Send
  <2> DEFINE a == sp.tx_start
             b == sp.tx_end
  <2>1. /\ a \in Slot /\ b \in Slot /\ a # b /\ After(a) \in Slot
        /\ sp'.tx_start = After(a) /\ sp'.tx_end = b /\ sp'.tx_buf = sp.tx_buf
        /\ DOMAIN sp' = DOMAIN sp /\ UNCHANGED ends
    BY <1>5, AfterMoves DEF IrqTx, tx_Send, TxInv, TxFields
  <2>2. /\ hw.trdy /\ hw'.trdy = FALSE /\ hw'.shifting = hw.shifting
        /\ hw'.txdata = sp.tx_buf[a] /\ hw'.shift = hw.shift /\ DOMAIN hw' = DOMAIN hw
    BY <1>5 DEF IrqTx, tx_Send, TxInv, TxFields, SeenEmpty
  <2>3. DOMAIN isr' = DOMAIN isr /\ isr'.pc = "tx_end"
    BY <1>5 DEF IrqTx, tx_Send, TxInv, TxFields
  <2>4. TxFields' /\ SeenEmpty'
    BY <1>0, <2>1, <2>2, <2>3 DEF TxInv, TxFields, SeenEmpty
  <2>5. /\ Ahead(a, b) \in Slot /\ Ahead(a, b) # 0 /\ Ahead(After(a), b) = Ahead(a, b) - 1
        /\ Ahead(a, a) = 0 /\ After(a) # After(b)
        /\ Ahead(After(a), a) = ALT_AVALON_UART_BUF_LEN - 1
    <3>1. a \in Slot /\ b \in Slot /\ a # b
      BY <2>1
    <3>2. /\ Ahead(a, b) \in Slot /\ Ahead(a, b) # 0 /\ Ahead(After(a), b) = Ahead(a, b) - 1
          /\ After(a) # After(b)
      BY <3>1, AheadMoves
    <3>3. Ahead(a, a) = 0 /\ Ahead(After(a), a) = ALT_AVALON_UART_BUF_LEN - 1
      BY <3>1, AheadMoves
    <3> QED
      BY <3>2, <3>3
  <2>6. InDevice \in Nat /\ InDevice' = InDevice + 1 /\ InDevice = One(hw.shifting)
    BY <2>2 DEF InDevice, One
  <2>7. Stored \in Nat /\ Stored > 0 /\ Stored' = Stored - 1
    BY <1>0, <2>1, <2>5 DEF Stored, One, Slot
  <2>8. Stored <= ALT_AVALON_UART_BUF_LEN - 1
    <3>1. CASE fg.pc = "w_publish"
      <4>1. Ahead(a, b) # ALT_AVALON_UART_BUF_LEN - 1
        <5>1. After(b) # a
          BY <3>1 DEF TxInv, TxChain
        <5> QED
          BY <2>1, <5>1, AheadMoves
      <4> QED
        BY <2>5, <3>1, <4>1, UartAssumption DEF Stored, One, Slot
    <3>2. CASE fg.pc # "w_publish"
      BY <2>5, <3>2, UartAssumption DEF Stored, One, Slot
    <3> QED
      BY <3>1, <3>2
  <2>9. hw'.txdata = ends.sent + One(hw'.shifting) + 1
    BY <2>1, <2>2, <2>5, <2>6, <2>7 DEF TxInv, TxFields, TxChain
  <2>10. ASSUME NEW s \in Slot, Ahead(After(a), s) < Stored'
         PROVE  sp'.tx_buf[s] = ends'.sent + InDevice' + Ahead(After(a), s) + 1
    <3>1. s # a
      BY <2>5, <2>7, <2>8, <2>10, UartAssumption
    <3>2. Ahead(a, s) \in Slot /\ Ahead(After(a), s) = Ahead(a, s) - 1
      BY <2>1, <3>1, AheadMoves
    <3>3. Ahead(a, s) < Stored
      BY <2>7, <2>10, <3>2 DEF Slot
    <3> QED
      BY <2>1, <2>6, <3>2, <3>3 DEF TxInv, TxFields, TxChain, Slot
  <2>11. TxChain'
    <3>1. ends'.written = ends'.sent + InDevice' + Stored'
      BY <2>1, <2>6, <2>7 DEF TxInv, TxFields, TxChain
    <3> QED
      BY <1>0, <2>1, <2>2, <2>5, <2>9, <2>10, <3>1 DEF TxInv, TxChain
  <2> QED
    BY <2>2, <2>4, <2>11 DEF TxInv
<1> QED
  BY <1>1, <1>2, <1>3, <1>4, <1>5 DEF Handler, IrqTx

LEMMA TxForeground ==
  ASSUME TxInv, LeftToWrite, Foreground
  PROVE  TxInv' /\ UNCHANGED hw.shifting
<1>0. UNCHANGED isr
  BY DEF Foreground
<1>1. CASE Call \/ w_Test \/ w_Wait \/ w_Enable \/ w_End \/ Reading \/ c_Wait
  <2>1. /\ sp'.tx_start = sp.tx_start /\ sp'.tx_end = sp.tx_end /\ sp'.tx_buf = sp.tx_buf
        /\ DOMAIN sp' = DOMAIN sp
        /\ hw'.trdy = hw.trdy /\ hw'.shifting = hw.shifting
        /\ hw'.txdata = hw.txdata /\ hw'.shift = hw.shift /\ DOMAIN hw' = DOMAIN hw
    BY <1>1
    DEF Call, CallWrite, CallRead, CallClose, w_Test, w_Wait, w_Enable, w_End, Reading, r_Test,
      r_Take, r_Advance, r_Check, r_Enable, r_End, c_Wait, Unmask, TxInv, TxFields
  <2>2. DOMAIN ends' = DOMAIN ends /\ ends'.written = ends.written /\ ends'.sent = ends.sent
    BY <1>1
    DEF Call, CallWrite, CallRead, CallClose, w_Test, w_Wait, w_Enable, w_End, Reading, r_Test,
      r_Take, r_Advance, r_Check, r_Enable, r_End, c_Wait, TxInv, TxFields
  <2>3. /\ "pc" \in DOMAIN fg' /\ fg.pc # "w_publish" /\ fg'.pc # "w_publish"
        /\ fg'.pc = "w_store" => After(sp.tx_end) # sp.tx_start
    <3>1. CASE Call
      <4>1. CASE CallWrite
        BY <4>1 DEF CallWrite
      <4>2. CASE CallRead
        BY <4>2 DEF CallRead
      <4>3. CASE CallClose
        BY <4>3 DEF CallClose, TxInv, TxFields
      <4> QED
        BY <3>1, <4>1, <4>2, <4>3 DEF Call
    <3>2. CASE w_Wait \/ w_Enable
      BY <3>2 DEF w_Wait, w_Enable, Goto, TxInv, TxFields
    <3>3. CASE w_End \/ c_Wait
      BY <3>3 DEF w_End, c_Wait, AtRest
    <3>4. CASE w_Test
      BY <3>4 DEF w_Test, Goto, LeftToWrite, TxInv, TxFields
    <3>5. CASE r_Check
      <4>1. fg.count = 0 \/ fg.count > 0
        BY DEF LeftToWrite
      <4> QED
        BY <3>5, <4>1 DEF r_Check, Goto, TxInv, TxFields
    <3>6. CASE r_Test
      BY <3>6 DEF r_Test, Goto, TxInv, TxFields
    <3>7. CASE r_Enable
      BY <3>7 DEF r_Enable, Goto, TxInv, TxFields
    <3>8. CASE r_Take
      BY <3>8 DEF r_Take, TxInv, TxFields
    <3>9. CASE r_Advance \/ r_End
      BY <3>9 DEF r_Advance, r_End, Goto, AtRest, TxInv, TxFields
    <3> QED
      BY <1>1, <3>1, <3>2, <3>3, <3>4, <3>5, <3>6, <3>7, <3>8, <3>9 DEF Reading
  <2>4. TxFields' /\ SeenEmpty'
    BY <1>0, <2>1, <2>2, <2>3 DEF TxInv, TxFields, SeenEmpty
  <2> QED
    BY <2>1, <2>2, <2>3, <2>4, TxRests
<1>2. CASE w_Store
  <2> DEFINE a == sp.tx_start
             b == sp.tx_end
  <2>1. /\ sp'.tx_start = a /\ sp'.tx_end = b /\ DOMAIN sp' = DOMAIN sp
        /\ sp'.tx_buf = [sp.tx_buf EXCEPT ![b] = ends.written + 1]
        /\ ends'.written = ends.written + 1 /\ ends'.sent = ends.sent
        /\ DOMAIN ends' = DOMAIN ends /\ UNCHANGED hw
        /\ fg.pc = "w_store" /\ fg'.pc = "w_publish" /\ DOMAIN fg' = DOMAIN fg
    BY <1>2 DEF w_Store, TxInv, TxFields
  <2>2. a \in Slot /\ b \in Slot /\ ends.written \in Nat /\ After(b) # a
    BY <2>1 DEF TxInv, TxFields, TxChain
  <2>3. TxFields' /\ SeenEmpty'
    BY <1>0, <2>1, <2>2 DEF TxInv, TxFields, SeenEmpty
  <2>4. Stored = Ahead(a, b) /\ Stored' = Stored + 1 /\ Stored \in Nat /\ InDevice' = InDevice
    <3>1. Ahead(a, b) \in Slot
      BY <2>2, AheadMoves
    <3> QED
      BY <2>1, <3>1 DEF Stored, One, InDevice, Slot
  <2>5. InDevice \in Nat
    BY DEF InDevice, One
  <2>6. ASSUME NEW s \in Slot, Ahead(a, s) < Stored'
        PROVE  sp'.tx_buf[s] = ends.sent + InDevice + Ahead(a, s) + 1
    <3>1. CASE s = b
      BY <2>1, <2>2, <2>4, <3>1 DEF TxInv, TxFields, TxChain
    <3>2. CASE s # b
      <4>1. Ahead(a, s) # Ahead(a, b)
        BY <2>2, <3>2, UartAssumption DEF Ahead, Slot
      <4>2. Ahead(a, s) < Stored
        <5>1. Ahead(a, s) \in Slot /\ Ahead(a, b) \in Slot
          BY <2>2, AheadMoves
        <5> QED
          BY <2>4, <2>6, <4>1, <5>1 DEF Slot
      <4> QED
        BY <2>1, <3>2, <4>2 DEF TxInv, TxFields, TxChain
    <3> QED
      BY <3>1, <3>2
  <2>7. ends'.written = ends'.sent + InDevice' + Stored'
    BY <2>1, <2>4, <2>5 DEF TxInv, TxFields, TxChain
  <2>8. TxChain'
    BY <2>1, <2>2, <2>4, <2>6, <2>7 DEF TxInv, TxChain
  <2> QED
    BY <2>1, <2>3, <2>8 DEF TxInv
<1>3. CASE w_Publish
  <2> DEFINE a == sp.tx_start
             b == sp.tx_end
  <2>1. /\ sp'.tx_start = a /\ sp'.tx_end = After(b) /\ DOMAIN sp' = DOMAIN sp
        /\ sp'.tx_buf = sp.tx_buf /\ UNCHANGED <<hw, ends>>
        /\ fg.pc = "w_publish" /\ fg'.pc = "w_test" /\ DOMAIN fg' = DOMAIN fg
    BY <1>3 DEF w_Publish, Goto, TxInv, TxFields
  <2>2. a \in Slot /\ b \in Slot /\ After(b) # a /\ After(b) \in Slot
    BY <2>1, AfterMoves DEF TxInv, TxFields, TxChain
  <2>3. TxFields' /\ SeenEmpty'
    BY <1>0, <2>1, <2>2 DEF TxInv, TxFields, SeenEmpty
  <2>4. Stored' = Stored /\ InDevice' = InDevice
    <3>1. Ahead(a, b) \in Slot /\ Ahead(a, After(b)) = Ahead(a, b) + 1
      BY <2>2, AheadMoves
    <3> QED
      BY <2>1, <3>1 DEF Stored, One, InDevice, Slot
  <2>5. TxChain'
    BY <2>1, <2>4 DEF TxInv, TxChain
  <2> QED
    BY <2>1, <2>3, <2>5 DEF TxInv
<1> QED
  BY <1>1, <1>2, <1>3 DEF Foreground, Writing

\* At the start nothing is on its way.
LEMMA TxInvInit ==
  UartInit => TxInv /\ LeftToWrite
<1> SUFFICES ASSUME UartInit PROVE TxInv /\ LeftToWrite
  OBVIOUS
<1>1. TxFields /\ SeenEmpty /\ LeftToWrite
  BY UartAssumption DEF UartInit, AtRest, Slot, TxFields, SeenEmpty, LeftToWrite
<1>2. InDevice = 0 /\ Stored = 0 /\ ends.sent = 0 /\ ends.written = 0
  BY DEF UartInit, AtRest, InDevice, Stored, One, Ahead
<1>3. \A s \in Slot : ~(Ahead(sp.tx_start, s) < Stored)
  BY <1>1, <1>2, AheadMoves DEF TxFields, Slot
<1>4. hw.trdy /\ ~hw.shifting /\ fg.pc = "idle"
  BY DEF UartInit, AtRest
<1> QED
  BY <1>1, <1>2, <1>3, <1>4 DEF TxInv, TxChain

\* Every step keeps what is on its way in order.
LEMMA TxInvStep ==
  TxInv /\ LeftToWrite /\ [UartNext]_uartVars => TxInv'
<1>1. TxInv /\ UNCHANGED uartVars => TxInv'
  BY DEF uartVars, TxInv, TxFields, SeenEmpty, TxChain, InDevice, Stored
<1> QED
  BY <1>1, TxDevice, TxHandler, TxForeground DEF UartNext

\* What leaves is the next character.
LEMMA TxLeaves ==
  TxInv /\ LeftToWrite /\ [UartNext]_uartVars
    => [hw.shifting /\ ~hw.shifting' => ends'.sent = ends.sent + 1]_uartVars
BY TxDevice, TxHandler, TxForeground DEF UartNext

\* Whatever is written to the UART leaves it in order, nothing lost and nothing twice,
\* for buffers of any length and wherever the handler cuts into the write
\* (altera_avalon_uart_write.c:152-207, altera_avalon_uart_init.c:211-283).
THEOREM UartInOrder == UartSpec => TxInOrder
<1>1. LeftToWrite /\ [UartNext]_uartVars => LeftToWrite'
  BY LeftToWriteKept
<1> QED
  BY TxInvInit, TxInvStep, <1>1, TxLeaves, PTL DEF UartSpec, TxInOrder

-----------------------------------------------------------------------------
(* What the program reads from the UART is in order.                         *)

\* Slots not read yet: those between the ends, and, for a read that has seen a character
\* and is overtaken, the whole buffer; not the slot whose character has just been taken.
Unread ==
  {s \in Slot :
     /\ \/ Ahead(sp.rx_start, s) < Ahead(sp.rx_start, sp.rx_end)
        \/ sp.rx_start = sp.rx_end /\ fg.pc \in {"r_take", "r_advance"}
     /\ fg.pc = "r_advance" => s # sp.rx_start}

RxFields ==
  /\ {"rx_start", "rx_end", "rx_buf"} \subseteq DOMAIN sp
  /\ sp.rx_start \in Slot /\ sp.rx_end \in Slot
  /\ DOMAIN sp.rx_buf = Slot /\ \A s \in Slot : sp.rx_buf[s] \in Nat
  /\ {"rrdy", "rxdata"} \subseteq DOMAIN hw /\ hw.rxdata \in Nat
  /\ "pc" \in DOMAIN fg /\ {"pc", "status"} \subseteq DOMAIN isr
  /\ {"left", "came", "read"} \subseteq DOMAIN ends
  /\ {ends.left, ends.came, ends.read} \subseteq Nat
  /\ ends.read <= ends.came /\ ends.came + ends.left <= UartChars

\* The handler stores what it has seen arrive.
SeenFull ==
  isr.pc = "rx" \/ (isr.pc = "clear" /\ "RRDY" \in isr.status) => hw.rrdy

Before(c, d) == c = Damaged \/ d = Damaged \/ c < d
Arrived(c)   == c = Damaged \/ (ends.read < c /\ c <= ends.came)

\* What is not read yet came after what has been read, stands in the order it came in,
\* and the receive register comes after it.
RxChain ==
  /\ \A s \in Unread : Arrived(sp.rx_buf[s])
  /\ \A s, t \in Unread :
       Ahead(sp.rx_start, s) < Ahead(sp.rx_start, t) => Before(sp.rx_buf[s], sp.rx_buf[t])
  /\ hw.rrdy => /\ Arrived(hw.rxdata)
                /\ \A s \in Unread : Before(sp.rx_buf[s], hw.rxdata)

RxInv == RxFields /\ SeenFull /\ RxChain

\* A step after which no more is unread than before.
LEMMA RxRests ==
  ASSUME RxInv, RxFields', SeenFull', Unread' \subseteq Unread,
         sp'.rx_buf = sp.rx_buf, hw'.rxdata = hw.rxdata, hw'.rrdy => hw.rrdy,
         ends'.read = ends.read, ends'.came = ends.came,
         \A s, t \in Unread' :
           Ahead(sp'.rx_start, s) < Ahead(sp'.rx_start, t)
             => Ahead(sp.rx_start, s) < Ahead(sp.rx_start, t)
  PROVE  RxInv'
BY DEF RxInv, RxChain, Arrived, Before, Damaged

LEMMA RxDevice ==
  ASSUME RxInv, Device
  PROVE  RxInv' /\ UNCHANGED fg
<1>0. UNCHANGED <<sp, isr, fg>> /\ Unread' = Unread
  BY DEF Device, Receive, LoadShifter, ShiftOut, Unread
<1>1. CASE LoadShifter \/ ShiftOut
  <2>1. /\ hw'.rrdy = hw.rrdy /\ hw'.rxdata = hw.rxdata /\ DOMAIN hw' = DOMAIN hw
        /\ DOMAIN ends' = DOMAIN ends
        /\ ends'.read = ends.read /\ ends'.came = ends.came /\ ends'.left = ends.left
    BY <1>1 DEF LoadShifter, ShiftOut, RxInv, RxFields
  <2>2. RxFields' /\ SeenFull'
    BY <1>0, <2>1 DEF RxInv, RxFields, SeenFull
  <2> QED
    BY <1>0, <2>1, <2>2, RxRests
<1>2. CASE Receive
  <2>1. /\ ends.left > 0 /\ DOMAIN ends' = DOMAIN ends /\ ends'.read = ends.read
        /\ ends'.came = ends.came + 1 /\ ends'.left = ends.left - 1
        /\ hw'.rrdy = TRUE /\ DOMAIN hw' = DOMAIN hw
        /\ hw'.rxdata \in {Damaged, ends.came + 1}
    BY <1>2 DEF Receive, RxInv, RxFields
  <2>2. RxFields' /\ SeenFull'
    BY <1>0, <2>1, UartAssumption DEF RxInv, RxFields, SeenFull, Damaged
  <2>3. ASSUME NEW s \in Unread
        PROVE  /\ Arrived(sp.rx_buf[s])'
               /\ Before(sp.rx_buf[s], hw'.rxdata)
    <3>1. s \in Slot /\ sp.rx_buf[s] \in Nat /\ ends.came \in Nat /\ ends.read \in Nat
      BY DEF Unread, RxInv, RxFields
    <3>2. Arrived(sp.rx_buf[s])
      BY DEF RxInv, RxChain
    <3> QED
      BY <1>0, <2>1, <3>1, <3>2 DEF Arrived, Before, Damaged
  <2>4. Arrived(hw.rxdata)'
    BY <2>1 DEF RxInv, RxFields, Arrived, Damaged
  <2>5. RxChain'
    BY <1>0, <2>1, <2>3, <2>4 DEF RxInv, RxChain, Before, Damaged
  <2> QED
    BY <1>0, <2>2, <2>5 DEF RxInv
<1> QED
  BY <1>0, <1>1, <1>2 DEF Device

\* What is unread once the handler has stored a character is that character and what was
\* unread before it.
LEMMA StoreUnread ==
  ASSUME NEW a \in Slot, NEW b \in Slot, NEW s \in Slot, s # b
  PROVE  /\ a # b /\ (Ahead(a, s) < Ahead(a, After(b)) \/ a = After(b))
              => Ahead(a, s) < Ahead(a, b)
         /\ a = b => a # After(b) /\ ~(Ahead(a, s) < Ahead(a, After(b)))
<1>1. ALT_AVALON_UART_BUF_LEN \in Nat /\ ALT_AVALON_UART_BUF_LEN > 1
  BY UartAssumption
<1>2. After(b) = IF b = ALT_AVALON_UART_BUF_LEN - 1 THEN 0 ELSE b + 1
  BY AfterIs
<1> QED
  BY <1>1, <1>2 DEF Slot, Ahead

LEMMA RxHandler ==
  ASSUME RxInv, Handler
  PROVE  RxInv' /\ UNCHANGED fg
<1>0. UNCHANGED fg
  BY DEF Handler, IrqEnter, IrqClear, IrqRx, IrqTx, IrqTxEnd, IrqReturn
<1>1. CASE ~(IrqRx /\ rx_Store)
  <2>1. /\ sp'.rx_start = sp.rx_start /\ sp'.rx_end = sp.rx_end /\ sp'.rx_buf = sp.rx_buf
        /\ DOMAIN sp' = DOMAIN sp /\ DOMAIN hw' = DOMAIN hw
        /\ hw'.rxdata = hw.rxdata /\ hw'.rrdy = hw.rrdy
    BY <1>1
    DEF Handler, IrqEnter, IrqClear, IrqRx, rx_Drop, IrqTx, tx_Send, tx_Empty, IrqTxEnd,
      IrqReturn, RxInv, RxFields
  <2>2. /\ DOMAIN ends' = DOMAIN ends /\ ends'.left = ends.left
        /\ ends'.came = ends.came /\ ends'.read = ends.read
    BY DEF Handler, IrqEnter, IrqClear, IrqRx, IrqTx, IrqTxEnd, IrqReturn, RxInv, RxFields
  <2>3. {"pc", "status"} \subseteq DOMAIN isr' /\ SeenFull'
    <3>1. CASE IrqEnter
      <4>1. isr' = [pc |-> "clear", status |-> STATUS] /\ UNCHANGED hw
        BY <3>1 DEF IrqEnter
      <4>2. "RRDY" \in STATUS => hw.rrdy
        BY DEF STATUS, Flag
      <4> QED
        BY <4>1, <4>2 DEF SeenFull
    <3>2. CASE IrqClear
      <4>1. /\ isr.pc = "clear" /\ DOMAIN isr' = DOMAIN isr /\ isr'.status = isr.status
            /\ isr'.pc = IF "RRDY" \in isr.status THEN "rx" ELSE "tx"
        BY <3>2 DEF IrqClear, RxInv, RxFields
      <4> QED
        BY <2>1, <4>1 DEF RxInv, RxFields, SeenFull
    <3>3. CASE IrqRx \/ IrqTx
      BY <3>3 DEF IrqRx, IrqTx, tx_Send, tx_Empty, RxInv, RxFields, SeenFull
    <3>4. CASE IrqTxEnd \/ IrqReturn
      BY <3>4 DEF IrqTxEnd, IrqReturn, SeenFull
    <3> QED
      BY <3>1, <3>2, <3>3, <3>4 DEF Handler
  <2>4. RxFields' /\ Unread' = Unread
    BY <1>0, <2>1, <2>2, <2>3 DEF RxInv, RxFields, Unread
  <2> QED
    BY <1>0, <2>1, <2>2, <2>3, <2>4, RxRests
<1>2. CASE IrqRx /\ rx_Store
  <2> DEFINE a == sp.rx_start
             b == sp.rx_end
  <2>1. /\ a \in Slot /\ b \in Slot /\ After(b) \in Slot /\ hw.rrdy
    BY <1>2, AfterMoves DEF IrqRx, RxInv, RxFields, SeenFull
  <2>2. /\ sp'.rx_start = a /\ sp'.rx_end = After(b) /\ DOMAIN sp' = DOMAIN sp
        /\ sp'.rx_buf = [sp.rx_buf EXCEPT ![b] = hw.rxdata]
        /\ hw'.rrdy = FALSE /\ hw'.rxdata = hw.rxdata /\ DOMAIN hw' = DOMAIN hw
    BY <1>2 DEF rx_Store, RxInv, RxFields
  <2>3. /\ DOMAIN ends' = DOMAIN ends /\ ends'.left = ends.left
        /\ ends'.came = ends.came /\ ends'.read = ends.read
        /\ DOMAIN isr' = DOMAIN isr /\ isr'.pc = "tx"
    BY <1>2 DEF IrqRx, RxInv, RxFields
  <2>4. /\ sp'.rx_buf[b] = hw.rxdata /\ DOMAIN sp'.rx_buf = Slot
        /\ \A s \in Slot : s # b => sp'.rx_buf[s] = sp.rx_buf[s]
    BY <2>1, <2>2 DEF RxInv, RxFields
  <2>5. RxFields' /\ SeenFull'
    BY <1>0, <2>1, <2>2, <2>3, <2>4 DEF RxInv, RxFields, SeenFull
  <2>6. ASSUME NEW s \in Unread', s # b
        PROVE  s \in Unread /\ sp'.rx_buf[s] = sp.rx_buf[s] /\ Ahead(a, s) < Ahead(a, b)
    <3>1. /\ s \in Slot
          /\ Ahead(a, s) < Ahead(a, After(b)) \/ a = After(b)
          /\ fg.pc = "r_advance" => s # a
      BY <1>0, <2>2 DEF Unread
    <3>2. Ahead(a, s) < Ahead(a, b)
      BY <2>1, <2>6, <3>1, StoreUnread
    <3> QED
      BY <2>4, <2>6, <3>1, <3>2 DEF Unread
  <2>7. /\ Arrived(hw.rxdata)
        /\ \A s \in Unread : Arrived(sp.rx_buf[s]) /\ Before(sp.rx_buf[s], hw.rxdata)
    BY <2>1 DEF RxInv, RxChain
  <2>8. ASSUME NEW s \in Unread'
        PROVE  Arrived(sp.rx_buf[s])'
    BY <2>3, <2>4, <2>6, <2>7 DEF Arrived, Damaged
  <2>9. ASSUME NEW s \in Unread', NEW t \in Unread', Ahead(a, s) < Ahead(a, t)
        PROVE  Before(sp'.rx_buf[s], sp'.rx_buf[t])
    <3>1. CASE s = b
      <4>1. t \in Slot
        BY DEF Unread
      <4>2. Ahead(a, b) \in Int /\ Ahead(a, t) \in Int
        <5>1. Ahead(a, b) \in Slot /\ Ahead(a, t) \in Slot
          BY <2>1, <4>1, AheadMoves
        <5> QED
          BY <5>1 DEF Slot
      <4>3. t # b
        BY <2>9, <3>1, <4>2
      <4>4. Ahead(a, t) < Ahead(a, b)
        BY <2>6, <4>3
      <4> QED
        BY <2>9, <3>1, <4>2, <4>4
    <3>2. CASE s # b /\ t = b
      BY <2>4, <2>6, <2>7, <3>2
    <3>3. CASE s # b /\ t # b
      BY <2>6, <2>9, <3>3 DEF RxInv, RxChain
    <3> QED
      BY <3>1, <3>2, <3>3
  <2>10. RxChain'
    BY <2>2, <2>8, <2>9 DEF RxChain, Before, Damaged
  <2> QED
    BY <1>0, <2>5, <2>10 DEF RxInv
<1> QED
  BY <1>0, <1>1, <1>2

LEMMA RxForeground ==
  ASSUME RxInv, LeftToWrite, Foreground
  PROVE  /\ RxInv'
         /\ fg.pc = "r_take" /\ fg'.pc = "r_advance"
              => sp.rx_buf[sp.rx_start] \in (ends.read + 1)..Damaged
<1>0. UNCHANGED isr
  BY DEF Foreground
<1>1. CASE r_Take
  <2> DEFINE a == sp.rx_start
             c == sp.rx_buf[a]
  <2>1. /\ fg.pc = "r_take" /\ fg'.pc = "r_advance" /\ DOMAIN fg' = DOMAIN fg
        /\ UNCHANGED <<sp, hw>> /\ DOMAIN ends' = DOMAIN ends
        /\ ends'.left = ends.left /\ ends'.came = ends.came
        /\ ends'.read = IF c = Damaged THEN ends.read ELSE c
    BY <1>1 DEF r_Take, RxInv, RxFields
  <2>2. /\ a \in Slot /\ sp.rx_end \in Slot /\ c \in Nat /\ Damaged \in Nat
        /\ {ends.left, ends.came, ends.read} \subseteq Nat
        /\ ends.read <= ends.came /\ ends.came + ends.left <= UartChars /\ UartChars \in Nat
    BY UartAssumption DEF RxInv, RxFields, Damaged
  <2>3. a \in Unread /\ Ahead(a, a) = 0
    <3>1. Ahead(a, a) = 0 /\ Ahead(a, sp.rx_end) \in Slot
          /\ (Ahead(a, sp.rx_end) = 0 <=> a = sp.rx_end)
      BY <2>2, AheadMoves
    <3>2. Ahead(a, a) < Ahead(a, sp.rx_end) \/ a = sp.rx_end
      BY <3>1 DEF Slot
    <3> QED
      BY <2>1, <2>2, <3>1, <3>2 DEF Unread
  <2>4. Arrived(c)
    BY <2>3 DEF RxInv, RxChain
  <2>5. c \in (ends.read + 1)..Damaged
    BY <2>2, <2>4 DEF Arrived, Damaged
  <2>6. ends'.read \in Nat /\ ends'.read <= ends.came
    BY <2>1, <2>2, <2>4 DEF Arrived
  <2>7. RxFields' /\ SeenFull'
    BY <1>0, <2>1, <2>2, <2>6 DEF RxInv, RxFields, SeenFull
  <2>8. ASSUME NEW d \in Nat, Arrived(d), Before(c, d)
        PROVE  d = Damaged \/ (ends'.read < d /\ d <= ends'.came)
    BY <2>1, <2>2, <2>8 DEF Arrived, Before
  <2>9. ASSUME NEW s \in Unread'
        PROVE  s \in Unread /\ Ahead(a, a) < Ahead(a, s) /\ sp.rx_buf[s] \in Nat
    <3>1. s \in Slot /\ s # a /\ s \in Unread
      BY <2>1 DEF Unread
    <3>2. Ahead(a, s) \in Slot /\ Ahead(a, s) # 0
      BY <2>2, <3>1, AheadMoves
    <3> QED
      BY <2>3, <3>1, <3>2 DEF Slot, RxInv, RxFields
  <2>10. ASSUME NEW s \in Unread'
         PROVE  Arrived(sp.rx_buf[s])'
    <3>1. Arrived(sp.rx_buf[s]) /\ Before(c, sp.rx_buf[s]) /\ sp.rx_buf[s] \in Nat
      BY <2>3, <2>9 DEF RxInv, RxChain
    <3> QED
      BY <2>1, <2>8, <3>1 DEF Arrived, Damaged
  <2>11. hw.rrdy => Arrived(hw.rxdata)'
    <3>1. hw.rrdy => Arrived(hw.rxdata) /\ Before(c, hw.rxdata) /\ hw.rxdata \in Nat
      BY <2>3 DEF RxInv, RxFields, RxChain
    <3> QED
      BY <2>1, <2>8, <3>1 DEF Arrived, Damaged
  <2>12. RxChain'
    BY <2>1, <2>9, <2>10, <2>11 DEF RxInv, RxChain, Before, Damaged
  <2> QED
    BY <2>5, <2>7, <2>12 DEF RxInv
<1>2. CASE r_Advance
  <2> DEFINE a == sp.rx_start
             b == sp.rx_end
  <2>1. /\ fg.pc = "r_advance" /\ fg'.pc = "r_test" /\ DOMAIN fg' = DOMAIN fg
        /\ UNCHANGED <<hw, ends>> /\ DOMAIN sp' = DOMAIN sp
        /\ sp'.rx_start = After(a) /\ sp'.rx_end = b /\ sp'.rx_buf = sp.rx_buf
    BY <1>2 DEF r_Advance, Goto, RxInv, RxFields
  <2>2. a \in Slot /\ b \in Slot /\ After(a) \in Slot
    BY AfterMoves DEF RxInv, RxFields
  <2>3. RxFields' /\ SeenFull'
    BY <1>0, <2>1, <2>2 DEF RxInv, RxFields, SeenFull
  <2>4. ASSUME NEW s \in Unread'
        PROVE  s \in Unread /\ Ahead(After(a), s) = Ahead(a, s) - 1 /\ Ahead(a, s) \in Slot
    <3>1. s \in Slot /\ Ahead(After(a), s) < Ahead(After(a), b)
      BY <2>1 DEF Unread
    <3>2. s # a
      <4>1. Ahead(After(a), a) = ALT_AVALON_UART_BUF_LEN - 1 /\ Ahead(After(a), b) \in Slot
        BY <2>2, AheadMoves
      <4>2. /\ ALT_AVALON_UART_BUF_LEN \in Nat
            /\ Ahead(After(a), b) \in 0..(ALT_AVALON_UART_BUF_LEN - 1)
        BY <4>1, UartAssumption DEF Slot
      <4> QED
        BY <3>1, <4>1, <4>2
    <3>3. Ahead(After(a), s) = Ahead(a, s) - 1 /\ Ahead(a, s) \in Slot
      BY <2>2, <3>1, <3>2, AheadMoves
    <3>4. a # b => Ahead(a, s) < Ahead(a, b)
      <4>1. a # b => Ahead(After(a), b) = Ahead(a, b) - 1 /\ Ahead(a, b) \in Slot
        BY <2>2, AheadMoves
      <4> QED
        BY <3>1, <3>3, <4>1 DEF Slot
    <3> QED
      BY <2>1, <3>1, <3>2, <3>3, <3>4 DEF Unread
  <2>5. \A s, t \in Unread' : Ahead(sp'.rx_start, s) < Ahead(sp'.rx_start, t)
                                => Ahead(a, s) < Ahead(a, t)
    BY <2>1, <2>4 DEF Slot
  <2> QED
    BY <2>1, <2>3, <2>4, <2>5, RxRests
<1>3. CASE ~r_Take /\ ~r_Advance
  <2>1. /\ sp'.rx_start = sp.rx_start /\ sp'.rx_end = sp.rx_end /\ sp'.rx_buf = sp.rx_buf
        /\ DOMAIN sp' = DOMAIN sp /\ DOMAIN hw' = DOMAIN hw
        /\ hw'.rxdata = hw.rxdata /\ hw'.rrdy = hw.rrdy
    <3>1. CASE Call \/ c_Wait
      BY <3>1 DEF Call, CallWrite, CallRead, CallClose, c_Wait
    <3>2. CASE Writing
      BY <3>2
      DEF Writing, w_Test, w_Enable, w_Wait, w_Store, w_Publish, w_End, Unmask, RxInv, RxFields
    <3>3. CASE Reading
      BY <1>3, <3>3 DEF Reading, r_Test, r_Check, r_Enable, r_End, Unmask, RxInv, RxFields
    <3> QED
      BY <3>1, <3>2, <3>3 DEF Foreground
  <2>2. /\ DOMAIN ends' = DOMAIN ends /\ ends'.came = ends.came /\ ends'.read = ends.read
        /\ ends'.left \in Nat /\ ends'.left <= ends.left
    <3>1. CASE CallWrite
      <4>1. PICK n \in 1..UartMaxLen : n <= ends.left /\ ends' = [ends EXCEPT !.left = @ - n]
        BY <3>1 DEF CallWrite
      <4>2. ends.left \in Nat /\ ends.left - n \in Nat /\ ends.left - n <= ends.left
        BY <4>1 DEF RxInv, RxFields
      <4> QED
        BY <4>1, <4>2 DEF RxInv, RxFields
    <3>2. CASE w_Store
      BY <3>2 DEF w_Store, RxInv, RxFields
    <3>3. CASE ~CallWrite /\ ~w_Store
      <4>1. UNCHANGED ends
        BY <1>3, <3>3
        DEF Foreground, Call, CallRead, CallClose, c_Wait, Writing, w_Test, w_Enable, w_Wait,
          w_Publish, w_End, Reading, r_Test, r_Check, r_Enable, r_End
      <4> QED
        BY <4>1 DEF RxInv, RxFields
    <3> QED
      BY <3>1, <3>2, <3>3
  <2>3. /\ "pc" \in DOMAIN fg' /\ fg.pc \notin {"r_take", "r_advance"} /\ fg'.pc # "r_advance"
        /\ fg'.pc = "r_take" => sp.rx_start # sp.rx_end
    <3>1. CASE CallWrite
      BY <3>1 DEF CallWrite
    <3>2. CASE CallRead
      BY <3>2 DEF CallRead
    <3>3. CASE CallClose
      BY <3>3 DEF CallClose, RxInv, RxFields
    <3>4. CASE w_Test
      BY <3>4 DEF w_Test, Goto, LeftToWrite, RxInv, RxFields
    <3>5. CASE w_Enable \/ w_Wait \/ w_Publish
      BY <3>5 DEF w_Enable, w_Wait, w_Publish, Goto, RxInv, RxFields
    <3>6. CASE w_Store
      BY <3>6 DEF w_Store, RxInv, RxFields
    <3>7. CASE w_End \/ r_End \/ c_Wait
      BY <3>7 DEF w_End, r_End, c_Wait, AtRest
    <3>8. CASE r_Test
      BY <3>8 DEF r_Test, Goto, RxInv, RxFields
    <3>9. CASE r_Check
      <4>1. fg.count = 0 \/ fg.count > 0
        BY DEF LeftToWrite
      <4> QED
        BY <3>9, <4>1 DEF r_Check, Goto, RxInv, RxFields
    <3>10. CASE r_Enable
      BY <3>10 DEF r_Enable, Goto, RxInv, RxFields
    <3> QED
      BY <1>3, <3>1, <3>2, <3>3, <3>4, <3>5, <3>6, <3>7, <3>8, <3>9, <3>10
      DEF Foreground, Call, Writing, Reading
  <2>4. RxFields' /\ SeenFull'
    <3>1. ends'.came + ends'.left <= UartChars
      BY <2>2, UartAssumption DEF RxInv, RxFields
    <3> QED
      BY <1>0, <2>1, <2>2, <2>3, <3>1 DEF RxInv, RxFields, SeenFull
  <2>5. Unread' \subseteq Unread
    BY <2>1, <2>3 DEF Unread
  <2> QED
    BY <2>1, <2>2, <2>3, <2>4, <2>5, RxRests
<1> QED
  BY <1>1, <1>2, <1>3

\* At the start nothing has come.
LEMMA RxInvInit ==
  UartInit => RxInv /\ LeftToWrite
<1> SUFFICES ASSUME UartInit PROVE RxInv /\ LeftToWrite
  OBVIOUS
<1>1. RxFields /\ SeenFull /\ LeftToWrite
  BY UartAssumption DEF UartInit, AtRest, Slot, RxFields, SeenFull, LeftToWrite
<1>2. Unread = {} /\ ~hw.rrdy
  <2>1. sp.rx_start = 0 /\ Ahead(0, sp.rx_end) = 0 /\ fg.pc = "idle" /\ ~hw.rrdy
    BY DEF UartInit, AtRest, Ahead
  <2>2. \A s \in Slot : ~(Ahead(0, s) < 0)
    BY DEF Slot, Ahead
  <2> QED
    BY <2>1, <2>2 DEF Unread
<1> QED
  BY <1>1, <1>2 DEF RxInv, RxChain

\* Every step keeps what has come in order.
LEMMA RxInvStep ==
  RxInv /\ LeftToWrite /\ [UartNext]_uartVars => RxInv'
<1>1. RxInv /\ UNCHANGED uartVars => RxInv'
  BY DEF uartVars, RxInv, RxFields, SeenFull, RxChain, Unread, Arrived, Before, Damaged
<1> QED
  BY <1>1, RxDevice, RxHandler, RxForeground DEF UartNext

\* What a read takes came after what it took before.
LEMMA RxTakes ==
  RxInv /\ LeftToWrite /\ [UartNext]_uartVars
    => [fg.pc = "r_take" /\ fg.pc' = "r_advance"
          => sp.rx_buf[sp.rx_start] \in (ends.read + 1)..Damaged]_uartVars
<1>1. UNCHANGED fg => ~(fg.pc = "r_take" /\ fg.pc' = "r_advance")
  OBVIOUS
<1> QED
  BY <1>1, RxDevice, RxHandler, RxForeground DEF UartNext

\* What the program reads from the UART it reads in the order it came and none of it twice,
\* for buffers of any length, also when the handler overtakes a read in progress
\* (altera_avalon_uart_read.c:164-170, altera_avalon_uart_init.c:178-197).
THEOREM UartReadsInOrder == UartSpec => RxInOrder
<1>1. LeftToWrite /\ [UartNext]_uartVars => LeftToWrite'
  BY LeftToWriteKept
<1> QED
  BY RxInvInit, RxInvStep, <1>1, RxTakes, PTL DEF UartSpec, RxInOrder

-----------------------------------------------------------------------------
(* What passes through the JTAG UART passes in order.                        *)

\* Slots from a up to b, round a buffer.
Span(a, b) == IF b >= a THEN b - a ELSE b - a + BUF_LEN

LEMMA ToSlotIs ==
  ASSUME NEW i \in 0..BUF_LEN
  PROVE  ToSlot(i) = IF i = BUF_LEN THEN 0 ELSE i
BY JtagAssumption DEF ToSlot

LEMMA SpanIs ==
  ASSUME NEW a \in JSlot, NEW b \in JSlot
  PROVE  /\ Span(a, b) \in JSlot
         /\ Span(a, b) = 0 <=> a = b
         /\ ToSlot(b + 1) # a => Span(a, b) + 1 < BUF_LEN
<1>1. BUF_LEN \in Nat /\ BUF_LEN > 1
  BY JtagAssumption
<1>2. ToSlot(b + 1) = IF b + 1 = BUF_LEN THEN 0 ELSE b + 1
  BY <1>1, ToSlotIs DEF JSlot
<1> QED
  BY <1>1, <1>2 DEF Span, JSlot

\* One end moves by n slots, not past the other.
LEMMA SpanMoves ==
  ASSUME NEW a \in JSlot, NEW b \in JSlot, NEW n \in Nat
  PROVE  /\ b + n <= BUF_LEN /\ Span(a, b) + n < BUF_LEN =>
              Span(a, ToSlot(b + n)) = Span(a, b) + n
         /\ a + n <= BUF_LEN =>
              Span(ToSlot(a + n), b) =
                IF Span(a, b) >= n THEN Span(a, b) - n ELSE Span(a, b) - n + BUF_LEN
<1>1. BUF_LEN \in Nat /\ BUF_LEN > 1
  BY JtagAssumption
<1>2. ASSUME b + n <= BUF_LEN, Span(a, b) + n < BUF_LEN
      PROVE  Span(a, ToSlot(b + n)) = Span(a, b) + n
  <2>1. ToSlot(b + n) = IF b + n = BUF_LEN THEN 0 ELSE b + n
    BY <1>1, <1>2, ToSlotIs DEF JSlot
  <2> QED
    BY <1>1, <1>2, <2>1 DEF Span, JSlot
<1>3. ASSUME a + n <= BUF_LEN
      PROVE  Span(ToSlot(a + n), b) =
               IF Span(a, b) >= n THEN Span(a, b) - n ELSE Span(a, b) - n + BUF_LEN
  <2>1. ToSlot(a + n) = IF a + n = BUF_LEN THEN 0 ELSE a + n
    BY <1>1, <1>3, ToSlotIs DEF JSlot
  <2> QED
    BY <1>1, <1>3, <2>1 DEF Span, JSlot
<1> QED
  BY <1>2, <1>3

\* The sequence holds from + 1, from + 2, ...
Counts(q, from) == q \in Seq(Nat) /\ \A k \in 1..Len(q) : q[k] = from + k

LEMMA CountsTail ==
  ASSUME NEW q, NEW from \in Nat, Counts(q, from), q # <<>>
  PROVE  Head(q) = from + 1 /\ Counts(Tail(q), from + 1) /\ Len(Tail(q)) = Len(q) - 1
<1>1. q \in Seq(Nat) /\ Len(q) \in Nat /\ Len(q) > 0
  BY DEF Counts
<1>2. Tail(q) \in Seq(Nat) /\ Len(Tail(q)) = Len(q) - 1 /\ Head(q) = q[1]
  BY <1>1
<1>3. \A k \in 1..(Len(q) - 1) : Tail(q)[k] = q[k + 1]
  BY <1>1
<1> QED
  BY <1>1, <1>2, <1>3 DEF Counts

LEMMA CountsAppend ==
  ASSUME NEW q, NEW from \in Nat, Counts(q, from), NEW e, e = from + Len(q) + 1
  PROVE  Counts(Append(q, e), from) /\ Len(Append(q, e)) = Len(q) + 1
<1>1. q \in Seq(Nat) /\ Len(q) \in Nat /\ e \in Nat
  BY DEF Counts
<1>2. /\ Append(q, e) \in Seq(Nat) /\ Len(Append(q, e)) = Len(q) + 1
      /\ \A k \in 1..Len(q) : Append(q, e)[k] = q[k]
      /\ Append(q, e)[Len(q) + 1] = e
  BY <1>1
<1> QED
  BY <1>1, <1>2 DEF Counts

\* Characters in the transmit buffer: a piece that is copied but not yet published counts.
Piece    == IF jc.pc = "w_publish" THEN jc.n ELSE 0
Buffered == Span(js.tx_out, js.tx_in) + Piece

OutFields ==
  /\ js.tx_in \in JSlot /\ js.tx_out \in JSlot
  /\ jo.sent \in Nat /\ jo.written \in Nat
  /\ jc.pc \in {"w_sample", "w_copy", "w_publish", "w_kick", "w_wait", "w_host"} => jc.count \in Nat

\* The piece a write works on lies between the ends of the buffer without turning round
\* its end, and leaves one slot free.
PieceFits ==
  jc.pc \in {"w_copy", "w_publish"} =>
    /\ jc.n \in Nat /\ jc.n > 0 /\ jc.n <= jc.count
    /\ jc.in = js.tx_in /\ jc.in + jc.n <= BUF_LEN
    /\ Span(js.tx_out, js.tx_in) + jc.n < BUF_LEN

\* FIFO and buffer hold, in this order, the characters that follow the last one the host
\* took, and no others have been written.
OutChain ==
  /\ Counts(jd.wfifo, jo.sent)
  /\ \A s \in JSlot : Span(js.tx_out, s) < Buffered =>
       js.tx_buf[s] = jo.sent + Len(jd.wfifo) + Span(js.tx_out, s) + 1
  /\ jo.written = jo.sent + Len(jd.wfifo) + Buffered

OutInv == OutFields /\ PieceFits /\ OutChain

\* A step that moves no character.
LEMMA OutRests ==
  ASSUME OutInv, OutFields', PieceFits', Piece' = Piece,
         js'.tx_in = js.tx_in, js'.tx_out = js.tx_out, js'.tx_buf = js.tx_buf,
         jd'.wfifo = jd.wfifo, jo'.sent = jo.sent, jo'.written = jo.written
  PROVE  OutInv'
BY DEF OutInv, OutChain, Buffered

LEMMA OutHost ==
  ASSUME JtagFields, OutInv, Host \/ JtagTimeout
  PROVE  OutInv' /\ (jo'.sent # jo.sent => jo'.sent = jo.sent + 1)
<1>0. UNCHANGED jc /\ (OutFields' /\ js'.tx_in = js.tx_in /\ js'.tx_out = js.tx_out => PieceFits')
  BY DEF Host, HostMoves, HostSends, HostPauses, HostTakes, JtagTimeout, OutInv, PieceFits
<1>1. CASE HostMoves \/ HostSends \/ HostPauses \/ JtagTimeout
  <2>1. /\ js'.tx_in = js.tx_in /\ js'.tx_out = js.tx_out /\ js'.tx_buf = js.tx_buf
        /\ jd'.wfifo = jd.wfifo /\ jo'.sent = jo.sent /\ jo'.written = jo.written
    BY <1>1 DEF HostMoves, HostSends, HostPauses, JtagTimeout, JtagFields
  <2>2. OutFields' /\ Piece' = Piece
    BY <1>0, <2>1 DEF OutInv, OutFields, Piece
  <2> QED
    BY <1>0, <2>1, <2>2, OutRests
<1>2. CASE HostTakes
  <2>1. /\ UNCHANGED js /\ jd'.wfifo = Tail(jd.wfifo) /\ jd.wfifo # <<>>
        /\ jo'.sent = Head(jd.wfifo) /\ jo'.written = jo.written
    BY <1>2 DEF HostTakes, JtagFields
  <2>2. jo.sent \in Nat /\ Counts(jd.wfifo, jo.sent) /\ Len(jd.wfifo) \in Nat
    BY DEF OutInv, OutFields, OutChain, Counts
  <2>3. /\ jo'.sent = jo.sent + 1 /\ Counts(jd'.wfifo, jo'.sent)
        /\ Len(jd'.wfifo) = Len(jd.wfifo) - 1
    BY <2>1, <2>2, CountsTail
  <2>4. jo'.sent \in Nat /\ jo'.sent + Len(jd'.wfifo) = jo.sent + Len(jd.wfifo)
    BY <2>2, <2>3
  <2>5. OutFields' /\ PieceFits'
    BY <1>0, <2>1, <2>4 DEF OutInv, OutFields
  <2>6. Buffered' = Buffered
    BY <1>0, <2>1 DEF Buffered, Piece
  <2>7. OutChain'
    BY <2>1, <2>3, <2>4, <2>6 DEF OutInv, OutChain
  <2> QED
    BY <2>3, <2>5, <2>7 DEF OutInv
<1> QED
  BY <1>1, <1>2 DEF Host

LEMMA OutHandler ==
  ASSUME JtagFields, OutInv, JtagHandler
  PROVE  OutInv' /\ jo' = jo
<1>0. UNCHANGED <<jc, jo>>
  BY DEF JtagHandler
<1>1. CASE jtag_Enter \/ jtag_Control \/ jtag_RxFull \/ jtag_RxData \/ jtag_RxEnd \/ jtag_TxEnd
  <2>1. /\ js'.tx_in = js.tx_in /\ js'.tx_out = js.tx_out /\ js'.tx_buf = js.tx_buf
        /\ jd'.wfifo = jd.wfifo
    BY <1>1
    DEF jtag_Enter, jtag_Control, jtag_RxFull, jtag_RxData, jtag_RxEnd, jtag_TxEnd, JtagFields
  <2>2. OutFields' /\ PieceFits' /\ Piece' = Piece
    BY <1>0, <2>1 DEF OutInv, OutFields, PieceFits, Piece
  <2> QED
    BY <1>0, <2>1, <2>2, OutRests
<1>2. CASE jtag_TxData
  <2> DEFINE a == js.tx_out
             b == js.tx_in
             e == js.tx_buf[a]
  <2>1. /\ a # b /\ js'.tx_out = ToSlot(a + 1) /\ js'.tx_in = b /\ js'.tx_buf = js.tx_buf
        /\ jd'.wfifo = Append(jd.wfifo, e)
    BY <1>2 DEF jtag_TxData, JtagFields
  <2>2. a \in JSlot /\ b \in JSlot /\ jo.sent \in Nat /\ Len(jd.wfifo) \in Nat
    BY DEF OutInv, OutFields, OutChain, Counts
  <2>3. a + 1 \in Int /\ a + 1 <= BUF_LEN /\ BUF_LEN \in Nat
    BY <2>2, JtagAssumption DEF JSlot
  <2>4. ToSlot(a + 1) \in JSlot
    BY <2>3, SlotRemainder
  <2>5. ASSUME NEW s \in JSlot
        PROVE  /\ Span(a, s) \in 0..(BUF_LEN - 1)
               /\ Span(ToSlot(a + 1), s) =
                    IF Span(a, s) >= 1 THEN Span(a, s) - 1 ELSE Span(a, s) - 1 + BUF_LEN
    <3>1. Span(a, s) \in JSlot
      BY <2>2, SpanIs
    <3>2. 1 \in Nat
      OBVIOUS
    <3>3. Span(ToSlot(a + 1), s) =
            IF Span(a, s) >= 1 THEN Span(a, s) - 1 ELSE Span(a, s) - 1 + BUF_LEN
      BY <2>2, <2>3, <3>2, SpanMoves
    <3> QED
      BY <3>1, <3>3 DEF JSlot
  <2>6. Span(a, b) >= 1 /\ Span(a, b) \in Nat
    <3>1. Span(a, b) \in JSlot /\ Span(a, b) # 0
      BY <2>1, <2>2, SpanIs
    <3> QED
      BY <3>1 DEF JSlot
  <2>7. Piece \in Nat /\ Piece' = Piece
    BY <1>0 DEF Piece, OutInv, PieceFits
  <2>8. Buffered' = Buffered - 1 /\ Buffered \in Nat /\ Buffered > 0
    BY <2>1, <2>2, <2>5, <2>6, <2>7 DEF Buffered
  <2>9. Buffered < BUF_LEN
    <3>1. CASE jc.pc = "w_publish"
      BY <3>1 DEF OutInv, PieceFits, Buffered, Piece
    <3>2. CASE jc.pc # "w_publish"
      BY <2>2, <2>3, <2>5, <3>2 DEF Buffered, Piece
    <3> QED
      BY <3>1, <3>2
  <2>10. e = jo.sent + Len(jd.wfifo) + 1
    <3>1. Span(a, a) = 0
      BY <2>2, SpanIs
    <3> QED
      BY <2>2, <2>8, <3>1 DEF OutInv, OutChain
  <2> HIDE DEF e
  <2>11. Counts(jd'.wfifo, jo.sent) /\ Len(jd'.wfifo) = Len(jd.wfifo) + 1
    <3>1. Counts(jd.wfifo, jo.sent)
      BY DEF OutInv, OutChain
    <3> QED
      BY <2>1, <2>2, <2>10, <3>1, CountsAppend
  <2>12. ASSUME NEW s \in JSlot, Span(ToSlot(a + 1), s) < Buffered'
         PROVE  js.tx_buf[s] = jo.sent + Len(jd'.wfifo) + Span(ToSlot(a + 1), s) + 1
    <3>1. Span(a, s) \in 0..(BUF_LEN - 1) /\ Span(a, s) >= 1
      BY <2>3, <2>5, <2>8, <2>9, <2>12
    <3>2. Span(ToSlot(a + 1), s) = Span(a, s) - 1
      BY <2>5, <3>1
    <3>3. Span(a, s) < Buffered
      BY <2>8, <2>12, <3>1, <3>2
    <3>4. js.tx_buf[s] = jo.sent + Len(jd.wfifo) + Span(a, s) + 1
      BY <3>3 DEF OutInv, OutChain
    <3>5. Len(jd'.wfifo) + Span(ToSlot(a + 1), s) = Len(jd.wfifo) + Span(a, s)
      BY <2>2, <2>11, <3>1, <3>2
    <3> QED
      BY <2>2, <2>11, <3>1, <3>2, <3>4, <3>5
  <2>13. jo.written = jo.sent + Len(jd'.wfifo) + Buffered'
    BY <2>2, <2>8, <2>11 DEF OutInv, OutChain
  <2>14. OutChain'
    BY <1>0, <2>1, <2>11, <2>12, <2>13 DEF OutChain
  <2>15. OutFields'
    BY <1>0, <2>1, <2>4 DEF OutInv, OutFields
  <2>16. Span(js'.tx_out, js'.tx_in) = Span(a, b) - 1
    BY <2>1, <2>2, <2>5, <2>6
  <2>17. PieceFits'
    BY <1>0, <2>1, <2>3, <2>6, <2>16 DEF OutInv, PieceFits
  <2> QED
    BY <1>0, <2>14, <2>15, <2>17 DEF OutInv
<1> QED
  BY <1>0, <1>1, <1>2 DEF JtagHandler

\* The slots a piece fills are those that follow the characters already there.
LEMMA SpanOfPiece ==
  ASSUME NEW a \in JSlot, NEW b \in JSlot, NEW s \in JSlot, NEW n \in Nat,
         b + n <= BUF_LEN, Span(a, b) + n < BUF_LEN
  PROVE  /\ s \in b..(b + n - 1) => Span(a, s) = Span(a, b) + s - b
         /\ s \notin b..(b + n - 1) /\ Span(a, s) < Span(a, b) + n => Span(a, s) < Span(a, b)
BY JtagAssumption DEF Span, JSlot

\* The room found leaves one slot free.
LEMMA RoomFits ==
  ASSUME NEW in \in JSlot, NEW out \in JSlot, NEW count \in Nat,
         NEW n, n = Least(jw_Room(in, out), count), n # 0
  PROVE  n \in Nat /\ n > 0 /\ n <= count /\ in + n <= BUF_LEN /\ Span(out, in) + n < BUF_LEN
<1>1. BUF_LEN \in Nat /\ in \in 0..(BUF_LEN - 1) /\ out \in 0..(BUF_LEN - 1)
  BY JtagAssumption DEF JSlot
<1>2. CASE in < out
  <2>1. jw_Room(in, out) = out - 1 - in
    BY <1>1, <1>2 DEF jw_Room
  <2> QED
    BY <1>1, <1>2, <2>1 DEF Least, Span
<1>3. CASE in >= out /\ out > 0
  <2>1. jw_Room(in, out) = BUF_LEN - in
    BY <1>1, <1>3 DEF jw_Room
  <2> QED
    BY <1>1, <1>3, <2>1 DEF Least, Span
<1>4. CASE in >= out /\ out = 0
  <2>1. jw_Room(in, out) = BUF_LEN - 1 - in
    BY <1>1, <1>4 DEF jw_Room
  <2> QED
    BY <1>1, <1>4, <2>1 DEF Least, Span
<1> QED
  BY <1>1, <1>2, <1>3, <1>4

LEMMA OutProgram ==
  ASSUME JtagFields, OutInv, Program
  PROVE  OutInv' /\ jo'.sent = jo.sent
<1>1. CASE jw_Copy
  <2> DEFINE a == js.tx_out
             b == js.tx_in
             n == jc.n
  <2>1. /\ jc.pc = "w_copy" /\ jc' = [jc EXCEPT !.pc = "w_publish"] /\ UNCHANGED jd
        /\ js'.tx_in = b /\ js'.tx_out = a
        /\ js'.tx_buf = [s \in JSlot |-> IF s \in jc.in..(jc.in + n - 1)
                                          THEN jo.written + 1 + s - jc.in ELSE js.tx_buf[s]]
        /\ jo'.written = jo.written + n /\ jo'.sent = jo.sent
    BY <1>1 DEF jw_Copy, JtagFields
  <2>2. /\ jc'.pc = "w_publish" /\ jc'.n = n /\ jc'.in = jc.in /\ jc'.count = jc.count
    BY <2>1 DEF JtagFields
  <2>3. /\ a \in JSlot /\ b \in JSlot /\ n \in Nat /\ jc.in = b
        /\ b + n <= BUF_LEN /\ Span(a, b) + n < BUF_LEN
        /\ jo.sent \in Nat /\ jo.written \in Nat /\ Len(jd.wfifo) \in Nat
    BY <2>1 DEF OutInv, OutFields, PieceFits, OutChain, Counts
  <2>4. OutFields' /\ PieceFits'
    BY <2>1, <2>2, <2>3 DEF OutInv, OutFields, PieceFits
  <2>5. Span(a, b) \in Nat
    <3>1. Span(a, b) \in JSlot
      BY <2>3, SpanIs
    <3> QED
      BY <3>1 DEF JSlot
  <2>6. Buffered = Span(a, b) /\ Buffered' = Span(a, b) + n
    BY <2>1, <2>2, <2>3, <2>5 DEF Buffered, Piece
  <2>7. jo.written = jo.sent + Len(jd.wfifo) + Span(a, b)
    BY <2>6 DEF OutInv, OutChain
  <2>8. ASSUME NEW s \in JSlot, Span(a, s) < Span(a, b) + n
        PROVE  js'.tx_buf[s] = jo.sent + Len(jd.wfifo) + Span(a, s) + 1
    <3>1. CASE s \in b..(b + n - 1)
      <4>1. Span(a, s) = Span(a, b) + s - b
        BY <2>3, <3>1, SpanOfPiece
      <4>2. js'.tx_buf[s] = jo.written + 1 + s - b /\ s \in Int /\ b \in Int
        BY <2>1, <2>3, <3>1 DEF JSlot
      <4>3. \A x, y, z, i, j \in Int : (x + y + z) + 1 + i - j = x + y + (z + i - j) + 1
        OBVIOUS
      <4>4. /\ jo.sent \in Int /\ Len(jd.wfifo) \in Int /\ Span(a, b) \in Int
            /\ js'.tx_buf[s] = (jo.sent + Len(jd.wfifo) + Span(a, b)) + 1 + s - b
        BY <2>3, <2>5, <2>7, <4>2
      <4> QED
        BY <4>1, <4>2, <4>3, <4>4
    <3>2. CASE s \notin b..(b + n - 1)
      <4>1. Span(a, s) < Span(a, b)
        BY <2>3, <2>8, <3>2, SpanOfPiece
      <4>2. js'.tx_buf[s] = js.tx_buf[s]
        BY <2>1, <2>3, <3>2
      <4> QED
        BY <2>6, <4>1, <4>2 DEF OutInv, OutChain
    <3> QED
      BY <3>1, <3>2
  <2>9. jo'.written = jo'.sent + Len(jd'.wfifo) + Buffered'
    BY <2>1, <2>3, <2>5, <2>6, <2>7
  <2>10. OutChain'
    BY <2>1, <2>6, <2>8, <2>9 DEF OutInv, OutChain
  <2> QED
    BY <2>1, <2>4, <2>10 DEF OutInv
<1>2. CASE jw_Publish
  <2> DEFINE a == js.tx_out
             b == js.tx_in
             n == jc.n
  <2>1. /\ jc.pc = "w_publish" /\ UNCHANGED <<jd, jo>>
        /\ js'.tx_in = ToSlot(jc.in + n) /\ js'.tx_out = a /\ js'.tx_buf = js.tx_buf
        /\ jc'.count = jc.count - n /\ jc'.pc \in {"w_kick", "w_sample"}
    BY <1>2 DEF jw_Publish, JtagFields
  <2>2. /\ a \in JSlot /\ b \in JSlot /\ n \in Nat /\ jc.in = b /\ jc.count \in Nat /\ n <= jc.count
        /\ b + n <= BUF_LEN /\ Span(a, b) + n < BUF_LEN
    BY <2>1 DEF OutInv, OutFields, PieceFits
  <2>3. ToSlot(b + n) \in JSlot /\ jc'.count \in Nat
    <3>1. b + n \in Int
      BY <2>2 DEF JSlot
    <3> QED
      BY <2>1, <2>2, <3>1, SlotRemainder
  <2>4. OutFields' /\ PieceFits'
    BY <2>1, <2>2, <2>3 DEF OutInv, OutFields, PieceFits
  <2>5. Span(a, ToSlot(b + n)) = Span(a, b) + n /\ Span(a, b) \in Nat
    <3>1. Span(a, b) \in JSlot
      BY <2>2, SpanIs
    <3>2. Span(a, ToSlot(b + n)) = Span(a, b) + n
      BY <2>2, SpanMoves
    <3> QED
      BY <3>1, <3>2 DEF JSlot
  <2>6. Buffered' = Buffered
    BY <2>1, <2>2, <2>5 DEF Buffered, Piece
  <2>7. OutChain'
    BY <2>1, <2>6 DEF OutInv, OutChain
  <2> QED
    BY <2>1, <2>4, <2>7 DEF OutInv
<1>3. CASE ~jw_Copy /\ ~jw_Publish
  <2>1. /\ js'.tx_in = js.tx_in /\ js'.tx_out = js.tx_out /\ js'.tx_buf = js.tx_buf
        /\ jd'.wfifo = jd.wfifo /\ jo'.sent = jo.sent /\ jo'.written = jo.written
    <3>1. CASE JtagCalls
      BY <3>1 DEF JtagCalls, JtagWrite, JtagRead, JtagClose, JtagIoctl, JtagFields
    <3>2. CASE Writes
      BY <1>3, <3>2 DEF Writes, jw_Sample, jw_Kick, jw_Wait, jw_Host, jw_Return, Enable, JtagFields
    <3>3. CASE Reads \/ jtag_CloseWait
      BY <3>3
      DEF Reads, jr_Sample, jr_Copy, jr_Publish, jr_Wait, jr_More, jr_Return, jtag_CloseWait, Enable,
        JtagFields
    <3> QED
      BY <3>1, <3>2, <3>3 DEF Program, InCall
  <2>2. CASE jw_Sample
    <3> DEFINE n == Least(jw_Room(js.tx_in, js.tx_out), jc.count)
    <3>1. jc.pc = "w_sample" /\ jc.count \in Nat /\ js.tx_in \in JSlot /\ js.tx_out \in JSlot
      BY <2>2 DEF jw_Sample, OutInv, OutFields
    <3>2. /\ n = 0 => jc'.pc = "w_kick" /\ jc'.count = jc.count
          /\ n # 0 => jc'.pc = "w_copy" /\ jc'.count = jc.count /\ jc'.n = n
                        /\ jc'.in = js.tx_in
      BY <2>2 DEF jw_Sample, JtagFields
    <3>3. n # 0 => n \in Nat /\ n > 0 /\ n <= jc.count /\ js.tx_in + n <= BUF_LEN
                    /\ Span(js.tx_out, js.tx_in) + n < BUF_LEN
      BY <3>1, RoomFits
    <3> HIDE DEF n
    <3>4. OutFields' /\ PieceFits' /\ Piece' = Piece
      BY <2>1, <3>1, <3>2, <3>3 DEF OutInv, OutFields, PieceFits, Piece
    <3> QED
      BY <2>1, <3>4, OutRests
  <2>3. CASE ~jw_Sample
    <3>1. /\ jc.pc \notin {"w_copy", "w_publish"} /\ jc'.pc \notin {"w_copy", "w_publish"}
          /\ jc'.pc \in {"w_sample", "w_kick", "w_wait", "w_host"} => jc'.count \in Nat
      <4>1. CASE JtagCalls
        <5>1. CASE JtagWrite
          BY <5>1 DEF JtagWrite, NoCall
        <5>2. CASE JtagRead \/ JtagClose
          BY <5>2 DEF JtagRead, JtagClose, NoCall
        <5>3. CASE JtagIoctl
          BY <5>3 DEF JtagIoctl
        <5> QED
          BY <4>1, <5>1, <5>2, <5>3 DEF JtagCalls
      <4>2. CASE Writes
        BY <1>3, <2>3, <4>2
        DEF Writes, jw_Kick, jw_Wait, jw_Host, jw_Return, NoCall, JtagFields, OutInv, OutFields
      <4>3. CASE Reads \/ jtag_CloseWait
        <5>1. CASE jr_Sample
          <6> DEFINE n == Least(jr_Ready(js.rx_in, js.rx_out), jc.count)
          <6>1. CASE n > 0
            BY <5>1, <6>1 DEF jr_Sample, JtagFields
          <6>2. CASE ~(n > 0)
            BY <5>1, <6>2 DEF jr_Sample, JtagFields
          <6> QED
            BY <6>1, <6>2
        <5>2. CASE jr_Wait \/ jr_More
          BY <5>2 DEF jr_Wait, jr_More, JtagFields
        <5>3. CASE jr_Copy \/ jr_Publish
          BY <5>3 DEF jr_Copy, jr_Publish, JtagFields
        <5>4. CASE jr_Return \/ jtag_CloseWait
          BY <5>4 DEF jr_Return, jtag_CloseWait, NoCall
        <5> QED
          BY <4>3, <5>1, <5>2, <5>3, <5>4 DEF Reads
      <4> QED
        BY <4>1, <4>2, <4>3 DEF Program, InCall
    <3>2. OutFields' /\ PieceFits' /\ Piece' = Piece
      BY <2>1, <3>1 DEF OutInv, OutFields, PieceFits, Piece
    <3> QED
      BY <2>1, <3>2, OutRests
  <2> QED
    BY <2>1, <2>2, <2>3
<1> QED
  BY <1>1, <1>2, <1>3

\* At the start nothing is on its way to the host.
LEMMA OutInvInit ==
  JtagInit => JtagFields /\ OutInv
<1> SUFFICES ASSUME JtagInit PROVE JtagFields /\ OutInv
  OBVIOUS
<1>1. JtagFields
  BY DEF JtagInit, NoCall, NoIrq, JtagFields
<1>2. OutFields /\ PieceFits /\ Piece = 0
  BY JtagAssumption DEF JtagInit, NoCall, JSlot, OutFields, PieceFits, Piece
<1>3. Buffered = 0 /\ js.tx_out = 0 /\ jd.wfifo = <<>> /\ jo.sent = 0 /\ jo.written = 0
  BY <1>2 DEF JtagInit, Buffered, Span
<1>4. \A s \in JSlot : ~(Span(js.tx_out, s) < Buffered)
  BY <1>3 DEF Span, JSlot
<1>5. Counts(<<>>, 0)
  BY DEF Counts
<1> QED
  BY <1>1, <1>2, <1>3, <1>4, <1>5 DEF OutInv, OutChain

\* Every step keeps what is on its way in order, and the host takes the next character.
LEMMA OutInvStep ==
  JtagFields /\ OutInv /\ [JtagNext]_jtagVars
    => OutInv' /\ [jo'.sent # jo.sent => jo'.sent = jo.sent + 1]_jtagVars
<1>1. OutInv /\ UNCHANGED jtagVars => OutInv'
  BY DEF jtagVars, OutInv, OutFields, PieceFits, OutChain, Buffered, Piece
<1> QED
  BY <1>1, OutHost, OutHandler, OutProgram DEF JtagNext

\* The host gets what the program wrote, in order and once, whatever the length of the
\* buffer and of the pieces written (altera_avalon_jtag_uart_write.c:99-123,
\* altera_avalon_jtag_uart_init.c:175-185).
THEOREM JtagInOrder == JtagSpec => JtagOutInOrder
<1>1. JtagFields /\ [JtagNext]_jtagVars => JtagFields'
  BY FieldsKept
<1> QED
  BY OutInvInit, <1>1, OutInvStep, PTL DEF JtagSpec, JtagOutInOrder

\* Characters a read has copied and not yet given back their room, and the last one whose
\* room is given back.
Taken == IF jc.pc = "r_publish" THEN jc.n ELSE 0
Freed == jo.read - Taken

InFields ==
  /\ jo.read \in Nat /\ jo.came \in Nat /\ Freed \in Nat /\ DOMAIN js.rx_buf = JSlot
  /\ jc.pc \in {"r_sample", "r_copy", "r_publish", "r_wait", "r_more"} => jc.count \in Nat

\* The piece a read works on starts where the characters do and does not turn round the
\* end of the buffer.
PieceThere ==
  jc.pc \in {"r_copy", "r_publish"} =>
    /\ jc.n \in Nat /\ jc.n > 0 /\ jc.n <= jc.count
    /\ jc.out = js.rx_out /\ jc.out + jc.n <= BUF_LEN
    /\ jc.n <= Span(js.rx_out, js.rx_in)

\* Buffer and FIFO hold, in this order, the characters that follow the last one freed, up
\* to the last one that came.
InChain ==
  LET lying == Span(js.rx_out, js.rx_in)
  IN /\ \A s \in JSlot : Span(js.rx_out, s) < lying =>
          js.rx_buf[s] = Freed + Span(js.rx_out, s) + 1
     /\ Counts(jd.rfifo, Freed + lying)
     /\ jo.came = Freed + lying + Len(jd.rfifo)

InInv == InFields /\ PieceThere /\ InChain

\* A step that moves no character.
LEMMA InRests ==
  ASSUME InInv, Freed' = Freed, PieceThere',
         jc'.pc \in {"r_sample", "r_copy", "r_publish", "r_wait", "r_more"} => jc'.count \in Nat,
         js'.rx_in = js.rx_in, js'.rx_out = js.rx_out, js'.rx_buf = js.rx_buf,
         jd'.rfifo = jd.rfifo, jo'.came = jo.came, jo'.read = jo.read
  PROVE  InInv'
BY DEF InInv, InFields, InChain

LEMMA InHost ==
  ASSUME JtagFields, JtagNumbers, InInv, Host \/ JtagTimeout
  PROVE  InInv' /\ jc' = jc
<1>0. /\ UNCHANGED jc /\ js'.rx_in = js.rx_in /\ js'.rx_out = js.rx_out /\ js'.rx_buf = js.rx_buf
      /\ jo'.read = jo.read
  BY DEF Host, HostMoves, HostSends, HostPauses, HostTakes, JtagTimeout, JtagFields
<1>1. Freed' = Freed /\ PieceThere'
      /\ (jc'.pc \in {"r_sample", "r_copy", "r_publish", "r_wait", "r_more"} => jc'.count \in Nat)
  BY <1>0 DEF InInv, InFields, PieceThere, Freed, Taken
<1>2. CASE HostMoves \/ HostPauses \/ HostTakes \/ JtagTimeout
  <2>1. jd'.rfifo = jd.rfifo /\ jo'.came = jo.came
    BY <1>2 DEF HostMoves, HostPauses, HostTakes, JtagTimeout, JtagFields
  <2> QED
    BY <1>0, <1>1, <2>1, InRests
<1>3. CASE HostSends
  <2> DEFINE lying == Span(js.rx_out, js.rx_in)
  <2>0. jo'.came = jo.came + 1
    BY <1>3 DEF HostSends, JtagFields
  <2>1. jd'.rfifo = Append(jd.rfifo, jo.came + 1)
    BY <1>3 DEF HostSends, JtagFields
  <2>2. /\ Freed \in Nat /\ lying \in Nat /\ jo.came \in Nat
        /\ Counts(jd.rfifo, Freed + lying) /\ Len(jd.rfifo) \in Nat
        /\ jo.came = Freed + lying + Len(jd.rfifo)
    <3>1. lying \in JSlot
      BY SpanIs DEF JtagNumbers
    <3>2. Counts(jd.rfifo, Freed + lying) /\ jo.came = Freed + lying + Len(jd.rfifo)
      BY DEF InInv, InChain
    <3>3. Len(jd.rfifo) \in Nat
      BY <3>2 DEF Counts
    <3> QED
      BY <3>1, <3>2, <3>3 DEF JSlot, InInv, InFields
  <2>3. Counts(jd'.rfifo, Freed + lying) /\ Len(jd'.rfifo) = Len(jd.rfifo) + 1
    <3> DEFINE from == Freed + lying
               e    == jo.came + 1
    <3>1. from \in Nat /\ Counts(jd.rfifo, from) /\ e = from + Len(jd.rfifo) + 1
      BY <2>2
    <3>2. jd'.rfifo = Append(jd.rfifo, e)
      BY <2>1
    <3> HIDE DEF from, e
    <3>3. Counts(jd'.rfifo, from) /\ Len(jd'.rfifo) = Len(jd.rfifo) + 1
      BY <3>1, <3>2, CountsAppend
    <3> QED
      BY <3>3 DEF from
  <2>4. jo'.came = Freed + lying + Len(jd'.rfifo) /\ jo'.came \in Nat
    <3>1. Len(jd'.rfifo) = Len(jd.rfifo) + 1
      BY <2>3
    <3>2. Freed \in Nat /\ lying \in Nat /\ Len(jd.rfifo) \in Nat
      BY <2>2
    <3>3. jo.came = Freed + lying + Len(jd.rfifo) /\ jo.came \in Nat
      BY <2>2
    <3>4. \A x, y, z \in Nat : x + y + z + 1 = x + y + (z + 1)
      OBVIOUS
    <3>5. jo'.came = Freed + lying + Len(jd.rfifo) + 1 /\ jo'.came \in Nat
      BY <2>0, <3>3
    <3> QED
      BY <3>1, <3>2, <3>4, <3>5
  <2>5. InChain'
    BY <1>0, <1>1, <2>3, <2>4 DEF InInv, InChain
  <2> QED
    BY <1>0, <1>1, <2>4, <2>5 DEF InInv, InFields
<1> QED
  BY <1>0, <1>2, <1>3 DEF Host

LEMMA InHandler ==
  ASSUME JtagFields, JtagNumbers, InInv, JtagHandler
  PROVE  InInv' /\ jc' = jc
<1>0. UNCHANGED <<jc, jo>> /\ Freed' = Freed
      /\ (jc'.pc \in {"r_sample", "r_copy", "r_publish", "r_wait", "r_more"} => jc'.count \in Nat)
  BY DEF JtagHandler, InInv, InFields, Freed, Taken
<1>1. CASE ~(jtag_RxData /\ jd.rfifo # <<>>)
  <2>1. /\ js'.rx_in = js.rx_in /\ js'.rx_out = js.rx_out /\ js'.rx_buf = js.rx_buf
        /\ jd'.rfifo = jd.rfifo
    BY <1>1
    DEF JtagHandler, jtag_Enter, jtag_Control, jtag_RxFull, jtag_RxData, jtag_RxEnd, jtag_TxData,
      jtag_TxEnd, JtagFields
  <2>2. PieceThere'
    BY <1>0, <2>1 DEF InInv, PieceThere
  <2> QED
    BY <1>0, <2>1, <2>2, InRests
<1>2. CASE jtag_RxData /\ jd.rfifo # <<>>
  <2> DEFINE a == js.rx_out
             b == js.rx_in
             e == Head(jd.rfifo)
             lying == Span(a, b)
  <2>1. /\ ToSlot(b + 1) # a /\ js'.rx_in = ToSlot(b + 1) /\ js'.rx_out = a
        /\ js'.rx_buf = [js.rx_buf EXCEPT ![b] = e] /\ jd'.rfifo = Tail(jd.rfifo)
    BY <1>2 DEF jtag_RxData, JtagFields
  <2>2. /\ a \in JSlot /\ b \in JSlot /\ lying \in Nat /\ Freed \in Nat /\ 1 \in Nat
        /\ Counts(jd.rfifo, Freed + lying) /\ Len(jd.rfifo) \in Nat
        /\ jo.came = Freed + lying + Len(jd.rfifo)
    <3>1. a \in JSlot /\ b \in JSlot /\ lying \in JSlot
      BY SpanIs DEF JtagNumbers
    <3>2. Counts(jd.rfifo, Freed + lying) /\ jo.came = Freed + lying + Len(jd.rfifo)
      BY DEF InInv, InChain
    <3>3. Len(jd.rfifo) \in Nat
      BY <3>2 DEF Counts
    <3> QED
      BY <3>1, <3>2, <3>3 DEF JSlot, InInv, InFields
  <2>3. /\ e = Freed + lying + 1 /\ Counts(Tail(jd.rfifo), Freed + lying + 1)
        /\ Len(Tail(jd.rfifo)) = Len(jd.rfifo) - 1
    <3>1. Freed + lying \in Nat
      BY <2>2
    <3> QED
      BY <1>2, <2>2, <3>1, CountsTail
  <2> HIDE DEF e
  <2>4. b + 1 <= BUF_LEN /\ lying + 1 < BUF_LEN
    <3>1. b + 1 <= BUF_LEN
      BY <2>2, JtagAssumption DEF JSlot
    <3>2. lying + 1 < BUF_LEN
      BY <2>1, <2>2, SpanIs
    <3> QED
      BY <3>1, <3>2
  <2>5. Span(a, ToSlot(b + 1)) = lying + 1
    BY <2>2, <2>4, SpanMoves
  <2>6. ASSUME NEW s \in JSlot, Span(a, s) < lying + 1
        PROVE  js'.rx_buf[s] = Freed + Span(a, s) + 1
    <3>1. CASE s = b
      BY <2>1, <2>2, <2>3, <3>1 DEF InInv, InFields
    <3>2. CASE s # b
      <4>1. s \notin b..(b + 1 - 1)
        BY <2>2, <3>2 DEF JSlot
      <4>2. Span(a, s) < lying
        BY <2>2, <2>4, <2>6, <4>1, SpanOfPiece
      <4> QED
        BY <2>1, <3>2, <4>2 DEF InInv, InChain
    <3> QED
      BY <3>1, <3>2
  <2>7. jo.came = Freed + (lying + 1) + Len(jd'.rfifo) /\ Freed + (lying + 1) = Freed + lying + 1
    BY <2>1, <2>2, <2>3
  <2>8. InChain'
    BY <1>0, <2>1, <2>3, <2>5, <2>6, <2>7 DEF InChain
  <2>9. InFields' /\ PieceThere'
    BY <1>0, <2>1, <2>2, <2>5 DEF InInv, InFields, PieceThere
  <2> QED
    BY <1>0, <2>8, <2>9 DEF InInv
<1> QED
  BY <1>0, <1>1, <1>2

\* The characters found lie there, in one piece.
LEMMA ReadyThere ==
  ASSUME NEW in \in JSlot, NEW out \in JSlot, NEW count \in Nat,
         NEW n, n = Least(jr_Ready(in, out), count), n > 0
  PROVE  n \in Nat /\ n <= count /\ out + n <= BUF_LEN /\ n <= Span(out, in)
<1>1. BUF_LEN \in Nat /\ in \in 0..(BUF_LEN - 1) /\ out \in 0..(BUF_LEN - 1)
  BY JtagAssumption DEF JSlot
<1>2. jr_Ready(in, out) = IF in >= out THEN in - out ELSE BUF_LEN - out
  BY DEF jr_Ready
<1> QED
  BY <1>1, <1>2 DEF Least, Span

LEMMA InProgram ==
  ASSUME JtagFields, JtagNumbers, InInv, Program
  PROVE  InInv' /\ (jc.pc = "r_copy" /\ jc'.pc = "r_publish" => jo'.read = jo.read + jc.n)
<1>1. CASE jr_Copy
  <2> DEFINE a == js.rx_out
             n == jc.n
             s == a + n - 1
  <2>1. /\ jc.pc = "r_copy" /\ jc'.pc = "r_publish" /\ UNCHANGED <<js, jd>>
        /\ jc'.n = n /\ jc'.out = jc.out /\ jc'.count = jc.count
        /\ jo'.read = js.rx_buf[jc.out + n - 1] /\ jo'.came = jo.came
    BY <1>1 DEF jr_Copy, JtagFields
  <2>2. /\ a \in JSlot /\ n \in Nat /\ n > 0 /\ jc.out = a /\ a + n <= BUF_LEN
        /\ n <= Span(a, js.rx_in) /\ js.rx_in \in JSlot /\ jc.count \in Nat
        /\ Span(a, js.rx_in) \in Nat /\ Freed = jo.read /\ jo.read \in Nat
    <3>1. a \in JSlot /\ js.rx_in \in JSlot /\ Span(a, js.rx_in) \in JSlot
      BY SpanIs DEF JtagNumbers
    <3>2. Freed = jo.read /\ jo.read \in Nat
      BY <2>1 DEF InInv, InFields, Freed, Taken
    <3> QED
      BY <2>1, <3>1, <3>2 DEF JSlot, InInv, InFields, PieceThere
  <2>3. s \in JSlot /\ Span(a, s) = n - 1
    BY <2>2, JtagAssumption DEF Span, JSlot
  <2>4. jo'.read = jo.read + n
    <3>1. js.rx_buf[s] = Freed + Span(a, s) + 1
      BY <2>2, <2>3 DEF InInv, InChain
    <3> QED
      BY <2>1, <2>2, <2>3, <3>1
  <2>5. Freed' = Freed /\ jo'.read \in Nat
    BY <2>1, <2>2, <2>4 DEF Freed, Taken
  <2>6. InFields' /\ PieceThere'
    BY <2>1, <2>2, <2>5 DEF InInv, InFields, PieceThere
  <2>7. InChain'
    BY <2>1, <2>5 DEF InInv, InChain
  <2> QED
    BY <2>4, <2>6, <2>7 DEF InInv
<1>2. CASE jr_Publish
  <2> DEFINE a == js.rx_out
             b == js.rx_in
             n == jc.n
             lying == Span(a, b)
  <2>1. /\ jc.pc = "r_publish" /\ UNCHANGED <<jd, jo>>
        /\ js'.rx_out = ToSlot(jc.out + n) /\ js'.rx_in = b /\ js'.rx_buf = js.rx_buf
        /\ jc'.count = jc.count - n /\ jc'.pc \in {"r_return", "r_sample"}
    BY <1>2 DEF jr_Publish, JtagFields
  <2>2. /\ a \in JSlot /\ b \in JSlot /\ n \in Nat /\ jc.out = a /\ a + n <= BUF_LEN
        /\ n <= lying /\ lying \in JSlot /\ jc.count \in Nat /\ n <= jc.count
        /\ Freed = jo.read - n /\ jo.read \in Nat /\ jo.came \in Nat /\ Freed \in Nat
    BY <2>1, SpanIs DEF JtagNumbers, InInv, InFields, PieceThere, Freed, Taken
  <2>3. ASSUME NEW s \in JSlot
        PROVE  /\ Span(a, s) \in JSlot
               /\ Span(ToSlot(a + n), s) =
                    IF Span(a, s) >= n THEN Span(a, s) - n ELSE Span(a, s) - n + BUF_LEN
    BY <2>2, SpanIs, SpanMoves
  <2>4. Freed' = Freed + n
    BY <2>1, <2>2 DEF Freed, Taken
  <2>5. Span(ToSlot(a + n), b) = lying - n
    BY <2>2, <2>3 DEF JSlot
  <2>6. ASSUME NEW s \in JSlot, Span(ToSlot(a + n), s) < lying - n
        PROVE  js.rx_buf[s] = Freed + n + Span(ToSlot(a + n), s) + 1
    <3>1. Span(a, s) \in 0..(BUF_LEN - 1) /\ lying \in 0..(BUF_LEN - 1) /\ BUF_LEN \in Nat
      BY <2>2, <2>3, JtagAssumption DEF JSlot
    <3>2. Span(a, s) >= n /\ Span(ToSlot(a + n), s) = Span(a, s) - n /\ Span(a, s) < lying
      BY <2>2, <2>3, <2>6, <3>1
    <3>3. js.rx_buf[s] = Freed + Span(a, s) + 1
      BY <3>2 DEF InInv, InChain
    <3> QED
      BY <2>2, <3>1, <3>2, <3>3
  <2>7. Freed + lying = Freed' + (lying - n) /\ lying \in Nat /\ jc'.count \in Nat /\ Freed' \in Nat
    BY <2>1, <2>2, <2>4 DEF JSlot
  <2>8. Counts(jd.rfifo, Freed + lying) /\ jo.came = Freed + lying + Len(jd.rfifo)
    BY DEF InInv, InChain
  <2>9. InChain'
    BY <2>1, <2>2, <2>4, <2>5, <2>6, <2>7, <2>8 DEF InChain
  <2>10. InFields' /\ PieceThere'
    BY <2>1, <2>2, <2>7 DEF InInv, InFields, PieceThere
  <2> QED
    BY <2>1, <2>9, <2>10 DEF InInv
<1>3. CASE ~jr_Copy /\ ~jr_Publish
  <2>1. /\ js'.rx_in = js.rx_in /\ js'.rx_out = js.rx_out /\ js'.rx_buf = js.rx_buf
        /\ jd'.rfifo = jd.rfifo /\ jo'.came = jo.came /\ jo'.read = jo.read
    <3>1. CASE JtagCalls
      BY <3>1 DEF JtagCalls, JtagWrite, JtagRead, JtagClose, JtagIoctl, JtagFields
    <3>2. CASE Writes
      BY <3>2
      DEF Writes, jw_Sample, jw_Copy, jw_Publish, jw_Kick, jw_Wait, jw_Host, jw_Return, Enable, JtagFields
    <3>3. CASE Reads \/ jtag_CloseWait
      BY <1>3, <3>3
      DEF Reads, jr_Sample, jr_Wait, jr_More, jr_Return, jtag_CloseWait, Enable, JtagFields
    <3> QED
      BY <3>1, <3>2, <3>3 DEF Program, InCall
  <2>2. CASE jr_Sample
    <3> DEFINE n == Least(jr_Ready(js.rx_in, js.rx_out), jc.count)
    <3>1. jc.pc = "r_sample" /\ jc.count \in Nat /\ js.rx_in \in JSlot /\ js.rx_out \in JSlot
      BY <2>2 DEF jr_Sample, JtagNumbers, InInv, InFields
    <3>2. /\ n > 0 => jc'.pc = "r_copy" /\ jc'.count = jc.count /\ jc'.n = n
                       /\ jc'.out = js.rx_out
          /\ ~(n > 0) => jc'.pc \in {"r_wait", "r_return"} /\ jc'.count = jc.count
      <4>1. CASE n > 0
        BY <2>2, <4>1 DEF jr_Sample, JtagFields
      <4>2. CASE ~(n > 0)
        BY <2>2, <4>2 DEF jr_Sample, JtagFields
      <4> QED
        BY <4>1, <4>2
    <3>3. n > 0 => n \in Nat /\ n <= jc.count /\ js.rx_out + n <= BUF_LEN
                    /\ n <= Span(js.rx_out, js.rx_in)
      BY <3>1, ReadyThere
    <3> HIDE DEF n
    <3>4. Freed' = Freed /\ PieceThere' /\ jc'.count \in Nat
      BY <2>1, <3>1, <3>2, <3>3 DEF Freed, Taken, PieceThere
    <3> QED
      BY <2>1, <3>1, <3>4, InRests
  <2>3. CASE ~jr_Sample
    <3>1. /\ jc.pc \notin {"r_copy", "r_publish"} /\ jc'.pc \notin {"r_copy", "r_publish"}
          /\ jc'.pc \in {"r_sample", "r_wait", "r_more"} => jc'.count \in Nat
      <4>1. CASE JtagCalls
        <5>1. CASE JtagRead
          BY <5>1, JtagAssumption DEF JtagRead, NoCall
        <5>2. CASE JtagWrite \/ JtagClose
          BY <5>2 DEF JtagWrite, JtagClose, NoCall
        <5>3. CASE JtagIoctl
          BY <5>3 DEF JtagIoctl
        <5> QED
          BY <4>1, <5>1, <5>2, <5>3 DEF JtagCalls
      <4>2. CASE jw_Sample
        <5> DEFINE n == Least(jw_Room(js.tx_in, js.tx_out), jc.count)
        <5>1. CASE n = 0
          BY <4>2, <5>1 DEF jw_Sample, JtagFields
        <5>2. CASE n # 0
          BY <4>2, <5>2 DEF jw_Sample, JtagFields
        <5> QED
          BY <5>1, <5>2
      <4>3. CASE Writes /\ ~jw_Sample
        <5>1. CASE jw_Copy \/ jw_Publish
          BY <5>1 DEF jw_Copy, jw_Publish, JtagFields
        <5>2. CASE jw_Kick
          <6>1. jc.pc = "w_kick" /\ jc'.pc = IF jc.count > 0 /\ jc.block THEN "w_wait" ELSE "w_return"
            BY <5>2 DEF jw_Kick, JtagFields
          <6> QED
            BY <6>1
        <5>3. CASE jw_Wait \/ jw_Host \/ jw_Return
          BY <5>3 DEF jw_Wait, jw_Host, jw_Return, NoCall, JtagFields
        <5> QED
          BY <4>3, <5>1, <5>2, <5>3 DEF Writes
      <4>4. CASE jr_Wait \/ jr_More
        BY <4>4 DEF jr_Wait, jr_More, JtagFields, InInv, InFields
      <4>5. CASE jr_Return \/ jtag_CloseWait
        BY <4>5 DEF jr_Return, jtag_CloseWait, NoCall
      <4> QED
        BY <1>3, <2>3, <4>1, <4>2, <4>3, <4>4, <4>5 DEF Program, InCall, Reads
    <3>2. Freed' = Freed /\ PieceThere'
      BY <2>1, <3>1 DEF Freed, Taken, PieceThere
    <3> QED
      BY <2>1, <3>1, <3>2, InRests
  <2>4. ~(jc.pc = "r_copy" /\ jc'.pc = "r_publish")
    <3>1. CASE JtagCalls \/ Writes \/ jtag_CloseWait
      BY <3>1
      DEF JtagCalls, JtagWrite, JtagRead, JtagClose, JtagIoctl, Writes, jw_Sample, jw_Copy,
        jw_Publish, jw_Kick, jw_Wait, jw_Host, jw_Return, jtag_CloseWait
    <3>2. CASE jr_Sample \/ jr_Wait \/ jr_More \/ jr_Return
      BY <3>2 DEF jr_Sample, jr_Wait, jr_More, jr_Return
    <3> QED
      BY <1>3, <3>1, <3>2 DEF Program, InCall, Reads
  <2> QED
    BY <2>2, <2>3, <2>4
<1> QED
  BY <1>1, <1>2, <1>3

\* At the start the host has sent nothing.
LEMMA InInvInit ==
  JtagInit => JtagFields /\ JtagNumbers /\ InInv
<1> SUFFICES ASSUME JtagInit PROVE JtagFields /\ JtagNumbers /\ InInv
  OBVIOUS
<1>1. JtagFields
  BY DEF JtagInit, NoCall, NoIrq, JtagFields
<1>2. JtagNumbers /\ Freed = 0 /\ InFields /\ PieceThere
  BY JtagAssumption
  DEF JtagInit, NoCall, JSlot, JtagNumbers, ReadPlaces, Freed, Taken, InFields, PieceThere
<1>3. js.rx_out = 0 /\ Span(js.rx_out, js.rx_in) = 0 /\ jd.rfifo = <<>> /\ jo.came = 0
  BY DEF JtagInit, Span
<1>4. \A s \in JSlot : ~(Span(js.rx_out, s) < 0)
  BY <1>3 DEF Span, JSlot
<1>5. Counts(<<>>, 0)
  BY DEF Counts
<1> QED
  BY <1>1, <1>2, <1>3, <1>4, <1>5 DEF InInv, InChain

\* Every step keeps what the host sent in order, and a copy ends with the last it takes.
LEMMA InInvStep ==
  JtagFields /\ JtagNumbers /\ InInv /\ [JtagNext]_jtagVars
    => /\ InInv'
       /\ [jc.pc = "r_copy" /\ jc'.pc = "r_publish" => jo'.read = jo.read + jc.n]_jtagVars
<1>1. InInv /\ UNCHANGED jtagVars => InInv'
  BY DEF jtagVars, InInv, InFields, PieceThere, InChain, Freed, Taken
<1>2. jc' = jc => ~(jc.pc = "r_copy" /\ jc'.pc = "r_publish")
  OBVIOUS
<1> QED
  BY <1>1, <1>2, InHost, InHandler, InProgram DEF JtagNext

\* The program reads what the host sent, in order, nothing lost and nothing twice, wherever
\* the handler cuts into the read (altera_avalon_jtag_uart_read.c:116-138,
\* altera_avalon_jtag_uart_init.c:118-167).
THEOREM JtagReadsInOrder == JtagSpec => JtagInInOrder
<1>1. JtagFields /\ JtagNumbers /\ [JtagNext]_jtagVars => JtagFields' /\ JtagNumbers'
  BY FieldsKept, NumbersKept
<1> QED
  BY InInvInit, <1>1, InInvStep, PTL DEF JtagSpec, JtagInInOrder

\* What a program writes to a console or reads from one passes in order, nothing twice,
\* for buffers, FIFOs and pieces of any length (the write and read functions of
\* altera_avalon_jtag_uart and of altera_avalon_uart with their handlers).
THEOREM ConsolesInOrder == JtagSpec /\ UartSpec => CharactersInOrder
BY JtagInOrder, JtagReadsInOrder, UartInOrder, UartReadsInOrder DEF CharactersInOrder

-----------------------------------------------------------------------------
(* The polled console: its FIFO never overflows, and driver and peripheral *)
(* implement the abstract console, for every depth, text and number of     *)
(* resets.                                                                 *)

LEMMA TailType ==
  ASSUME NEW S, NEW s \in Seq(S), s # <<>>
  PROVE  Tail(s) \in Seq(S) /\ Len(Tail(s)) = Len(s) - 1 /\ Head(s) \in S /\ Len(s) >= 1
OBVIOUS

LEMMA AppendType ==
  ASSUME NEW S, NEW s \in Seq(S), NEW e \in S
  PROVE  Append(s, e) \in Seq(S) /\ Len(Append(s, e)) = Len(s) + 1
OBVIOUS

\* The types as the provers take them best, register by register, without the
\* Boolean one.
Types ==
  /\ ptr \in 1..(Len(Text) + 1)
  /\ bus \in {"idle", "read", "write"}
  /\ av_waitrequest \in {0, 1} /\ fifo_wr \in {0, 1} /\ woverflow \in {0, 1}
  /\ wfifo \in Seq(Nat) /\ delivered \in Seq(Nat)
  /\ resets \in 0..MaxResets

RoomType == room \in BOOLEAN

LEMMA TypesAreTypeOK == Types /\ RoomType <=> TypeOK
BY DEF Types, RoomType, TypeOK

\* Where the character that is being written is: the driver has seen room for
\* it (room), it stands on the bus, or it enters the FIFO at the next edge
\* (fifo_wr).  Counted: how many FIFO
\* and host have.
Handover ==
  /\ bus = "idle" => av_waitrequest = 1
  /\ bus # "idle" => ptr <= Len(Text) /\ room = FALSE
  /\ fifo_wr = 1 <=> bus = "write" /\ av_waitrequest = 0
  /\ room = TRUE \/ bus = "write" => Len(wfifo) < Depth
  /\ Len(wfifo) <= Depth
  /\ woverflow = 0

Counted == Len(delivered) + Len(wfifo) = ptr - 1

\* The inductive invariant: NoOverflow alone does not know that the room the
\* driver saw is still there when the character arrives.
ConsoleInv == Types /\ RoomType /\ Handover /\ Counted

LEMMA EmptyFifo == <<>> \in Seq(Nat) /\ Len(<<>>) = 0
OBVIOUS

LEMMA InitConsoleInv == Init => ConsoleInv
<1> SUFFICES ASSUME Init
             PROVE  ConsoleInv
  OBVIOUS
<1>1. Len(Text) \in Nat
  BY ConsoleAssumption
<1>2. Types
  BY <1>1, EmptyFifo, ConsoleAssumption DEF Init, PowerUp, Types
<1>3. RoomType
  BY DEF Init, PowerUp, RoomType
<1>4. Handover
  BY <1>1, EmptyFifo, ConsoleAssumption DEF Init, PowerUp, Handover
<1>5. Counted
  BY EmptyFifo DEF Init, PowerUp, Counted
<1> QED
  BY <1>2, <1>3, <1>4, <1>5 DEF ConsoleInv

-----------------------------------------------------------------------------
\* An edge at which no character enters: the FIFO keeps its length or loses one.
LEMMA FifoKeeps ==
  ASSUME ConsoleInv, fifo_wr = 0, NEW take \in BOOLEAN, Fifo(take)
  PROVE  /\ wfifo' \in Seq(Nat) /\ delivered' \in Seq(Nat)
         /\ Len(wfifo') <= Len(wfifo)
         /\ Len(delivered') + Len(wfifo') = Len(delivered) + Len(wfifo)
<1>0. wfifo \in Seq(Nat) /\ delivered \in Seq(Nat)
  BY DEF ConsoleInv, Types
<1>1. CASE take
  <2>1. wfifo # <<>> /\ wfifo' = Tail(wfifo) /\ delivered' = Append(delivered, Head(wfifo))
    BY <1>1 DEF Fifo
  <2> QED
    BY <1>0, <2>1, TailType, AppendType
<1>2. CASE ~take
  BY <1>0, <1>2 DEF Fifo
<1> QED
  BY <1>1, <1>2

\* An edge at which one enters.
LEMMA FifoGrows ==
  ASSUME ConsoleInv, fifo_wr = 1, NEW take \in BOOLEAN, Fifo(take)
  PROVE  /\ wfifo' \in Seq(Nat) /\ delivered' \in Seq(Nat)
         /\ Len(wfifo') <= Len(wfifo) + 1
         /\ Len(delivered') + Len(wfifo') = Len(delivered) + Len(wfifo) + 1
<1>0. wfifo \in Seq(Nat) /\ delivered \in Seq(Nat)
  BY DEF ConsoleInv, Types
<1>1. av_writedata \in Nat
  BY ConsoleAssumption DEF ConsoleInv, Types, Handover, av_writedata, Garbage
<1>2. CASE take
  <2>1. wfifo # <<>> /\ wfifo' = Append(Tail(wfifo), av_writedata)
                     /\ delivered' = Append(delivered, Head(wfifo))
    BY <1>2 DEF Fifo
  <2>2. Tail(wfifo) \in Seq(Nat) /\ Len(Tail(wfifo)) = Len(wfifo) - 1 /\ Head(wfifo) \in Nat
    BY <1>0, <2>1, TailType
  <2>3. wfifo' \in Seq(Nat) /\ Len(wfifo') = Len(wfifo)
    BY <1>0, <1>1, <2>1, <2>2, AppendType
  <2>4. delivered' \in Seq(Nat) /\ Len(delivered') = Len(delivered) + 1
    BY <1>0, <2>1, <2>2, AppendType
  <2> QED
    BY <1>0, <2>3, <2>4
<1>3. CASE ~take
  <2>1. wfifo' = Append(wfifo, av_writedata) /\ delivered' = delivered
    BY <1>3 DEF Fifo
  <2> QED
    BY <1>0, <1>1, <2>1, AppendType
<1> QED
  BY <1>2, <1>3

-----------------------------------------------------------------------------
\* Every clock edge keeps the invariant.
LEMMA EdgeKeepsRoomType ==
  ASSUME ConsoleInv, Master \/ Compute
  PROVE  RoomType'
<1>1. CASE StartRead \/ StartWrite \/ EndRead \/ EndWrite
  BY <1>1 DEF ConsoleInv, RoomType, StartRead, StartWrite, EndRead, EndWrite
<1>2. CASE Wait \/ Compute
  BY <1>2 DEF ConsoleInv, RoomType, Wait, Compute, driver
<1> QED
  BY <1>1, <1>2 DEF Master

LEMMA EdgeKeepsInv ==
  ASSUME ConsoleInv, NEW take \in BOOLEAN, Working(take) \/ Computing(take)
  PROVE  ConsoleInv'
<1> USE ConsoleAssumption DEF Types, Handover
<1>1. Slave /\ Fifo(take) /\ UNCHANGED resets /\ (Master \/ Compute)
  BY DEF Working, Computing, Edge
<1>2. Types /\ Handover /\ RoomType /\ Counted
  BY DEF ConsoleInv
<1>3. RoomType'
  BY <1>1, EdgeKeepsRoomType
<1>4. CASE fifo_wr = 1
  <2>1. EndWrite
    BY <1>1, <1>2, <1>4 DEF Master, StartRead, StartWrite, Wait, EndRead, EndWrite, Compute
  <2>2. /\ wfifo' \in Seq(Nat) /\ delivered' \in Seq(Nat)
        /\ Len(wfifo') <= Len(wfifo) + 1
        /\ Len(delivered') + Len(wfifo') = Len(delivered) + Len(wfifo) + 1
    BY <1>1, <1>4, FifoGrows
  <2>3. Types'
    BY <1>1, <1>2, <1>4, <2>1, <2>2 DEF EndWrite, Slave
  <2>4. Handover'
    BY <1>1, <1>2, <1>4, <2>1, <2>2 DEF EndWrite, Slave
  <2>5. Counted'
    BY <1>2, <2>1, <2>2 DEF Counted, EndWrite
  <2> QED
    BY <1>3, <2>3, <2>4, <2>5 DEF ConsoleInv
<1>5. CASE fifo_wr = 0
  <2>1. /\ wfifo' \in Seq(Nat) /\ delivered' \in Seq(Nat)
        /\ Len(wfifo') <= Len(wfifo)
        /\ Len(delivered') + Len(wfifo') = Len(delivered) + Len(wfifo)
    BY <1>1, <1>5, FifoKeeps
  <2>8. ptr' = ptr => Counted'
    BY <1>2, <2>1 DEF Counted
  <2>2. CASE StartRead
    <3>1. Types'
      BY <1>1, <1>2, <1>5, <2>1, <2>2 DEF StartRead, Slave
    <3>2. bus = "idle" /\ bus' = "read" /\ room' = FALSE /\ ptr' = ptr /\ ptr <= Len(Text)
      BY <1>2, <2>2 DEF StartRead, RoomType
    <3>3. av_waitrequest' = 1 /\ fifo_wr' = 0 /\ woverflow' = woverflow
      BY <1>1, <3>2 DEF Slave
    <3>4. Handover'
      BY <1>2, <2>1, <3>2, <3>3
    <3> QED
      BY <1>3, <2>8, <3>1, <3>2, <3>4 DEF ConsoleInv
  <2>3. CASE StartWrite
    <3>1. Types'
      BY <1>1, <1>2, <1>5, <2>1, <2>3 DEF StartWrite, Slave
    <3>2. room = TRUE
      BY <1>2, <2>3 DEF StartWrite, RoomType
    <3>3. bus = "idle" /\ bus' = "write" /\ room' = FALSE /\ ptr' = ptr /\ ptr <= Len(Text)
      BY <2>3 DEF StartWrite
    <3>4. av_waitrequest' = 1 /\ fifo_wr' = 0 /\ woverflow' = woverflow
      BY <1>1, <3>3 DEF Slave
    <3>5. Handover'
      BY <1>2, <2>1, <3>2, <3>3, <3>4
    <3> QED
      BY <1>3, <2>8, <3>1, <3>3, <3>5 DEF ConsoleInv
  <2>4. CASE Wait
    <3>1. Types'
      BY <1>1, <1>2, <1>5, <2>1, <2>4 DEF Wait, driver, Slave
    <3>2. bus # "idle" /\ av_waitrequest = 1 /\ ptr' = ptr /\ room' = room /\ bus' = bus
      BY <2>4 DEF Wait, driver
    <3>3. av_waitrequest' = 0 /\ woverflow' = 0 /\ fifo_wr' = IF bus = "write" THEN 1 ELSE 0
      BY <1>1, <1>2, <3>2 DEF Slave, fifo_FF
    <3>4. Handover'
      BY <1>2, <2>1, <3>2, <3>3
    <3> QED
      BY <1>3, <2>8, <3>1, <3>2, <3>4 DEF ConsoleInv
  <2>5. CASE EndRead
    <3>1. Types'
      BY <1>1, <1>2, <1>5, <2>1, <2>5 DEF EndRead, Slave
    <3>2. bus = "read" /\ av_waitrequest = 0 /\ bus' = "idle" /\ ptr' = ptr /\ room' = (WSPACE # 0)
      BY <2>5 DEF EndRead
    <3>3. WSPACE # 0 => Len(wfifo) < Depth
      BY <1>2 DEF WSPACE
    <3>4. room' = TRUE => Len(wfifo) < Depth
      BY <3>2, <3>3
    <3>5. av_waitrequest' = 1 /\ fifo_wr' = 0 /\ woverflow' = woverflow
      BY <1>1, <3>2 DEF Slave
    <3>6. Handover'
      BY <1>2, <2>1, <3>2, <3>4, <3>5
    <3> QED
      BY <1>3, <2>8, <3>1, <3>2, <3>6 DEF ConsoleInv
  <2>6. CASE EndWrite
    BY <1>2, <1>5, <2>6 DEF EndWrite
  <2>7. CASE Compute
    <3>1. Types'
      BY <1>1, <1>2, <1>5, <2>1, <2>7 DEF Compute, driver, Slave
    <3>2. bus = "idle" /\ bus' = bus /\ room' = room /\ ptr' = ptr
      BY <2>7 DEF Compute, driver
    <3>3. av_waitrequest' = 1 /\ fifo_wr' = 0 /\ woverflow' = woverflow
      BY <1>1, <3>2 DEF Slave
    <3>4. Handover'
      BY <1>2, <2>1, <3>2, <3>3
    <3> QED
      BY <1>3, <2>8, <3>1, <3>2, <3>4 DEF ConsoleInv
  <2> QED
    BY <1>1, <2>2, <2>3, <2>4, <2>5, <2>6, <2>7 DEF Master
<1> QED
  BY <1>2, <1>4, <1>5

LEMMA StepConsoleInv == ConsoleInv /\ [Next]_vars => ConsoleInv'
<1> SUFFICES ASSUME ConsoleInv, [Next]_vars
             PROVE  ConsoleInv'
  OBVIOUS
<1>1. CASE \E take \in BOOLEAN : Working(take) \/ Computing(take)
  BY <1>1, EdgeKeepsInv
<1>2. CASE Reset
  <2>1. Types'
    BY <1>2, EmptyFifo, ConsoleAssumption DEF ConsoleInv, Types, Reset
  <2>2. RoomType'
    BY <1>2 DEF Reset, RoomType
  <2>3. Handover'
    BY <1>2, EmptyFifo, ConsoleAssumption DEF Handover, Reset
  <2>4. Counted'
    BY <1>2, EmptyFifo DEF Counted, Reset
  <2> QED
    BY <2>1, <2>2, <2>3, <2>4 DEF ConsoleInv
<1>3. CASE UNCHANGED vars
  BY <1>3 DEF ConsoleInv, Types, RoomType, Handover, Counted, vars
<1> QED
  BY <1>1, <1>2, <1>3 DEF Next

LEMMA ConsoleInvariance == Spec => []ConsoleInv
BY InitConsoleInv, StepConsoleInv, PTL DEF Spec

\* The driver never writes into a full FIFO, however deep it is and whatever the
\* host and the resets do (altera_avalon_jtag_uart_write.c:66-68,
\* myhardware_jtag_uart_0.v:488-503).
THEOREM FifoNeverOverflows == Spec => []NoOverflow
<1>1. ConsoleInv => NoOverflow
  BY DEF ConsoleInv, Handover, NoOverflow
<1> QED
  BY <1>1, ConsoleInvariance, PTL

\* The registers keep their types.
THEOREM TypeCorrect == Spec => []TypeOK
<1>1. ConsoleInv => TypeOK
  BY TypesAreTypeOK DEF ConsoleInv
<1> QED
  BY <1>1, ConsoleInvariance, PTL

-----------------------------------------------------------------------------
\* The character that enters the FIFO is the next one of the text.
LEMMA NextCharacterEnters ==
  ASSUME ConsoleInv, fifo_wr = 1
  PROVE  av_writedata = Text[Console!Accepted + 1] /\ Console!Accepted < Len(Text)
<1>1. Len(delivered) \in Nat /\ Len(wfifo) \in Nat /\ ptr \in Nat /\ Len(Text) \in Nat
  BY ConsoleAssumption DEF ConsoleInv, Types
<1>2. bus = "write" /\ ptr <= Len(Text) /\ Len(delivered) + Len(wfifo) = ptr - 1
  BY DEF ConsoleInv, Handover, Counted
<1>3. Console!Accepted + 1 = ptr
  BY <1>1, <1>2 DEF Console!Accepted
<1> QED
  BY <1>1, <1>2, <1>3 DEF av_writedata, Console!Accepted

\* Every edge is a step of the abstract console or leaves it alone.
LEMMA EdgeRefines ==
  ASSUME ConsoleInv, NEW take \in BOOLEAN, Working(take) \/ Computing(take)
  PROVE  [Console!Next]_(Console!vars)
<1>1. Fifo(take)
  BY DEF Working, Computing, Edge
<1>2. CASE fifo_wr = 1 /\ take
  <2>1. Console!Put /\ Console!Take
    BY <1>1, <1>2, NextCharacterEnters DEF ConsoleInv, Handover, Fifo, Console!Put, Console!Take
  <2>2. Console!WriteRead
    BY <1>1, <1>2, <2>1, NextCharacterEnters DEF Fifo, Console!WriteRead
  <2> QED
    BY <2>2 DEF Console!Next
<1>3. CASE fifo_wr = 1 /\ ~take
  <2>1. Console!Put
    BY <1>3, NextCharacterEnters DEF ConsoleInv, Handover, Console!Put
  <2>2. Console!Write
    BY <1>1, <1>3, <2>1, NextCharacterEnters DEF Fifo, Console!Write
  <2> QED
    BY <2>2 DEF Console!Next
<1>4. CASE fifo_wr # 1 /\ take
  BY <1>1, <1>4 DEF Fifo, Console!Next, Console!Read, Console!Take
<1>5. CASE fifo_wr # 1 /\ ~take
  BY <1>1, <1>5 DEF Fifo, Console!vars
<1> QED
  BY <1>2, <1>3, <1>4, <1>5

\* The console starts empty.
LEMMA RefinesInit ==
  Init => Console!Init
BY DEF Init, PowerUp, Console!Init

\* Every step is one of the abstract console, or none.
LEMMA RefinesStep ==
  ConsoleInv /\ [Next]_vars => [Console!Next]_(Console!vars)
<1> SUFFICES ASSUME ConsoleInv, [Next]_vars
             PROVE  [Console!Next]_(Console!vars)
  OBVIOUS
<1>1. CASE \E take \in BOOLEAN : Working(take) \/ Computing(take)
  BY <1>1, EdgeRefines
<1>2. CASE Reset
  BY <1>2 DEF Reset, Console!Next, Console!Discard
<1>3. CASE UNCHANGED vars
  BY <1>3 DEF vars, Console!vars
<1> QED
  BY <1>1, <1>2, <1>3 DEF Next

\* Driver, transfers and FIFO implement the console: each character reaches the
\* host once and in order (myhardware_jtag_uart_0.v:465-503).
THEOREM ConsoleRefinement == Spec => ImplementsConsole
<1> QED
  BY RefinesInit, RefinesStep, ConsoleInvariance, PTL DEF Spec, ImplementsConsole, Console!Spec

-----------------------------------------------------------------------------
(* The SPI driver: whatever lies between its accesses, no byte is          *)
(* overwritten, and the select line is held throughout.                    *)

\* A flag counted as a byte; the driver in its loop of polls and transfers.
OneIf(b)  == IF b THEN 1 ELSE 0
InLoop  == spi_cmd.at \in {"poll", "send", "receive"}

\* The part of the types that the proofs use.
SpiFields ==
  /\ {"hold", "primed", "shift", "transmitting", "rx", "RRDY", "ROE", "TOE", "SSO", "select",
      "selectHold"} \subseteq DOMAIN spi
  /\ {spi.primed, spi.transmitting, spi.RRDY} \subseteq BOOLEAN
  /\ {"at", "slave", "write", "read", "flags", "written", "zeros", "ignore", "credits", "trdy",
      "rrdy", "data"} \subseteq DOMAIN spi_cmd
  /\ {spi_cmd.write, spi_cmd.read, spi_cmd.written, spi_cmd.zeros, spi_cmd.ignore} \subseteq Nat
  /\ spi_cmd.written <= spi_cmd.write /\ spi_cmd.zeros <= spi_cmd.read
  /\ spi_cmd.ignore <= spi_cmd.write /\ spi_cmd.credits \in Int
  /\ spi_frame \in Nat

\* Bytes between the write of TXDATA and the read of RXDATA.
InFlight == OneIf(spi.primed) + OneIf(spi.transmitting) + OneIf(spi.RRDY)

\* A credit stands for a byte that may be sent, and there is one; a negative number for
\* a command that has nothing left to send.  Outside the loop nothing is under way, and a
\* character the driver has seen stays until it takes it.
Credits ==
  /\ InFlight = IF spi_cmd.credits < 0 THEN 0 ELSE 1 - spi_cmd.credits
  /\ ~InLoop => spi_cmd.credits = 1
  /\ spi_cmd.at \in {"send", "receive"} /\ spi_cmd.rrdy => spi.RRDY

\* What a turn at TXDATA does: nothing, a byte to write, a byte sent to read, or the mark
\* that nothing is left.
Idles == UNCHANGED spi /\ UNCHANGED <<spi_cmd.credits, spi_cmd.written, spi_cmd.zeros>>

SpiWrites ==
  /\ spi_cmd.written < spi_cmd.write /\ SpiTxData(spi_cmd.written + 1)
  /\ spi_cmd'.credits = spi_cmd.credits - 1 /\ spi_cmd'.written = spi_cmd.written + 1
  /\ UNCHANGED spi_cmd.zeros

SpiReads ==
  /\ spi_cmd.written = spi_cmd.write /\ spi_cmd.zeros > 0 /\ SpiTxData(SpiNoByte)
  /\ spi_cmd'.credits = spi_cmd.credits - 1 /\ spi_cmd'.zeros = spi_cmd.zeros - 1
  /\ UNCHANGED spi_cmd.written

Ends ==
  /\ UNCHANGED spi /\ spi_cmd'.credits = -1024
  /\ UNCHANGED <<spi_cmd.written, spi_cmd.zeros>>

\* A turn at TXDATA is one of the four (altera_avalon_spi.c:89-102).
LEMMA SendCases ==
  ASSUME SpiFields, SpiSend
  PROVE  /\ spi_cmd.at = "send" /\ spi_cmd'.at = "receive"
         /\ UNCHANGED <<spi_wire, spi_frame, spi_group, spi_calls>>
         /\ DOMAIN spi_cmd' = DOMAIN spi_cmd
         /\ UNCHANGED <<spi_cmd.write, spi_cmd.read, spi_cmd.ignore, spi_cmd.slave,
                        spi_cmd.flags, spi_cmd.rrdy, spi_cmd.data>>
         /\ Idles \/ (spi_cmd.credits > 0 /\ (SpiWrites \/ SpiReads \/ Ends))
<1> DEFINE next == [spi_cmd EXCEPT !.at = "receive"]
<1>1. spi_cmd.at = "send" /\ UNCHANGED <<spi_wire, spi_frame, spi_group, spi_calls>>
  BY DEF SpiSend
<1>2. /\ DOMAIN next = DOMAIN spi_cmd /\ next.at = "receive"
      /\ next.write = spi_cmd.write /\ next.read = spi_cmd.read /\ next.ignore = spi_cmd.ignore
      /\ next.slave = spi_cmd.slave /\ next.flags = spi_cmd.flags /\ next.rrdy = spi_cmd.rrdy
      /\ next.data = spi_cmd.data /\ next.credits = spi_cmd.credits
      /\ next.written = spi_cmd.written /\ next.zeros = spi_cmd.zeros
  BY DEF SpiFields
<1> HIDE DEF next
<1>3. CASE ~spi_cmd.trdy \/ spi_cmd.credits <= 0
  <2>1. spi_cmd' = next /\ UNCHANGED spi
    BY <1>3 DEF SpiSend, next
  <2> QED
    BY <1>1, <1>2, <2>1 DEF Idles
<1>4. CASE ~(~spi_cmd.trdy \/ spi_cmd.credits <= 0)
  <2>1. \/ /\ spi_cmd.written < spi_cmd.write
           /\ spi_cmd' = [next EXCEPT !.credits = Spend(@), !.written = @ + 1]
           /\ SpiTxData(spi_cmd.written + 1)
        \/ /\ spi_cmd.written = spi_cmd.write /\ spi_cmd.zeros > 0
           /\ spi_cmd' = [next EXCEPT !.credits = Spend(@), !.zeros = @ - 1]
           /\ SpiTxData(SpiNoByte)
        \/ /\ spi_cmd' = [next EXCEPT !.credits = -1024]
           /\ UNCHANGED spi
    BY <1>4 DEF SpiSend, next
  <2>2. spi_cmd.credits > 0
    BY <1>4 DEF SpiFields
  <2>3. CASE /\ spi_cmd.written < spi_cmd.write
             /\ spi_cmd' = [next EXCEPT !.credits = Spend(@), !.written = @ + 1]
             /\ SpiTxData(spi_cmd.written + 1)
    <3>1. SpiWrites
      BY <1>2, <2>3 DEF Spend, SpiFields, SpiWrites
    <3> QED
      BY <1>1, <1>2, <2>2, <2>3, <3>1
  <2>4. CASE /\ spi_cmd.written = spi_cmd.write /\ spi_cmd.zeros > 0
             /\ spi_cmd' = [next EXCEPT !.credits = Spend(@), !.zeros = @ - 1]
             /\ SpiTxData(SpiNoByte)
    <3>1. SpiReads
      BY <1>2, <2>4 DEF Spend, SpiFields, SpiReads
    <3> QED
      BY <1>1, <1>2, <2>2, <2>4, <3>1
  <2>5. CASE spi_cmd' = [next EXCEPT !.credits = -1024] /\ UNCHANGED spi
    <3>1. Ends
      BY <1>2, <2>5 DEF SpiFields, Ends
    <3> QED
      BY <1>1, <1>2, <2>2, <2>5, <3>1
  <2> QED
    BY <2>1, <2>3, <2>4, <2>5
<1> QED
  BY <1>3, <1>4

\* Every step keeps the fields' types, and the counts inside the command's.
LEMMA SpiFieldsKept ==
  ASSUME SpiFields, [SpiNext]_spiVars
  PROVE  SpiFields'
<1>1. CASE SpiLoad \/ SpiShifted
  <2>1. UNCHANGED spi_cmd /\ DOMAIN spi' = DOMAIN spi
    BY <1>1 DEF SpiLoad, SpiShifted
  <2>2. spi_frame' \in {0, spi_frame, spi_frame + 1}
    BY <1>1 DEF SpiLoad, SpiShifted
  <2>3. {spi'.primed, spi'.transmitting, spi'.RRDY} \subseteq BOOLEAN
    BY <1>1 DEF SpiLoad, SpiShifted, SpiFields
  <2> QED
    BY <2>1, <2>2, <2>3 DEF SpiFields
<1>2. CASE \E slave \in SpiSlaves, write, read \in 0..SpiMaxLen,
              flags \in SUBSET {COMMAND_MERGE, COMMAND_TOGGLE_SS_N} :
             write + read > 0 /\ alt_avalon_spi_command(slave, write, read, flags)
  <2>1. PICK slave \in SpiSlaves, write \in 0..SpiMaxLen, read \in 0..SpiMaxLen,
             flags \in SUBSET {COMMAND_MERGE, COMMAND_TOGGLE_SS_N} :
               alt_avalon_spi_command(slave, write, read, flags)
    BY <1>2
  <2>2. write \in Nat /\ read \in Nat
    BY SpiAssumption
  <2> QED
    BY <2>1, <2>2 DEF alt_avalon_spi_command, NoCommand, SpiFields
<1>3. CASE SpiSelect \/ SpiForce \/ SpiDiscard \/ SpiPoll \/ SpiFinish \/ SpiRelease
  <2>1. /\ DOMAIN spi_cmd' = DOMAIN spi_cmd /\ spi_cmd'.write = spi_cmd.write
        /\ spi_cmd'.read = spi_cmd.read /\ spi_cmd'.written = spi_cmd.written
        /\ spi_cmd'.zeros = spi_cmd.zeros /\ spi_cmd'.ignore = spi_cmd.ignore
        /\ spi_cmd'.credits = spi_cmd.credits
    <3>1. CASE SpiPoll
      BY <3>1 DEF SpiPoll, SpiFields
    <3>2. CASE \E to \in {"sso", "discard", "poll", "release", "idle"} :
                 spi_cmd' = [spi_cmd EXCEPT !.at = to]
      BY <3>2 DEF SpiFields
    <3> QED
      BY <1>3, <3>1, <3>2 DEF SpiSelect, SpiForce, SpiDiscard, SpiFinish, SpiRelease, Goes
  <2>2. /\ DOMAIN spi' = DOMAIN spi /\ spi'.primed = spi.primed
        /\ spi'.transmitting = spi.transmitting /\ spi'.RRDY \in BOOLEAN
    BY <1>3 DEF SpiSelect, SpiForce, SpiDiscard, SpiPoll, SpiFinish, SpiRelease, SpiFields
  <2>3. spi_frame' \in Nat
    BY <1>3 DEF SpiSelect, SpiForce, SpiDiscard, SpiPoll, SpiFinish, SpiRelease, SpiFields
  <2> QED
    BY <2>1, <2>2, <2>3 DEF SpiFields
<1>4. CASE SpiSend
  <2>1. /\ DOMAIN spi' = DOMAIN spi /\ spi'.primed \in BOOLEAN
        /\ spi'.transmitting = spi.transmitting /\ spi'.RRDY = spi.RRDY
    <3>1. UNCHANGED spi \/ \E byte \in Nat : SpiTxData(byte)
      BY <1>4, SendCases DEF Idles, SpiWrites, SpiReads, Ends, SpiNoByte, SpiFields
    <3> QED
      BY <3>1 DEF SpiTxData, SpiFields
  <2>2. /\ spi_cmd'.written \in Nat /\ spi_cmd'.written <= spi_cmd.write
        /\ spi_cmd'.zeros \in Nat /\ spi_cmd'.zeros <= spi_cmd.read
        /\ spi_cmd'.credits \in Int
    BY <1>4, SendCases DEF Idles, SpiWrites, SpiReads, Ends, SpiFields
  <2> QED
    BY <1>4, <2>1, <2>2, SendCases DEF SpiFields
<1>5. CASE SpiReceive
  <2>1. /\ DOMAIN spi_cmd' = DOMAIN spi_cmd /\ spi_cmd'.write = spi_cmd.write
        /\ spi_cmd'.read = spi_cmd.read /\ spi_cmd'.written = spi_cmd.written
        /\ spi_cmd'.zeros = spi_cmd.zeros
        /\ \/ spi_cmd'.ignore = spi_cmd.ignore
           \/ spi_cmd.ignore > 0 /\ spi_cmd'.ignore = spi_cmd.ignore - 1
        /\ spi_cmd'.credits \in {spi_cmd.credits, spi_cmd.credits + 1}
    BY <1>5 DEF SpiReceive, Take, SpiFields
  <2>2. /\ DOMAIN spi' = DOMAIN spi /\ spi'.primed = spi.primed /\ spi'.RRDY \in BOOLEAN
        /\ spi'.transmitting = spi.transmitting /\ UNCHANGED spi_frame
    BY <1>5 DEF SpiReceive, SpiFields
  <2> QED
    BY <2>1, <2>2 DEF SpiFields
<1>6. CASE UNCHANGED spiVars
  BY <1>6 DEF spiVars, SpiFields
<1> QED
  BY <1>1, <1>2, <1>3, <1>4, <1>5, <1>6 DEF SpiNext, SpiDriver

\* Every step keeps the account of credits, and with it neither the holding register nor
\* the received byte is overwritten: one byte is under way at most.
LEMMA CreditsKept ==
  ASSUME SpiFields, SpiFields', Credits, SpiNoOverrun, [SpiNext]_spiVars
  PROVE  Credits' /\ SpiNoOverrun'
<1>1. CASE SpiLoad \/ SpiShifted
  <2>1. UNCHANGED spi_cmd
    BY <1>1 DEF SpiLoad, SpiShifted
  <2>2. ~(spi.transmitting /\ spi.RRDY) /\ InFlight \in Nat
    BY DEF Credits, InFlight, OneIf, SpiFields
  <2>3. CASE SpiLoad
    BY <2>1, <2>3 DEF SpiLoad, SpiFields, Credits, InFlight, OneIf, InLoop, SpiNoOverrun
  <2>4. CASE SpiShifted
    BY <2>1, <2>2, <2>4 DEF SpiShifted, SpiFields, Credits, InFlight, OneIf, InLoop, SpiNoOverrun
  <2> QED
    BY <1>1, <2>3, <2>4
<1>2. CASE \E slave \in SpiSlaves, write, read \in 0..SpiMaxLen,
              flags \in SUBSET {COMMAND_MERGE, COMMAND_TOGGLE_SS_N} :
             write + read > 0 /\ alt_avalon_spi_command(slave, write, read, flags)
  <2>1. UNCHANGED spi /\ spi_cmd.at = "idle" /\ spi_cmd'.at = "select" /\ spi_cmd'.credits = 1
    BY <1>2 DEF alt_avalon_spi_command, NoCommand
  <2> QED
    BY <2>1 DEF Credits, InFlight, InLoop, SpiNoOverrun
<1>3. CASE SpiSelect \/ SpiForce \/ SpiDiscard \/ SpiFinish \/ SpiRelease
  <2>1. /\ spi_cmd'.credits = spi_cmd.credits /\ spi_cmd.credits = 1
        /\ spi_cmd'.at \notin {"send", "receive"}
    BY <1>3
    DEF SpiSelect, SpiForce, SpiDiscard, SpiFinish, SpiRelease, Goes, SpiFields, Credits, InLoop
  <2>2. ~spi.RRDY
    BY <2>1 DEF Credits, InFlight, OneIf, SpiFields
  <2>3. /\ spi'.primed = spi.primed /\ spi'.transmitting = spi.transmitting
        /\ spi'.RRDY = spi.RRDY /\ spi'.ROE = spi.ROE /\ spi'.TOE = spi.TOE
    BY <1>3, <2>2 DEF SpiSelect, SpiForce, SpiDiscard, SpiFinish, SpiRelease, SpiFields
  <2> QED
    BY <2>1, <2>3 DEF Credits, InFlight, SpiNoOverrun
<1>4. CASE SpiPoll
  <2>1. /\ UNCHANGED spi /\ spi_cmd'.credits = spi_cmd.credits /\ spi_cmd'.at = "send"
        /\ spi_cmd'.rrdy = spi.RRDY
    BY <1>4 DEF SpiPoll, SpiFields
  <2> QED
    BY <2>1 DEF Credits, InFlight, InLoop, SpiNoOverrun
<1>5. CASE SpiSend
  <2>1. spi_cmd.at = "send" /\ spi_cmd'.at = "receive" /\ spi_cmd'.rrdy = spi_cmd.rrdy
    BY <1>5, SendCases
  <2>2. CASE Idles
    BY <2>1, <2>2 DEF Idles, Credits, InFlight, InLoop, SpiNoOverrun
  <2>3. CASE spi_cmd.credits > 0 /\ (SpiWrites \/ SpiReads \/ Ends)
    <3>1. spi_cmd.credits = 1 /\ ~spi.primed /\ ~spi.transmitting /\ ~spi.RRDY
      BY <2>3 DEF Credits, InFlight, OneIf, SpiFields
    <3>2. ~spi_cmd'.rrdy
      BY <2>1, <3>1 DEF Credits
    <3>3. CASE Ends
      BY <2>1, <3>1, <3>2, <3>3 DEF Ends, Credits, InFlight, OneIf, InLoop, SpiNoOverrun
    <3>4. CASE SpiWrites \/ SpiReads
      <4>1. /\ spi'.primed = TRUE /\ spi'.transmitting = FALSE /\ spi'.RRDY = FALSE
            /\ spi'.ROE = spi.ROE /\ spi'.TOE = spi.TOE
        BY <3>1, <3>4 DEF SpiWrites, SpiReads, SpiTxData, TRDY, SpiFields
      <4>2. spi_cmd'.credits = 0
        BY <3>1, <3>4 DEF SpiWrites, SpiReads
      <4> QED
        BY <2>1, <3>2, <4>1, <4>2 DEF Credits, InFlight, OneIf, InLoop, SpiNoOverrun
    <3> QED
      BY <2>3, <3>3, <3>4
  <2> QED
    BY <1>5, <2>2, <2>3, SendCases
<1>6. CASE SpiReceive
  <2>1. CASE ~spi_cmd.rrdy
    <3>1. UNCHANGED spi /\ spi_cmd'.credits = spi_cmd.credits /\ spi_cmd'.at = "poll"
      BY <1>6, <2>1 DEF SpiReceive, SpiFields
    <3> QED
      BY <3>1 DEF Credits, InFlight, InLoop, SpiNoOverrun
  <2>2. CASE spi_cmd.rrdy
    <3>1. spi.RRDY /\ spi_cmd.credits = 0 /\ ~spi.primed /\ ~spi.transmitting
      BY <1>6, <2>2 DEF SpiReceive, Credits, InFlight, OneIf, SpiFields
    <3>2. /\ spi_cmd'.credits = spi_cmd.credits + 1 /\ spi_cmd'.at \in {"finish", "poll"}
          /\ spi' = [spi EXCEPT !.RRDY = FALSE]
      BY <1>6, <2>2 DEF SpiReceive, Take, SpiFields
    <3>3. /\ spi'.primed = spi.primed /\ spi'.transmitting = spi.transmitting
          /\ spi'.RRDY = FALSE /\ spi'.ROE = spi.ROE /\ spi'.TOE = spi.TOE
      BY <3>2 DEF SpiFields
    <3> QED
      BY <3>1, <3>2, <3>3 DEF Credits, InFlight, OneIf, InLoop, SpiNoOverrun
  <2> QED
    BY <2>1, <2>2
<1>7. CASE UNCHANGED spiVars
  BY <1>7 DEF spiVars, Credits, InFlight, InLoop, SpiNoOverrun
<1> QED
  BY <1>1, <1>2, <1>3, <1>4, <1>5, <1>6, <1>7 DEF SpiNext, SpiDriver

-----------------------------------------------------------------------------
(* What a command has exchanged.                                             *)

\* Bytes handed to the peripheral, bytes taken back, bytes through on the wire; and what
\* the i-th byte of the command is.
Sent    == spi_cmd.written + (spi_cmd.read - spi_cmd.zeros)
Came    == (spi_cmd.write - spi_cmd.ignore) + Len(spi_cmd.data)
Shifted == Sent - OneIf(spi.primed) - OneIf(spi.transmitting)

ByteAt(i)  == IF i <= spi_cmd.write THEN i ELSE SpiNoByte
EntryAt(i) == [slave |-> spi_cmd.slave, sent |-> ByteAt(i)]

\* The bytes went out in order, all to the slave named; the byte on its way is the next
\* one; what came back is counted, and the answers to the bytes written are dropped.
Exchange ==
  spi_cmd.at # "idle" =>
    /\ Shifted \in Nat /\ spi_wire = [i \in 1..Shifted |-> EntryAt(i)]
    /\ spi_cmd.zeros < spi_cmd.read => spi_cmd.written = spi_cmd.write
    /\ spi.primed => spi.hold = ByteAt(Sent)
    /\ spi.transmitting => spi.shift = ByteAt(Sent) /\ spi.select = spi_cmd.slave
    /\ spi.RRDY => spi.rx = Shifted
    /\ spi_cmd.data \in Seq(Nat)
    /\ \A i \in 1..Len(spi_cmd.data) : spi_cmd.data[i] = spi_cmd.write + i
    /\ spi_cmd.ignore > 0 => Len(spi_cmd.data) = 0
    /\ Came + OneIf(spi.RRDY) = Shifted
    /\ spi_cmd.at # "select" => spi.selectHold = spi_cmd.slave
    /\ spi_cmd.at \in {"select", "sso"} => Shifted = 0
    /\ spi_cmd.at \in {"finish", "release"} =>
         spi_cmd.ignore = 0 /\ Len(spi_cmd.data) = spi_cmd.read

\* From its first byte on the select line is the command's, and stays it.
Holding ==
  /\ spi_cmd.at \notin {"idle", "select", "sso"} /\ COMMAND_TOGGLE_SS_N \notin spi_cmd.flags
  => /\ spi.SSO /\ spi_frame >= Shifted
     /\ Shifted > 0 => spi.select = spi_cmd.slave

\* One more byte through makes the record of the wire one entry longer.
LEMMA WireGrows ==
  ASSUME NEW n \in Nat
  PROVE  /\ Len([i \in 1..n |-> EntryAt(i)]) = n
         /\ Append([i \in 1..n |-> EntryAt(i)], EntryAt(n + 1)) = [i \in 1..(n + 1) |-> EntryAt(i)]
<1> DEFINE S == {EntryAt(i) : i \in Nat}
           q == [i \in 1..n |-> EntryAt(i)]
<1>1. q \in [1..n -> S]
  OBVIOUS
<1>2. q \in Seq(S) /\ Len(q) = n
  BY <1>1
<1>3. EntryAt(n + 1) \in S
  OBVIOUS
<1>4. \A i \in 1..n : q[i] = EntryAt(i)
  OBVIOUS
<1> HIDE DEF q, S
<1>5. /\ Append(q, EntryAt(n + 1)) \in Seq(S) /\ Len(Append(q, EntryAt(n + 1))) = n + 1
      /\ \A i \in 1..n : Append(q, EntryAt(n + 1))[i] = q[i]
      /\ Append(q, EntryAt(n + 1))[n + 1] = EntryAt(n + 1)
  BY <1>2, <1>3
<1>6. Append(q, EntryAt(n + 1)) = [i \in 1..(n + 1) |-> EntryAt(i)]
  <2> DEFINE r == Append(q, EntryAt(n + 1))
  <2>1. r \in [1..(n + 1) -> S]
    BY <1>5, LenProperties
  <2>2. \A i \in 1..(n + 1) : r[i] = EntryAt(i)
    BY <1>4, <1>5
  <2> HIDE DEF r
  <2> QED
    BY <2>1, <2>2 DEF r
<1> QED
  BY <1>2, <1>6 DEF q

\* One byte at most is on its way, and none outside the loop.
LEMMA OneByte ==
  ASSUME SpiFields, Credits
  PROVE  /\ ~(spi.primed /\ spi.transmitting) /\ ~(spi.primed /\ spi.RRDY)
         /\ ~(spi.transmitting /\ spi.RRDY)
         /\ ~InLoop => ~spi.primed /\ ~spi.transmitting /\ ~spi.RRDY
BY DEF SpiFields, Credits, InFlight, OneIf

\* A command begins with nothing exchanged.
LEMMA CommandBegins ==
  ASSUME SpiFields, Credits,
         NEW slave, NEW write \in Nat, NEW read \in Nat, NEW flags,
         alt_avalon_spi_command(slave, write, read, flags)
  PROVE  Exchange' /\ Holding'
<1>1. /\ spi_cmd.at = "idle" /\ UNCHANGED spi /\ spi_wire' = <<>>
      /\ spi_cmd'.at = "select" /\ spi_cmd'.write = write /\ spi_cmd'.read = read
      /\ spi_cmd'.written = 0 /\ spi_cmd'.zeros = read /\ spi_cmd'.ignore = write
      /\ spi_cmd'.data = <<>>
  BY DEF alt_avalon_spi_command, NoCommand
<1>2. ~spi.primed /\ ~spi.transmitting /\ ~spi.RRDY
  BY <1>1, OneByte DEF InLoop
<1>3. Shifted' = 0
  <2>1. Sent' = 0
    BY <1>1 DEF Sent
  <2>2. OneIf(spi.primed)' = 0 /\ OneIf(spi.transmitting)' = 0
    BY <1>1, <1>2 DEF OneIf
  <2> QED
    BY <2>1, <2>2 DEF Shifted
<1>4. spi_cmd'.data \in Seq(Nat) /\ Len(spi_cmd'.data) = 0
  BY <1>1
<1>5. Came' = 0
  BY <1>1, <1>4 DEF Came
<1>6. spi_wire' = [i \in 1..Shifted' |-> EntryAt(i)']
  BY <1>1, <1>3
<1>7. Exchange'
  BY <1>1, <1>2, <1>3, <1>4, <1>5, <1>6 DEF Exchange, OneIf
<1>8. Holding'
  BY <1>1 DEF Holding
<1> QED
  BY <1>7, <1>8

\* The byte held goes to the shift register, to the slave chosen.
LEMMA LoadKeeps ==
  ASSUME SpiFields, Credits, Exchange, Holding, SpiLoad
  PROVE  Exchange' /\ Holding'
<1>1. /\ spi.primed /\ ~spi.transmitting /\ UNCHANGED <<spi_cmd, spi_wire>>
      /\ spi'.shift = spi.hold /\ spi'.primed = FALSE /\ spi'.transmitting = TRUE
      /\ spi'.select = spi.selectHold /\ spi'.selectHold = spi.selectHold
      /\ spi'.RRDY = spi.RRDY /\ spi'.rx = spi.rx /\ spi'.SSO = spi.SSO
      /\ spi_frame' = IF spi.select = spi.selectHold THEN spi_frame ELSE 0
  BY DEF SpiLoad, SpiFields
<1>2. InLoop
  BY <1>1, OneByte
<1>3. Sent' = Sent /\ Came' = Came /\ Shifted' = Shifted
  <2>1. Sent' = Sent /\ Came' = Came /\ Sent \in Int
    BY <1>1 DEF Sent, Came, SpiFields
  <2>2. /\ OneIf(spi.primed) = 1 /\ OneIf(spi.transmitting) = 0
        /\ OneIf(spi'.primed) = 0 /\ OneIf(spi'.transmitting) = 1
    BY <1>1 DEF OneIf
  <2> QED
    BY <2>1, <2>2 DEF Shifted
<1>4. \A i : ByteAt(i)' = ByteAt(i) /\ EntryAt(i)' = EntryAt(i)
  BY <1>1 DEF ByteAt, EntryAt
<1>5. spi'.shift = ByteAt(Sent) /\ spi'.select = spi_cmd.slave
  BY <1>1, <1>2 DEF Exchange, InLoop
<1>6. Exchange'
  <2>1. ByteAt(Sent)' = ByteAt(Sent)
    BY <1>1, <1>3 DEF ByteAt
  <2>2. [i \in 1..Shifted' |-> EntryAt(i)'] = [i \in 1..Shifted |-> EntryAt(i)]
    BY <1>3, <1>4
  <2> QED
    BY <1>1, <1>3, <1>5, <2>1, <2>2 DEF Exchange
<1>7. Holding'
  <2> SUFFICES ASSUME COMMAND_TOGGLE_SS_N \notin spi_cmd.flags
               PROVE  /\ spi'.SSO /\ spi_frame' >= Shifted'
                      /\ Shifted' > 0 => spi'.select = spi_cmd'.slave
    BY <1>1 DEF Holding
  <2>1. spi.SSO /\ spi_frame >= Shifted /\ (Shifted > 0 => spi.select = spi_cmd.slave)
    BY <1>2 DEF Holding, InLoop
  <2>2. Shifted \in Nat /\ spi.selectHold = spi_cmd.slave
    BY <1>2 DEF Exchange, InLoop
  <2> QED
    BY <1>1, <1>3, <2>1, <2>2
<1> QED
  BY <1>6, <1>7

\* The byte is through, and its answer is there.
LEMMA ShiftKeeps ==
  ASSUME SpiFields, Credits, Exchange, Holding, SpiShifted
  PROVE  Exchange' /\ Holding'
<1>1. /\ spi.transmitting /\ UNCHANGED spi_cmd
      /\ spi'.transmitting = FALSE /\ spi'.primed = spi.primed /\ spi'.RRDY = TRUE
      /\ spi'.rx = Len(spi_wire) + 1 /\ spi'.SSO = spi.SSO
      /\ spi'.select = spi.select /\ spi'.selectHold = spi.selectHold
      /\ spi_wire' = Append(spi_wire, [slave |-> spi.select, sent |-> spi.shift])
      /\ spi_frame' = IF spi.SSO THEN spi_frame + 1 ELSE 0
  BY DEF SpiShifted, SpiFields
<1>2. InLoop /\ ~spi.primed /\ ~spi.RRDY
  BY <1>1, OneByte
<1>3. Shifted \in Nat /\ Sent \in Int
  BY <1>2 DEF Exchange, InLoop, Sent, SpiFields
<1>4. Sent = Shifted + 1 /\ Sent' = Sent /\ Shifted' = Shifted + 1 /\ Came' = Came
  BY <1>1, <1>2, <1>3 DEF Sent, Shifted, Came, OneIf
<1>5. \A i : EntryAt(i)' = EntryAt(i)
  BY <1>1 DEF EntryAt, ByteAt
<1>6. [slave |-> spi.select, sent |-> spi.shift] = EntryAt(Shifted + 1)
  BY <1>1, <1>2, <1>4 DEF Exchange, InLoop, EntryAt
<1>7. Len(spi_wire) = Shifted /\ spi_wire' = [i \in 1..(Shifted + 1) |-> EntryAt(i)]
  <2>1. spi_wire = [i \in 1..Shifted |-> EntryAt(i)]
    BY <1>2 DEF Exchange, InLoop
  <2> QED
    BY <1>1, <1>3, <1>6, <2>1, WireGrows
<1>8. Exchange'
  <2>1. [i \in 1..Shifted' |-> EntryAt(i)'] = [i \in 1..(Shifted + 1) |-> EntryAt(i)]
    BY <1>4, <1>5
  <2>2. Came + 1 = Shifted + 1
    <3>1. Came + OneIf(spi.RRDY) = Shifted /\ Came \in Int
      BY <1>2 DEF Exchange, InLoop, Came, SpiFields
    <3> QED
      BY <1>2, <3>1 DEF OneIf
  <2>3. Shifted' \in Nat /\ spi'.rx = Shifted' /\ Came' + OneIf(spi'.RRDY) = Shifted'
    BY <1>1, <1>3, <1>4, <1>7, <2>2 DEF OneIf
  <2> QED
    BY <1>1, <1>2, <1>7, <2>1, <2>3 DEF Exchange, InLoop
<1>9. Holding'
  <2> SUFFICES ASSUME COMMAND_TOGGLE_SS_N \notin spi_cmd.flags
               PROVE  /\ spi'.SSO /\ spi_frame' >= Shifted'
                      /\ Shifted' > 0 => spi'.select = spi_cmd'.slave
    BY <1>1 DEF Holding
  <2>1. spi.SSO /\ spi_frame >= Shifted
    BY <1>2 DEF Holding, InLoop
  <2>2. spi.select = spi_cmd.slave
    BY <1>1, <1>2 DEF Exchange, InLoop
  <2>3. spi_frame \in Nat
    BY DEF SpiFields
  <2> QED
    BY <1>1, <1>3, <1>4, <2>1, <2>2, <2>3
<1> QED
  BY <1>8, <1>9

\* The accesses outside the loop, when nothing is under way.
LEMMA OutsideKeeps ==
  ASSUME SpiFields, Credits, Exchange, Holding,
         SpiSelect \/ SpiForce \/ SpiDiscard \/ SpiFinish \/ SpiRelease
  PROVE  Exchange' /\ Holding'
<1>1. /\ spi_cmd.at \notin {"idle"} /\ ~InLoop /\ UNCHANGED spi_wire
      /\ spi_cmd'.write = spi_cmd.write /\ spi_cmd'.read = spi_cmd.read
      /\ spi_cmd'.written = spi_cmd.written /\ spi_cmd'.zeros = spi_cmd.zeros
      /\ spi_cmd'.ignore = spi_cmd.ignore /\ spi_cmd'.data = spi_cmd.data
      /\ spi_cmd'.slave = spi_cmd.slave /\ spi_cmd'.flags = spi_cmd.flags
  BY DEF SpiSelect, SpiForce, SpiDiscard, SpiFinish, SpiRelease, Goes, SpiFields, InLoop
<1>2. ~spi.primed /\ ~spi.transmitting /\ ~spi.RRDY
  BY <1>1, OneByte
<1>3. spi'.primed = spi.primed /\ spi'.transmitting = spi.transmitting /\ spi'.RRDY = spi.RRDY
  BY <1>2 DEF SpiSelect, SpiForce, SpiDiscard, SpiFinish, SpiRelease, SpiFields
<1>4. Sent' = Sent /\ Came' = Came /\ Shifted' = Shifted
  BY <1>1, <1>3 DEF Sent, Came, Shifted, OneIf
<1>5. [i \in 1..Shifted' |-> EntryAt(i)'] = [i \in 1..Shifted |-> EntryAt(i)]
  BY <1>1, <1>4 DEF EntryAt, ByteAt
<1>6. /\ spi_cmd'.at \notin {"idle", "select"} => spi'.selectHold = spi_cmd.slave
      /\ spi_cmd'.at \in {"select", "sso"} => Shifted = 0
      /\ spi_cmd'.at \in {"finish", "release"} =>
           spi_cmd.ignore = 0 /\ Len(spi_cmd.data) = spi_cmd.read
  BY DEF SpiSelect, SpiForce, SpiDiscard, SpiFinish, SpiRelease, Goes, SpiFields, Exchange
<1>7. Exchange'
  <2>1. OneIf(spi'.RRDY) = OneIf(spi.RRDY)
    BY <1>3
  <2> QED
    BY <1>1, <1>2, <1>3, <1>4, <1>5, <1>6, <2>1 DEF Exchange
<1>8. Holding'
  <2> SUFFICES ASSUME COMMAND_TOGGLE_SS_N \notin spi_cmd.flags,
                      spi_cmd'.at \notin {"idle", "select", "sso"}
               PROVE  /\ spi'.SSO /\ spi_frame' >= Shifted
                      /\ Shifted > 0 => spi'.select = spi_cmd.slave
    BY <1>1, <1>4 DEF Holding
  <2>1. CASE SpiForce
    <3>1. spi_cmd.at = "sso" /\ UNCHANGED spi_frame /\ spi'.SSO
      BY <2>1 DEF SpiForce, Goes, SpiFields
    <3>2. Shifted = 0 /\ spi_frame \in Nat
      BY <3>1 DEF Exchange, SpiFields
    <3> QED
      BY <3>1, <3>2
  <2>2. CASE SpiDiscard
    <3>1. /\ spi_cmd.at = "discard" /\ UNCHANGED spi_frame /\ spi'.SSO = spi.SSO
          /\ spi'.select = spi.select
      BY <2>2 DEF SpiDiscard, Goes, SpiFields
    <3> QED
      BY <3>1 DEF Holding
  <2>3. CASE SpiFinish
    <3>1. spi_cmd.at = "finish" /\ UNCHANGED <<spi, spi_frame>>
      BY <2>3 DEF SpiFinish, Goes
    <3> QED
      BY <3>1 DEF Holding
  <2>4. CASE SpiSelect \/ SpiRelease
    BY <2>4 DEF SpiSelect, SpiRelease, Goes, SpiFields
  <2> QED
    BY <2>1, <2>2, <2>3, <2>4
<1> QED
  BY <1>7, <1>8

\* A turn at TXDATA: the next byte of the command is put on its way.
LEMMA SendKeeps ==
  ASSUME SpiFields, Credits, Exchange, Holding, SpiSend
  PROVE  Exchange' /\ Holding'
<1>1. /\ spi_cmd.at = "send" /\ spi_cmd'.at = "receive" /\ UNCHANGED <<spi_wire, spi_frame>>
      /\ spi_cmd'.write = spi_cmd.write /\ spi_cmd'.read = spi_cmd.read
      /\ spi_cmd'.ignore = spi_cmd.ignore /\ spi_cmd'.data = spi_cmd.data
      /\ spi_cmd'.slave = spi_cmd.slave /\ spi_cmd'.flags = spi_cmd.flags
  BY SendCases
<1>2. /\ Came' = Came /\ \A i : EntryAt(i)' = EntryAt(i) /\ ByteAt(i)' = ByteAt(i)
  BY <1>1 DEF Came, EntryAt, ByteAt
<1>3. /\ spi'.RRDY = spi.RRDY /\ spi'.rx = spi.rx /\ spi'.transmitting = spi.transmitting
      /\ spi'.shift = spi.shift /\ spi'.select = spi.select
      /\ spi'.selectHold = spi.selectHold /\ spi'.SSO = spi.SSO
      /\ Shifted' = Shifted
      /\ spi'.primed => spi'.hold = ByteAt(Sent')
      /\ spi'.transmitting => spi'.shift = ByteAt(Sent')
      /\ spi_cmd'.zeros < spi_cmd.read => spi_cmd'.written = spi_cmd.write
  <2>1. CASE Idles \/ Ends
    <3>1. UNCHANGED spi /\ spi_cmd'.written = spi_cmd.written /\ spi_cmd'.zeros = spi_cmd.zeros
      BY <2>1 DEF Idles, Ends
    <3>2. Sent' = Sent /\ Shifted' = Shifted
      BY <1>1, <3>1 DEF Sent, Shifted
    <3> QED
      BY <1>1, <3>1, <3>2 DEF Exchange
  <2>2. CASE spi_cmd.credits > 0 /\ (SpiWrites \/ SpiReads)
    <3>1. ~spi.primed /\ ~spi.transmitting /\ ~spi.RRDY
      BY <2>2 DEF Credits, InFlight, OneIf, SpiFields
    <3>2. /\ spi'.primed = TRUE /\ spi'.transmitting = spi.transmitting /\ spi'.RRDY = spi.RRDY
          /\ spi'.rx = spi.rx /\ spi'.shift = spi.shift /\ spi'.select = spi.select
          /\ spi'.selectHold = spi.selectHold /\ spi'.SSO = spi.SSO
      BY <2>2, <3>1 DEF SpiWrites, SpiReads, SpiTxData, TRDY, SpiFields
    <3>3. Sent' = Sent + 1 /\ Sent \in Int
      BY <1>1, <2>2 DEF SpiWrites, SpiReads, Sent, SpiFields
    <3>4. Shifted' = Shifted
      <4>1. /\ OneIf(spi.primed) = 0 /\ OneIf(spi'.primed) = 1
            /\ OneIf(spi.transmitting) = 0 /\ OneIf(spi'.transmitting) = 0
        BY <3>1, <3>2 DEF OneIf
      <4> QED
        BY <3>3, <4>1 DEF Shifted
    <3>5. spi'.hold = ByteAt(Sent')
      <4>1. CASE SpiWrites
        <5>1. spi'.hold = spi_cmd.written + 1 /\ spi_cmd.written + 1 <= spi_cmd.write
          BY <3>1, <4>1 DEF SpiWrites, SpiTxData, TRDY, SpiFields
        <5>2. Sent = spi_cmd.written
          BY <1>1, <4>1 DEF SpiWrites, Exchange, Sent, SpiFields
        <5> QED
          BY <3>3, <5>1, <5>2 DEF ByteAt
      <4>2. CASE SpiReads
        <5>1. spi'.hold = SpiNoByte
          BY <3>1, <4>2 DEF SpiReads, SpiTxData, TRDY, SpiFields
        <5>2. Sent' > spi_cmd.write
          BY <3>3, <4>2 DEF SpiReads, Sent, SpiFields
        <5>3. ~(Sent' <= spi_cmd.write)
          BY <3>3, <5>2 DEF SpiFields
        <5> QED
          BY <5>1, <5>3 DEF ByteAt
      <4> QED
        BY <2>2, <4>1, <4>2
    <3>6. spi_cmd'.zeros < spi_cmd.read => spi_cmd'.written = spi_cmd.write
      BY <1>1, <2>2 DEF SpiWrites, SpiReads, Exchange, SpiFields
    <3> QED
      BY <3>1, <3>2, <3>4, <3>5, <3>6
  <2> QED
    BY <2>1, <2>2, SendCases
<1>4. [i \in 1..Shifted' |-> EntryAt(i)'] = [i \in 1..Shifted |-> EntryAt(i)]
  BY <1>2, <1>3
<1>5. ByteAt(Sent)' = ByteAt(Sent') /\ OneIf(spi'.RRDY) = OneIf(spi.RRDY)
  BY <1>1, <1>3 DEF ByteAt
<1>6. Exchange'
  BY <1>1, <1>2, <1>3, <1>4, <1>5 DEF Exchange
<1>7. Holding'
  BY <1>1, <1>3 DEF Holding
<1> QED
  BY <1>6, <1>7

\* A turn at RXDATA: an answer is dropped or kept, and the last one wanted ends the loop.
LEMMA ReceiveKeeps ==
  ASSUME SpiFields, Credits, Exchange, Holding, SpiReceive
  PROVE  Exchange' /\ Holding'
<1>1. /\ spi_cmd.at = "receive" /\ spi_cmd'.at \in {"poll", "finish"}
      /\ UNCHANGED <<spi_wire, spi_frame>>
      /\ spi_cmd'.write = spi_cmd.write /\ spi_cmd'.read = spi_cmd.read
      /\ spi_cmd'.written = spi_cmd.written /\ spi_cmd'.zeros = spi_cmd.zeros
      /\ spi_cmd'.slave = spi_cmd.slave /\ spi_cmd'.flags = spi_cmd.flags
      /\ spi'.primed = spi.primed /\ spi'.hold = spi.hold
      /\ spi'.transmitting = spi.transmitting /\ spi'.shift = spi.shift /\ spi'.rx = spi.rx
      /\ spi'.select = spi.select /\ spi'.selectHold = spi.selectHold /\ spi'.SSO = spi.SSO
  <2>1. /\ spi_cmd.at = "receive" /\ UNCHANGED <<spi_wire, spi_frame>>
        /\ UNCHANGED spi \/ spi' = [spi EXCEPT !.RRDY = FALSE]
    BY DEF SpiReceive
  <2>2. /\ spi_cmd'.at \in {"poll", "finish"}
        /\ spi_cmd'.write = spi_cmd.write /\ spi_cmd'.read = spi_cmd.read
        /\ spi_cmd'.written = spi_cmd.written /\ spi_cmd'.zeros = spi_cmd.zeros
        /\ spi_cmd'.slave = spi_cmd.slave /\ spi_cmd'.flags = spi_cmd.flags
    BY DEF SpiReceive, Take, SpiFields
  <2> QED
    BY <2>1, <2>2 DEF SpiFields
<1>2. Sent' = Sent /\ Shifted' = Shifted /\ ByteAt(Sent)' = ByteAt(Sent)
  BY <1>1 DEF Sent, Shifted, ByteAt
<1>3. [i \in 1..Shifted' |-> EntryAt(i)'] = [i \in 1..Shifted |-> EntryAt(i)]
  BY <1>1, <1>2 DEF EntryAt, ByteAt
<1>4. Holding'
  BY <1>1, <1>2 DEF Holding
<1>5. CASE ~spi_cmd.rrdy
  <2>1. /\ UNCHANGED spi /\ spi_cmd'.at = "poll" /\ spi_cmd'.ignore = spi_cmd.ignore
        /\ spi_cmd'.data = spi_cmd.data
    BY <1>5 DEF SpiReceive, SpiFields
  <2>2. Came' = Came
    BY <1>1, <2>1 DEF Came
  <2>3. Exchange'
    BY <1>1, <1>2, <1>3, <2>1, <2>2 DEF Exchange
  <2> QED
    BY <1>4, <2>3
<1>6. CASE spi_cmd.rrdy
  <2>1. spi.RRDY /\ spi'.RRDY = FALSE
    BY <1>1, <1>6 DEF SpiReceive, Credits, SpiFields
  <2>2. /\ Shifted \in Nat /\ spi.rx = Shifted /\ Came + OneIf(spi.RRDY) = Shifted
        /\ spi_cmd.data \in Seq(Nat)
        /\ \A i \in 1..Len(spi_cmd.data) : spi_cmd.data[i] = spi_cmd.write + i
        /\ spi_cmd.ignore > 0 => Len(spi_cmd.data) = 0
    BY <1>1, <2>1 DEF Exchange
  <2>3. Came \in Int /\ Came + 1 = Shifted
    BY <2>1, <2>2 DEF Came, OneIf, SpiFields
  <2>4. CASE spi_cmd.ignore > 0
    <3>1. /\ spi_cmd'.ignore = spi_cmd.ignore - 1 /\ spi_cmd'.data = spi_cmd.data
          /\ spi_cmd'.at = IF spi_cmd.ignore - 1 = 0 /\ Len(spi_cmd.data) = spi_cmd.read
                           THEN "finish" ELSE "poll"
      BY <1>6, <2>4 DEF SpiReceive, Take, SpiFields
    <3>2. Came' = Came + 1
      BY <1>1, <2>2, <3>1 DEF Came, SpiFields
    <3>3. Came' + OneIf(spi'.RRDY) = Shifted
      BY <2>1, <2>3, <3>2 DEF OneIf
    <3>4. Exchange'
      BY <1>1, <1>2, <1>3, <2>1, <2>2, <2>4, <3>1, <3>3 DEF Exchange
    <3> QED
      BY <1>4, <3>4
  <2>5. CASE ~(spi_cmd.ignore > 0)
    <3>1. /\ spi_cmd'.ignore = spi_cmd.ignore /\ spi_cmd'.data = Append(spi_cmd.data, spi.rx)
          /\ spi_cmd'.at = IF spi_cmd.ignore = 0
                                /\ Len(Append(spi_cmd.data, spi.rx)) = spi_cmd.read
                           THEN "finish" ELSE "poll"
      BY <1>6, <2>5 DEF SpiReceive, Take, SpiFields
    <3>2. spi_cmd.ignore = 0
      BY <2>5 DEF SpiFields
    <3>3. spi.rx = spi_cmd.write + Len(spi_cmd.data) + 1 /\ spi.rx \in Nat
      BY <2>2, <2>3, <3>2 DEF Came, SpiFields
    <3>4. /\ spi_cmd'.data \in Seq(Nat) /\ Len(spi_cmd'.data) = Len(spi_cmd.data) + 1
          /\ \A i \in 1..Len(spi_cmd.data) : spi_cmd'.data[i] = spi_cmd.data[i]
          /\ spi_cmd'.data[Len(spi_cmd.data) + 1] = spi.rx
      BY <2>2, <3>1, <3>3, AppendProperties
    <3>5. \A i \in 1..Len(spi_cmd'.data) : spi_cmd'.data[i] = spi_cmd'.write + i
      <4> SUFFICES ASSUME NEW i \in 1..Len(spi_cmd'.data)
                   PROVE  spi_cmd'.data[i] = spi_cmd.write + i
        BY <1>1
      <4>1. CASE i \in 1..Len(spi_cmd.data)
        BY <2>2, <3>4, <4>1
      <4>2. CASE i \notin 1..Len(spi_cmd.data)
        <5>1. i = Len(spi_cmd.data) + 1
          BY <2>2, <3>4, <4>2
        <5> QED
          BY <2>2, <3>3, <3>4, <5>1 DEF SpiFields
      <4> QED
        BY <4>1, <4>2
    <3>6. Came' = Came + 1
      <4>1. Came = spi_cmd.write + Len(spi_cmd.data)
        BY <2>2, <3>2 DEF Came, SpiFields
      <4>2. Came' = spi_cmd.write + Len(spi_cmd'.data)
        BY <1>1, <2>2, <3>1, <3>2, <3>4 DEF Came, SpiFields
      <4> QED
        BY <2>2, <3>4, <4>1, <4>2 DEF SpiFields
    <3>7. Came' + OneIf(spi'.RRDY) = Shifted
      BY <2>1, <2>3, <3>6 DEF OneIf
    <3>8. spi_cmd'.at = "finish" => Len(spi_cmd'.data) = spi_cmd.read
      BY <3>1
    <3>9. Exchange'
      BY <1>1, <1>2, <1>3, <2>1, <2>2, <3>1, <3>2, <3>4, <3>5, <3>7, <3>8 DEF Exchange
    <3> QED
      BY <1>4, <3>9
  <2> QED
    BY <2>4, <2>5
<1> QED
  BY <1>5, <1>6

\* Every step keeps what a command has exchanged, and the chip select under it.
LEMMA ExchangeKept ==
  ASSUME SpiFields, Credits, Exchange, Holding, [SpiNext]_spiVars
  PROVE  Exchange' /\ Holding'
<1>1. CASE \E slave \in SpiSlaves, write, read \in 0..SpiMaxLen,
              flags \in SUBSET {COMMAND_MERGE, COMMAND_TOGGLE_SS_N} :
             write + read > 0 /\ alt_avalon_spi_command(slave, write, read, flags)
  <2>1. PICK slave \in SpiSlaves, write \in 0..SpiMaxLen, read \in 0..SpiMaxLen,
             flags \in SUBSET {COMMAND_MERGE, COMMAND_TOGGLE_SS_N} :
               alt_avalon_spi_command(slave, write, read, flags)
    BY <1>1
  <2>2. write \in Nat /\ read \in Nat
    BY SpiAssumption
  <2> QED
    BY <2>1, <2>2, CommandBegins
<1>2. CASE SpiPoll
  <2>1. /\ spi_cmd.at = "poll" /\ spi_cmd'.at = "send" /\ UNCHANGED <<spi, spi_wire, spi_frame>>
        /\ spi_cmd'.write = spi_cmd.write /\ spi_cmd'.read = spi_cmd.read
        /\ spi_cmd'.written = spi_cmd.written /\ spi_cmd'.zeros = spi_cmd.zeros
        /\ spi_cmd'.ignore = spi_cmd.ignore /\ spi_cmd'.data = spi_cmd.data
        /\ spi_cmd'.slave = spi_cmd.slave /\ spi_cmd'.flags = spi_cmd.flags
    BY <1>2 DEF SpiPoll, SpiFields
  <2>2. /\ Sent' = Sent /\ Came' = Came /\ Shifted' = Shifted /\ ByteAt(Sent)' = ByteAt(Sent)
    BY <2>1 DEF Sent, Came, Shifted, ByteAt
  <2>3. [i \in 1..Shifted' |-> EntryAt(i)'] = [i \in 1..Shifted |-> EntryAt(i)]
    BY <2>1, <2>2 DEF EntryAt, ByteAt
  <2>4. Exchange'
    BY <2>1, <2>2, <2>3 DEF Exchange
  <2>5. Holding'
    BY <2>1, <2>2 DEF Holding
  <2> QED
    BY <2>4, <2>5
<1>3. CASE UNCHANGED spiVars
  <2>1. UNCHANGED <<spi, spi_cmd, spi_wire, spi_frame>>
    BY <1>3 DEF spiVars
  <2>2. /\ Sent' = Sent /\ Came' = Came /\ Shifted' = Shifted /\ ByteAt(Sent)' = ByteAt(Sent)
    BY <2>1 DEF Sent, Came, Shifted, ByteAt
  <2>3. [i \in 1..Shifted' |-> EntryAt(i)'] = [i \in 1..Shifted |-> EntryAt(i)]
    BY <2>1, <2>2 DEF EntryAt, ByteAt
  <2>4. Exchange'
    BY <2>1, <2>2, <2>3 DEF Exchange
  <2>5. Holding'
    BY <2>1, <2>2 DEF Holding
  <2> QED
    BY <2>4, <2>5
<1> QED
  BY <1>1, <1>2, <1>3, LoadKeeps, ShiftKeeps, OutsideKeeps, SendKeeps, ReceiveKeeps
  DEF SpiNext, SpiDriver

\* A command that is over has exchanged what was asked.
LEMMA OverIsDone ==
  ASSUME SpiFields, Credits, Exchange, Holding, SpiNoOverrun
  PROVE  SpiSafe
<1> SUFFICES ASSUME spi_cmd.at = "release"
             PROVE  /\ spi_wire = [i \in 1..(spi_cmd.write + spi_cmd.read) |-> EntryAt(i)]
                    /\ spi_cmd.data = [i \in 1..spi_cmd.read |-> spi_cmd.write + i]
                    /\ COMMAND_TOGGLE_SS_N \notin spi_cmd.flags
                         => spi_frame >= spi_cmd.write + spi_cmd.read
  BY DEF SpiSafe, SpiExchanged, SpiHeld, EntryAt, ByteAt
<1>1. ~spi.RRDY
  BY OneByte DEF InLoop
<1>2. /\ spi_cmd.ignore = 0 /\ Len(spi_cmd.data) = spi_cmd.read /\ spi_cmd.data \in Seq(Nat)
      /\ \A i \in 1..Len(spi_cmd.data) : spi_cmd.data[i] = spi_cmd.write + i
      /\ spi_wire = [i \in 1..Shifted |-> EntryAt(i)] /\ Came + OneIf(spi.RRDY) = Shifted
  BY DEF Exchange
<1>3. Shifted = spi_cmd.write + spi_cmd.read
  BY <1>1, <1>2 DEF Came, OneIf, SpiFields
<1>4. spi_cmd.data = [i \in 1..spi_cmd.read |-> spi_cmd.write + i]
  <2>1. spi_cmd.data \in [1..spi_cmd.read -> Nat]
    BY <1>2, LenProperties
  <2> QED
    BY <1>2, <2>1
<1>5. COMMAND_TOGGLE_SS_N \notin spi_cmd.flags => spi_frame >= Shifted
  BY DEF Holding
<1> QED
  BY <1>2, <1>3, <1>4, <1>5

\* The account of the bytes.
SpiInv == SpiFields /\ Credits /\ SpiNoOverrun /\ Exchange /\ Holding

\* Between commands the bus is at rest.
LEMMA SpiInvInit == SpiInit => SpiInv
<1> SUFFICES ASSUME SpiInit
             PROVE  SpiInv
  OBVIOUS
<1>1. /\ spi_cmd.at = "idle" /\ spi_cmd.credits = 1 /\ ~spi.primed /\ ~spi.transmitting
      /\ ~spi.RRDY /\ ~spi.ROE /\ ~spi.TOE
  BY DEF SpiInit, NoCommand
<1>2. SpiFields
  BY DEF SpiInit, NoCommand, SpiFields
<1> QED
  BY <1>1, <1>2 DEF SpiInv, Credits, InFlight, OneIf, InLoop, SpiNoOverrun, Exchange, Holding

\* Every step keeps the account.
LEMMA SpiInvStep == SpiInv /\ [SpiNext]_spiVars => SpiInv'
BY SpiFieldsKept, CreditsKept, ExchangeKept DEF SpiInv

\* For any slaves, any number of bytes and in whatever order the peripheral's steps fall
\* between the driver's accesses, no byte is overwritten, a command exchanges just its
\* bytes, and the chip select is held (altera_avalon_spi.c:41-134).
THEOREM SpiIsSafe == SpiSpec => []SpiSafe
<1>1. SpiInv => SpiSafe
  BY OverIsDone DEF SpiInv
<1> QED
  BY SpiInvInit, SpiInvStep, <1>1, PTL DEF SpiSpec

-----------------------------------------------------------------------------
(* Types: what the registers of the UART and of its driver hold.            *)

\* Characters that a write has been given and not stored yet.
UartToStore ==
  IF fg.pc \in {"w_test", "w_enable", "w_wait", "w_store", "w_publish"} THEN fg.count ELSE 0

\* No more characters travel than there are, a write has those it was given, and a read
\* that takes one has asked for more.
UartBudget ==
  /\ ends.left + ends.written + ends.came + UartToStore <= UartChars
  /\ fg.pc = "r_take" => fg.count < fg.len

UartTypes == UartTypeOK /\ UartBudget /\ LeftToWrite

\* The device moves a character from register to register, or brings a new one.
LEMMA UartDeviceTypes ==
  ASSUME UartTypes, Device
  PROVE  UartTypeOK' /\ UartBudget'
<1>1. CASE Receive
  <2>1. PICK damaged \in BOOLEAN :
          hw' = [hw EXCEPT !.rrdy = TRUE, !.fe = @ \/ damaged,
                           !.rxdata = IF damaged THEN Damaged ELSE ends.came + 1]
    BY <1>1 DEF Receive
  <2>2. /\ ends' = [ends EXCEPT !.came = @ + 1, !.left = @ - 1]
        /\ UNCHANGED <<sp, isr, fg>> /\ ends.left > 0
    BY <1>1 DEF Receive
  <2>3. /\ ends.came + 1 \in 0..UartChars /\ ends.left - 1 \in 0..UartChars
        /\ UartToStore \in Nat
    BY <2>2, UartAssumption DEF UartTypes, UartTypeOK, UartBudget, UartToStore
  <2>4. (IF damaged THEN Damaged ELSE ends.came + 1) \in Char /\ (hw.fe \/ damaged) \in BOOLEAN
    BY <2>3, UartAssumption DEF Char, Damaged
  <2>5. hw' \in [control : SUBSET IrqBits, rrdy : BOOLEAN, rxdata : Char, fe : BOOLEAN,
                 trdy : BOOLEAN, txdata : Char, shifting : BOOLEAN, shift : Char]
    BY <2>1, <2>4 DEF UartTypes, UartTypeOK
  <2>6. ends' \in [left : 0..UartChars, written : 0..UartChars, sent : Char,
              came : 0..UartChars, read : 0..UartChars, damaged : BOOLEAN, lapped : BOOLEAN]
    BY <2>2, <2>3 DEF UartTypes, UartTypeOK
  <2>7. /\ ends'.left = ends.left - 1 /\ ends'.came = ends.came + 1
        /\ ends'.written = ends.written /\ UartToStore' = UartToStore
    BY <2>2 DEF UartTypes, UartTypeOK, UartToStore
  <2>8. UartBudget'
    BY <2>2, <2>3, <2>7 DEF UartTypes, UartTypeOK, UartBudget
  <2> QED
    BY <2>2, <2>5, <2>6, <2>8 DEF UartTypes, UartTypeOK
<1>2. CASE LoadShifter
  BY <1>2 DEF LoadShifter, UartTypes, UartTypeOK, UartBudget, UartToStore
<1>3. CASE ShiftOut
  BY <1>3 DEF ShiftOut, UartTypes, UartTypeOK, UartBudget, UartToStore
<1> QED
  BY <1>1, <1>2, <1>3 DEF Device

\* What the handler leaves alone.
LEMMA UartHandlerAside ==
  ASSUME UartTypes, Handler
  PROVE  /\ UNCHANGED fg /\ ends'.left = ends.left /\ ends'.written = ends.written
         /\ ends'.came = ends.came
BY DEF Handler, IrqEnter, IrqClear, IrqRx, IrqTx, IrqTxEnd, IrqReturn, UartTypes, UartTypeOK

\* The handler keeps every register, slot and mask in its type.
LEMMA UartHandlerTypes ==
  ASSUME UartTypes, Handler
  PROVE  UartTypeOK'
<1>1. CASE IrqEnter
  <2>1. STATUS \in SUBSET StatusBits
    BY DEF STATUS, Flag, StatusBits
  <2> QED
    BY <1>1, <2>1 DEF IrqEnter, UartTypes, UartTypeOK
<1>2. CASE IrqClear
  <2>1. /\ hw' = [hw EXCEPT !.fe = FALSE] /\ UNCHANGED <<sp, fg, ends>>
        /\ \E p \in {"rx", "tx"} : isr' = [isr EXCEPT !.pc = p]
    BY <1>2 DEF IrqClear
  <2> QED
    BY <2>1 DEF UartTypes, UartTypeOK
<1>6. CASE IrqReturn
  BY <1>6 DEF IrqReturn, UartTypes, UartTypeOK
<1>3. CASE IrqRx
  <2>1. /\ isr' = [isr EXCEPT !.pc = "tx"] /\ UNCHANGED fg
        /\ ends' = [ends EXCEPT !.lapped = @ \/ (sp.rx_end # sp.rx_start /\ sp'.rx_end = sp.rx_start)]
    BY <1>3 DEF IrqRx
  <2>2. isr' \in [pc : {"off", "clear", "rx", "tx", "tx_end"}, status : SUBSET StatusBits]
    BY <2>1 DEF UartTypes, UartTypeOK
  <2>3. ends' \in [left : 0..UartChars, written : 0..UartChars, sent : Char,
              came : 0..UartChars, read : 0..UartChars, damaged : BOOLEAN, lapped : BOOLEAN]
    BY <2>1 DEF UartTypes, UartTypeOK
  <2>4. CASE rx_Drop
    BY <2>1, <2>2, <2>3, <2>4 DEF rx_Drop, UartTypes, UartTypeOK
  <2>5. CASE rx_Store
    <3> DEFINE mask == IF After(After(sp.rx_end)) = sp.rx_start THEN {"RRDY"} ELSE {}
    <3>1. After(sp.rx_end) \in Slot
      BY AfterMoves DEF UartTypes, UartTypeOK
    <3>2. /\ sp' = [sp EXCEPT !.rx_buf[sp.rx_end] = hw.rxdata, !.rx_end = After(sp.rx_end),
                               !.ctrl = @ \ mask]
          /\ hw' = [hw EXCEPT !.rrdy = FALSE,
                               !.control = IF mask = {} THEN @ ELSE sp.ctrl \ mask]
      BY <2>5 DEF rx_Store
    <3> HIDE DEF mask
    <3>3. sp' \in [ctrl : SUBSET IrqBits, rx_start : Slot, rx_end : Slot,
                   tx_start : Slot, tx_end : Slot, rx_buf : [Slot -> Char],
                   tx_buf : [Slot -> Char]]
      BY <3>1, <3>2 DEF UartTypes, UartTypeOK
    <3>4. hw' \in [control : SUBSET IrqBits, rrdy : BOOLEAN, rxdata : Char, fe : BOOLEAN,
                   trdy : BOOLEAN, txdata : Char, shifting : BOOLEAN, shift : Char]
      BY <3>2 DEF UartTypes, UartTypeOK
    <3> QED
      BY <2>1, <2>2, <2>3, <3>3, <3>4 DEF UartTypes, UartTypeOK
  <2> QED
    BY <1>3, <2>4, <2>5 DEF IrqRx
<1>4. CASE IrqTx
  <2>1. After(sp.tx_start) \in Slot
    BY AfterMoves DEF UartTypes, UartTypeOK
  <2>2. sp.ctrl \cup {"TRDY"} \in SUBSET IrqBits
    BY DEF UartTypes, UartTypeOK, IrqBits
  <2>3. CASE tx_Send
    <3>1. sp.tx_buf[sp.tx_start] \in Char
      BY DEF UartTypes, UartTypeOK
    <3>2. sp' \in [ctrl : SUBSET IrqBits, rx_start : Slot, rx_end : Slot,
                   tx_start : Slot, tx_end : Slot, rx_buf : [Slot -> Char],
                   tx_buf : [Slot -> Char]]
      BY <2>1, <2>2, <2>3 DEF tx_Send, UartTypes, UartTypeOK
    <3>3. hw' \in [control : SUBSET IrqBits, rrdy : BOOLEAN, rxdata : Char, fe : BOOLEAN,
                   trdy : BOOLEAN, txdata : Char, shifting : BOOLEAN, shift : Char]
      BY <2>3, <3>1 DEF tx_Send, UartTypes, UartTypeOK
    <3> QED
      BY <1>4, <2>3, <3>2, <3>3 DEF IrqTx, tx_Send, UartTypes, UartTypeOK
  <2>4. CASE tx_Empty
    BY <1>4, <2>4 DEF IrqTx, tx_Empty, UartTypes, UartTypeOK
  <2> QED
    BY <1>4, <2>3, <2>4 DEF IrqTx
<1>5. CASE IrqTxEnd
  <2> DEFINE mask == IF sp.tx_start = sp.tx_end THEN {"TRDY", "DCTS"} ELSE {}
  <2>1. /\ sp' = [sp EXCEPT !.ctrl = @ \ mask] /\ hw' = [hw EXCEPT !.control = sp.ctrl \ mask]
        /\ isr' = [pc |-> "off", status |-> {}] /\ UNCHANGED <<fg, ends>>
    BY <1>5 DEF IrqTxEnd
  <2> HIDE DEF mask
  <2> QED
    BY <2>1 DEF UartTypes, UartTypeOK
<1> QED
  BY <1>1, <1>2, <1>3, <1>4, <1>5, <1>6 DEF Handler

LEMMA UartHandlerBudget ==
  ASSUME UartTypes, Handler
  PROVE  UartBudget'
BY UartHandlerAside DEF UartTypes, UartBudget, UartToStore

\* A call that only moves on.
LEMMA UartGoes ==
  ASSUME UartTypes, NEW place \in Places, Goto(place), UNCHANGED <<sp, hw, isr, ends>>
  PROVE  UartTypeOK'
BY DEF Goto, UartTypes, UartTypeOK

\* Unmasking bits of the control word, and moving on or returning.
LEMMA UartUnmasks ==
  ASSUME UartTypes, NEW bits \in SUBSET IrqBits, Unmask(bits), UNCHANGED <<isr, ends>>,
         (\E place \in Places : Goto(place)) \/ fg' = AtRest
  PROVE  UartTypeOK'
<1>1. fg' \in [pc : Places, count : 0..UartMaxLen, len : 0..UartMaxLen, block : BOOLEAN]
  <2>1. CASE \E place \in Places : Goto(place)
    BY <2>1 DEF Goto, UartTypes, UartTypeOK
  <2>2. CASE fg' = AtRest
    BY <2>2, UartAssumption DEF AtRest, Places
  <2> QED
    BY <2>1, <2>2
<1> QED
  BY <1>1 DEF Unmask, UartTypes, UartTypeOK

\* The calls of the program keep the types.
LEMMA UartCallTypes ==
  ASSUME UartTypes, Foreground
  PROVE  UartTypeOK'
<1> UNCHANGED isr
  BY DEF Foreground
<1>1. CASE CallWrite
  <2>1. PICK n \in 1..UartMaxLen, b \in BOOLEAN :
          /\ n <= ends.left
          /\ fg' = [pc |-> "w_test", count |-> n, len |-> 0, block |-> b]
          /\ ends' = [ends EXCEPT !.left = @ - n]
    BY <1>1 DEF CallWrite
  <2>2. ends.left - n \in 0..UartChars
    BY <2>1, UartAssumption DEF UartTypes, UartTypeOK
  <2> QED
    BY <1>1, <2>1, <2>2, UartAssumption DEF CallWrite, UartTypes, UartTypeOK, Places
<1>2. CASE CallRead
  BY <1>2, UartAssumption DEF CallRead, UartTypes, UartTypeOK, Places
<1>3. CASE CallClose
  BY <1>3 DEF CallClose, UartTypes, UartTypeOK, Places
<1>4. CASE w_Test \/ w_Wait \/ r_Test
  <2>1. UNCHANGED <<sp, hw, ends>> /\ \E place \in Places : Goto(place)
    BY <1>4 DEF w_Test, w_Wait, r_Test, Places, UartTypes, LeftToWrite
  <2> QED
    BY <2>1, UartGoes
<1>5. CASE r_Check
  <2>1. fg.count = 0 \/ fg.count > 0
    BY DEF UartTypes, LeftToWrite
  <2>2. UNCHANGED <<sp, hw, ends>> /\ \E place \in Places : Goto(place)
    BY <1>5, <2>1 DEF r_Check, Places
  <2> QED
    BY <2>2, UartGoes
<1>6. CASE w_Enable \/ w_End \/ r_Enable \/ r_End
  <2>1. \E bits \in SUBSET IrqBits : Unmask(bits)
    BY <1>6 DEF w_Enable, w_End, r_Enable, r_End, IrqBits
  <2>2. UNCHANGED ends /\ ((\E place \in Places : Goto(place)) \/ fg' = AtRest)
    BY <1>6 DEF w_Enable, w_End, r_Enable, r_End, Places
  <2> QED
    BY <2>1, <2>2, UartUnmasks
<1>7. CASE w_Store
  <2>1. fg.count \in Nat /\ fg.count > 0 /\ UartToStore = fg.count
    BY <1>7 DEF w_Store, UartTypes, LeftToWrite, UartToStore
  <2>2. /\ ends.written + 1 \in 0..UartChars /\ ends.written + 1 \in Char
        /\ fg.count - 1 \in 0..UartMaxLen
    BY <2>1, UartAssumption DEF UartTypes, UartTypeOK, UartBudget, Char
  <2>3. /\ sp' = [sp EXCEPT !.tx_buf[sp.tx_end] = ends.written + 1]
        /\ ends' = [ends EXCEPT !.written = ends.written + 1]
        /\ fg' = [fg EXCEPT !.pc = "w_publish", !.count = fg.count - 1]
        /\ UNCHANGED hw
    BY <1>7 DEF w_Store
  <2>4. sp' \in [ctrl : SUBSET IrqBits, rx_start : Slot, rx_end : Slot,
                 tx_start : Slot, tx_end : Slot, rx_buf : [Slot -> Char],
                 tx_buf : [Slot -> Char]]
    BY <2>2, <2>3 DEF UartTypes, UartTypeOK
  <2> QED
    BY <2>2, <2>3, <2>4 DEF UartTypes, UartTypeOK, Places
<1>8. CASE w_Publish
  <2>1. After(sp.tx_end) \in Slot
    BY AfterMoves DEF UartTypes, UartTypeOK
  <2> QED
    BY <1>8, <2>1 DEF w_Publish, Goto, UartTypes, UartTypeOK, Places
<1>9. CASE r_Take
  <2> DEFINE c == sp.rx_buf[sp.rx_start]
  <2>1. /\ ends' = [ends EXCEPT !.read = IF c = Damaged THEN @ ELSE c,
                                !.damaged = @ \/ c = Damaged]
        /\ fg' = [fg EXCEPT !.pc = "r_advance", !.count = @ + 1]
        /\ UNCHANGED <<sp, hw>>
    BY <1>9 DEF r_Take
  <2>2. c \in Char
    BY DEF UartTypes, UartTypeOK
  <2> HIDE DEF c
  <2>3. c # Damaged => c \in 0..UartChars
    BY <2>2, UartAssumption DEF Char, Damaged
  <2>4. ends' \in [left : 0..UartChars, written : 0..UartChars, sent : Char,
              came : 0..UartChars, read : 0..UartChars, damaged : BOOLEAN, lapped : BOOLEAN]
    BY <2>1, <2>3 DEF UartTypes, UartTypeOK
  <2>5. fg.count + 1 \in 0..UartMaxLen
    BY <1>9, UartAssumption DEF r_Take, UartTypes, UartTypeOK, UartBudget
  <2> QED
    BY <2>1, <2>4, <2>5 DEF UartTypes, UartTypeOK, Places
<1>10. CASE r_Advance
  <2>1. After(sp.rx_start) \in Slot
    BY AfterMoves DEF UartTypes, UartTypeOK
  <2> QED
    BY <1>10, <2>1 DEF r_Advance, Goto, UartTypes, UartTypeOK, Places
<1>11. CASE c_Wait
  BY <1>11, UartAssumption DEF c_Wait, AtRest, UartTypes, UartTypeOK, Places
<1> QED
  BY <1>1, <1>2, <1>3, <1>4, <1>5, <1>6, <1>7, <1>8, <1>9, <1>10, <1>11
  DEF Foreground, Call, Writing, Reading

\* ... and give a character out once: to a write, which stores it.
LEMMA UartCallBudget ==
  ASSUME UartTypes, Foreground
  PROVE  UartBudget'
<1>0. fg.count \in Nat /\ {ends.left, ends.written, ends.came} \subseteq Nat
  BY DEF UartTypes, UartTypeOK, LeftToWrite
<1>1. CASE CallWrite
  <2>1. PICK n \in 1..UartMaxLen, b \in BOOLEAN :
          /\ n <= ends.left
          /\ fg' = [pc |-> "w_test", count |-> n, len |-> 0, block |-> b]
          /\ ends' = [ends EXCEPT !.left = @ - n]
    BY <1>1 DEF CallWrite
  <2>2. /\ UartToStore = 0 /\ UartToStore' = n /\ ends'.left = ends.left - n
        /\ ends'.written = ends.written /\ ends'.came = ends.came
    BY <1>1, <2>1 DEF CallWrite, UartToStore, UartTypes, UartTypeOK
  <2> QED
    BY <1>0, <2>1, <2>2, UartAssumption DEF UartTypes, UartBudget
<1>2. CASE w_Store
  <2>1. /\ UartToStore = fg.count /\ UartToStore' = fg.count - 1 /\ fg'.pc = "w_publish"
        /\ ends'.left = ends.left /\ ends'.written = ends.written + 1
        /\ ends'.came = ends.came
    BY <1>2 DEF w_Store, UartToStore, UartTypes, UartTypeOK
  <2> QED
    BY <1>0, <2>1, UartAssumption DEF UartTypes, UartBudget
<1>3. CASE r_Take
  <2>1. /\ UartToStore = 0 /\ UartToStore' = 0 /\ fg'.pc = "r_advance"
        /\ ends'.left = ends.left /\ ends'.written = ends.written
        /\ ends'.came = ends.came
    BY <1>3 DEF r_Take, UartToStore, UartTypes, UartTypeOK
  <2> QED
    BY <2>1 DEF UartTypes, UartBudget
<1>4. ASSUME UNCHANGED ends, UartToStore' <= UartToStore, UartToStore \in Nat, UartToStore' \in Nat,
             fg'.pc = "r_take" => fg'.count < fg'.len
      PROVE  UartBudget'
  BY <1>0, <1>4, UartAssumption DEF UartTypes, UartBudget
<1>5. CASE CallRead \/ CallClose \/ w_End \/ r_End \/ c_Wait
  <2>1. UNCHANGED ends /\ fg'.pc \in {"r_test", "c_wait", "idle"}
    <3>1. CASE CallRead
      BY <3>1 DEF CallRead
    <3>3. CASE CallClose
      BY <3>3 DEF CallClose, UartTypes, UartTypeOK
    <3>2. CASE w_End \/ r_End \/ c_Wait
      BY <3>2 DEF w_End, r_End, c_Wait, AtRest
    <3> QED
      BY <1>5, <3>1, <3>2, <3>3
  <2> QED
    BY <1>0, <1>4, <2>1 DEF UartToStore
<1>6. CASE w_Test \/ w_Enable \/ w_Wait \/ w_Publish
  BY <1>0, <1>4, <1>6
  DEF w_Test, w_Enable, w_Wait, w_Publish, Goto, UartToStore, UartTypes, UartTypeOK
<1>7. CASE r_Test
  BY <1>0, <1>4, <1>7 DEF r_Test, Goto, UartToStore, UartTypes, UartTypeOK
<1>8. CASE r_Check \/ r_Advance \/ r_Enable
  <2>1. /\ UNCHANGED ends /\ fg'.pc \in {"r_enable", "r_end", "r_test"}
        /\ fg.pc \in {"r_check", "r_advance", "r_enable"}
    <3>1. fg.count = 0 \/ fg.count > 0
      BY <1>0
    <3> QED
      BY <1>8, <3>1 DEF r_Check, r_Advance, r_Enable, Goto, UartTypes, UartTypeOK
  <2> QED
    BY <1>4, <2>1 DEF UartToStore
<1> QED
  BY <1>1, <1>2, <1>3, <1>5, <1>6, <1>7, <1>8 DEF Foreground, Call, Writing, Reading

LEMMA UartInitTypes == UartInit => UartTypes
<1> SUFFICES ASSUME UartInit PROVE UartTypes
  OBVIOUS
<1>1. 0 \in Slot /\ 0 \in Char /\ UartChars \in 0..UartChars /\ 0 \in 0..UartChars
  BY UartAssumption DEF Slot, Char
<1>2. UartTypeOK
  BY <1>1, UartAssumption DEF UartInit, AtRest, UartTypeOK, IrqBits, Places
<1>3. UartBudget /\ LeftToWrite
  BY UartAssumption DEF UartInit, AtRest, UartBudget, UartToStore, LeftToWrite
<1> QED
  BY <1>2, <1>3 DEF UartTypes

LEMMA UartStepTypes ==
  ASSUME UartTypes, [UartNext]_uartVars
  PROVE  UartTypes'
<1>1. LeftToWrite'
  BY LeftToWriteKept DEF UartTypes
<1>2. CASE UNCHANGED uartVars
  BY <1>2 DEF uartVars, UartTypes, UartTypeOK, UartBudget, UartToStore, LeftToWrite
<1> QED
  BY <1>1, <1>2, UartDeviceTypes, UartHandlerTypes, UartHandlerBudget, UartCallTypes, UartCallBudget
  DEF UartNext, UartTypes

-----------------------------------------------------------------------------
(* Types: what those of the JTAG UART and of its driver hold.               *)

\* Characters that a write has been given and not copied yet.
JtagToStore ==
  CASE jc.pc \in {"w_sample", "w_copy", "w_kick", "w_wait", "w_host"} -> jc.count
    [] jc.pc = "w_publish" -> jc.count - jc.n
    [] OTHER -> 0

\* No more characters travel than there are, and a call moves no more than it was asked to.
JtagBudget ==
  /\ jo.left + jo.written + jo.came + JtagToStore <= JtagChars
  /\ jc.done + jc.count <= JtagMaxLen

JtagTypes == JtagTypeOK /\ JtagBudget

\* The records of the driver and of its device, for the proofs.
JsType ==
  [irq_enable : SUBSET {"RE", "WE"}, timeout : 0..JTAG_INT_MAX,
   host_inactive : 0..JTAG_INT_MAX, rx_in : JSlot, rx_out : JSlot,
   tx_in : JSlot, tx_out : JSlot, rx_buf : [JSlot -> 0..JtagChars],
   tx_buf : [JSlot -> 0..JtagChars]]
JdTypeOK ==
  /\ jd.ien \in SUBSET {"RE", "WE"} /\ {jd.pause_irq, jd.ac} \subseteq BOOLEAN
  /\ jd.rfifo \in Seq(JChar) /\ jd.wfifo \in Seq(JChar)
  /\ Len(jd.rfifo) <= FifoDepth
JiType ==
  [pc : {"off", "control", "rx", "rx_end", "tx", "tx_end"},
   control : SUBSET {"RI", "WI"}, ravail : BOOLEAN, space : 0..FifoDepth]
JcType ==
  [pc : {"idle", "w_sample", "w_copy", "w_publish", "w_kick", "w_wait", "w_host",
         "w_return", "r_sample", "r_copy", "r_publish", "r_wait", "r_more",
         "r_return", "close"},
   count : 0..JtagMaxLen, done : 0..JtagMaxLen, n : 0..JtagMaxLen,
   in : JSlot, out : JSlot, block : BOOLEAN]
JoType ==
  [host : BOOLEAN, left : 0..JtagChars, written : 0..JtagChars, sent : 0..JtagChars,
   came : 0..JtagChars, read : 0..JtagChars]

LEMMA JtagTypesAre ==
  JtagTypeOK <=> js \in JsType /\ JdTypeOK /\ ji \in JiType /\ jc \in JcType /\ jo \in JoType
BY DEF JtagTypeOK, JsType, JdTypeOK, JiType, JcType, JoType

\* The ends of a queue of characters.
LEMMA QueueEnds ==
  /\ \A q \in Seq(JChar) : q # <<>> =>
       Head(q) \in JChar /\ Tail(q) \in Seq(JChar) /\ Len(Tail(q)) = Len(q) - 1
  /\ \A q \in Seq(JChar), c \in JChar : Append(q, c) \in Seq(JChar) /\ Len(Append(q, c)) = Len(q) + 1
  /\ \A q \in Seq(JChar) : Len(q) \in Nat /\ (Len(q) = 0 <=> q = <<>>)
<1>1. ASSUME NEW q \in Seq(JChar), q # <<>>
      PROVE  Head(q) \in JChar /\ Tail(q) \in Seq(JChar) /\ Len(Tail(q)) = Len(q) - 1
  BY <1>1
<1>2. ASSUME NEW q \in Seq(JChar), NEW c \in JChar
      PROVE  Append(q, c) \in Seq(JChar) /\ Len(Append(q, c)) = Len(q) + 1
  OBVIOUS
<1>3. ASSUME NEW q \in Seq(JChar)
      PROVE  Len(q) \in Nat /\ (Len(q) = 0 <=> q = <<>>)
  OBVIOUS
<1> QED
  BY <1>1, <1>2, <1>3

\* What is known of the driver already.
JtagKnown == JtagFields /\ JtagNumbers /\ FifoRoom /\ OutInv /\ InInv

LEMMA JtagToStoreIs ==
  ASSUME JtagTypes, JtagKnown
  PROVE  JtagToStore \in Nat
<1>1. jc.count \in Nat /\ jc.n \in Nat
  BY JtagAssumption DEF JtagTypes, JtagTypeOK
<1>2. jc.pc = "w_publish" => jc.n <= jc.count
  BY DEF JtagKnown, OutInv, PieceFits
<1> QED
  BY <1>1, <1>2 DEF JtagToStore

\* A step in which no character is given out, written or taken.
LEMMA JtagBudgetRests ==
  ASSUME JtagTypes, JtagKnown, JtagToStore' \in Nat, JtagToStore' <= JtagToStore,
         jo'.left = jo.left, jo'.written = jo.written, jo'.came = jo.came,
         jc'.done \in Nat, jc'.count \in Nat, jc'.done + jc'.count <= jc.done + jc.count
  PROVE  JtagBudget'
<1>1. /\ {jo.left, jo.written, jo.came, jc.done, jc.count} \subseteq Nat
      /\ JtagChars \in Nat /\ JtagMaxLen \in Nat
  BY JtagAssumption DEF JtagTypes, JtagTypeOK
<1> QED
  BY <1>1, JtagToStoreIs DEF JtagTypes, JtagBudget

\* Host and device: a character that comes is the next of those that are left.
LEMMA JtagHostTypes ==
  ASSUME JtagTypes, JtagKnown, Host
  PROVE  JtagTypeOK' /\ JtagBudget'
<1>a. js \in JsType /\ JdTypeOK /\ ji \in JiType /\ jc \in JcType /\ jo \in JoType
  BY JtagTypesAre DEF JtagTypes
<1>0. UNCHANGED <<js, ji, jc>> /\ JtagToStore' = JtagToStore
  BY DEF Host, HostMoves, HostSends, HostPauses, HostTakes, JtagToStore
<1> SUFFICES JdTypeOK' /\ jo' \in JoType /\ JtagBudget'
  BY <1>a, <1>0 DEF JtagTypeOK, JsType, JdTypeOK, JiType, JcType, JoType
<1>1. CASE HostMoves
  BY <1>a, <1>0, <1>1 DEF HostMoves, JoType, JdTypeOK, JtagTypes, JtagBudget
<1>2. CASE HostSends
  <2>1. /\ jo.left > 0 /\ Len(jd.rfifo) < FifoDepth
        /\ jd' = [jd EXCEPT !.rfifo = Append(@, jo.came + 1), !.ac = TRUE]
        /\ jo' = [jo EXCEPT !.came = @ + 1, !.left = @ - 1]
    BY <1>2 DEF HostSends
  <2>2. jo.left + jo.written + jo.came + JtagToStore <= JtagChars /\ JtagToStore \in Nat
    BY JtagToStoreIs DEF JtagTypes, JtagBudget
  <2>3. /\ jo.left \in Nat /\ jo.written \in Nat /\ jo.came \in Nat
        /\ JtagChars \in Nat /\ FifoDepth \in Nat
    BY <1>a, JtagAssumption DEF JoType
  <2>4. jo.came + 1 \in 0..JtagChars /\ jo.left - 1 \in 0..JtagChars /\ jo.came + 1 \in JChar
    <3>1. jo.left <= JtagChars
      BY <1>a, JtagAssumption DEF JoType
    <3>2. jo.came + 1 <= JtagChars
      BY <2>1, <2>2, <2>3
    <3> QED
      BY <2>1, <2>3, <3>1, <3>2 DEF JChar
  <2>5. jo' \in JoType
    BY <1>a, <2>1, <2>4 DEF JoType
  <2>6. /\ Append(jd.rfifo, jo.came + 1) \in Seq(JChar)
        /\ Len(Append(jd.rfifo, jo.came + 1)) <= FifoDepth
    <3>1. Len(jd.rfifo) \in Nat
      BY <1>a, QueueEnds DEF JdTypeOK
    <3> QED
      BY <1>a, <2>1, <2>3, <2>4, <3>1, QueueEnds DEF JdTypeOK
  <2>7. /\ jd'.rfifo = Append(jd.rfifo, jo.came + 1) /\ jd'.wfifo = jd.wfifo
        /\ jd'.ien = jd.ien /\ jd'.pause_irq = jd.pause_irq /\ jd'.ac = TRUE
    BY <2>1 DEF JtagKnown, JtagFields
  <2>8. JdTypeOK'
    BY <1>a, <2>6, <2>7 DEF JdTypeOK
  <2>9. jo'.left = jo.left - 1 /\ jo'.came = jo.came + 1 /\ jo'.written = jo.written
    BY <1>a, <2>1 DEF JoType
  <2> QED
    BY <1>0, <2>2, <2>3, <2>5, <2>8, <2>9 DEF JtagTypes, JtagBudget
<1>3. CASE HostPauses
  <2>1. jd' = [jd EXCEPT !.pause_irq = @ \/ jd.rfifo # <<>>, !.ac = TRUE] /\ UNCHANGED jo
    BY <1>3 DEF HostPauses
  <2>2. /\ jd'.rfifo = jd.rfifo /\ jd'.wfifo = jd.wfifo
        /\ jd'.ien = jd.ien /\ jd'.pause_irq \in BOOLEAN /\ jd'.ac = TRUE
    BY <2>1 DEF JtagKnown, JtagFields
  <2> QED
    BY <1>a, <1>0, <2>1, <2>2 DEF JdTypeOK, JtagTypes, JtagBudget
<1>4. CASE HostTakes
  <2>1. /\ jd.wfifo # <<>> /\ jd' = [jd EXCEPT !.wfifo = Tail(@)]
        /\ jo' = [jo EXCEPT !.sent = Head(jd.wfifo)]
    BY <1>4 DEF HostTakes
  <2>2. Head(jd.wfifo) \in JChar /\ Tail(jd.wfifo) \in Seq(JChar)
    BY <1>a, <2>1, QueueEnds DEF JdTypeOK
  <2>3. Head(jd.wfifo) \in 0..JtagChars
    BY <2>2, JtagAssumption DEF JChar
  <2>4. jo' \in JoType
    BY <1>a, <2>1, <2>3 DEF JoType
  <2>5. /\ jd'.rfifo = jd.rfifo /\ jd'.wfifo = Tail(jd.wfifo)
        /\ jd'.ien = jd.ien /\ jd'.pause_irq = jd.pause_irq /\ jd'.ac = jd.ac
    BY <2>1 DEF JtagKnown, JtagFields
  <2>6. jo'.left = jo.left /\ jo'.came = jo.came /\ jo'.written = jo.written
    BY <1>a, <2>1 DEF JoType
  <2> QED
    BY <1>a, <1>0, <2>2, <2>4, <2>5, <2>6 DEF JdTypeOK, JtagTypes, JtagBudget
<1> QED
  BY <1>1, <1>2, <1>3, <1>4 DEF Host

\* The handler and the alarm: what the handler moves between FIFO and buffer is a character.
LEMMA JtagHandlerTypes ==
  ASSUME JtagTypes, JtagKnown, JtagHandler
  PROVE  JtagTypeOK'
<1>a. js \in JsType /\ JdTypeOK /\ ji \in JiType /\ jc \in JcType /\ jo \in JoType
  BY JtagTypesAre DEF JtagTypes
<1>0. UNCHANGED <<jc, jo>>
  BY DEF JtagHandler
<1> SUFFICES js' \in JsType /\ JdTypeOK' /\ ji' \in JiType
  BY <1>a, <1>0 DEF JtagTypeOK, JsType, JdTypeOK, JiType, JcType, JoType
<1>b. JdTypeOK /\ UNCHANGED jd => JdTypeOK'
  BY DEF JdTypeOK
<1>1. CASE jtag_Enter
  BY <1>a, <1>b, <1>1 DEF jtag_Enter, JiType
<1>2. CASE jtag_Control
  <2>1. Pending \in SUBSET {"RI", "WI"}
    BY DEF Pending
  <2>2. FifoDepth - Len(jd.wfifo) \in 0..FifoDepth
    <3>1. Len(jd.wfifo) \in Nat /\ FifoDepth \in Nat
      BY <1>a, QueueEnds, JtagAssumption DEF JdTypeOK
    <3> QED
      BY <3>1 DEF JtagKnown, FifoRoom
  <2>3. 0 \in 0..FifoDepth
    BY JtagAssumption
  <2>4. NoIrq \in JiType
    BY <2>3 DEF NoIrq, JiType
  <2>5. [pc |-> IF "RI" \in Pending THEN "rx" ELSE "tx", control |-> Pending,
         ravail |-> TRUE, space |-> FifoDepth - Len(jd.wfifo)] \in JiType
    BY <2>1, <2>2 DEF JiType
  <2> QED
    BY <1>a, <1>b, <1>2, <2>4, <2>5 DEF jtag_Control
<1>3. CASE jtag_RxFull
  BY <1>a, <1>b, <1>3 DEF jtag_RxFull, JiType
<1>4. CASE jtag_RxData
  <2>1. ji' \in JiType
    <3>1. \E p \in {"rx_end", "rx"}, more \in BOOLEAN :
            ji' = [ji EXCEPT !.pc = p, !.ravail = more]
      <4>1. PICK p \in {"rx_end", "rx"} :
              ji' = [ji EXCEPT !.pc = p, !.ravail = Len(jd.rfifo) > 1]
        BY <1>4 DEF jtag_RxData
      <4>2. (Len(jd.rfifo) > 1) = TRUE \/ (Len(jd.rfifo) > 1) = FALSE
        OBVIOUS
      <4> QED
        BY <4>1, <4>2
    <3> QED
      BY <1>a, <3>1 DEF JiType
  <2>2. CASE jd.rfifo = <<>>
    <3>1. /\ UNCHANGED js /\ jd'.rfifo = jd.rfifo /\ jd'.wfifo = jd.wfifo
          /\ jd'.ien = jd.ien /\ jd'.pause_irq = FALSE /\ jd'.ac = jd.ac
      BY <1>4, <2>2 DEF jtag_RxData, JtagKnown, JtagFields
    <3> QED
      BY <1>a, <2>1, <3>1 DEF JdTypeOK
  <2>3. CASE jd.rfifo # <<>>
    <3>1. /\ jd' = [jd EXCEPT !.pause_irq = FALSE, !.rfifo = Tail(@)]
          /\ js' = [js EXCEPT !.rx_buf[js.rx_in] = Head(jd.rfifo), !.rx_in = ToSlot(@ + 1)]
      BY <1>4, <2>3 DEF jtag_RxData
    <3>2. /\ Head(jd.rfifo) \in JChar /\ Tail(jd.rfifo) \in Seq(JChar)
          /\ Len(Tail(jd.rfifo)) = Len(jd.rfifo) - 1 /\ Len(jd.rfifo) \in Nat
      BY <1>a, <2>3, QueueEnds DEF JdTypeOK
    <3>3. Head(jd.rfifo) \in 0..JtagChars
      BY <3>2, JtagAssumption DEF JChar
    <3>4. ToSlot(js.rx_in + 1) \in JSlot
      <4>1. js.rx_in + 1 \in Int
        BY DEF JtagKnown, JtagNumbers, JSlot
      <4> QED
        BY <4>1, SlotRemainder
    <3>5. js' \in JsType
      BY <1>a, <3>1, <3>3, <3>4 DEF JsType
    <3>6. /\ jd'.rfifo = Tail(jd.rfifo) /\ jd'.wfifo = jd.wfifo
          /\ jd'.ien = jd.ien /\ jd'.pause_irq = FALSE /\ jd'.ac = jd.ac
      BY <3>1 DEF JtagKnown, JtagFields
    <3>7. Len(Tail(jd.rfifo)) <= FifoDepth
      BY <1>a, <3>2, JtagAssumption DEF JdTypeOK
    <3> QED
      BY <1>a, <2>1, <3>2, <3>5, <3>6, <3>7 DEF JdTypeOK
  <2> QED
    BY <2>2, <2>3
<1>5. ASSUME NEW mask \in SUBSET {"RE", "WE"}, NEW on \in BOOLEAN,
             js' = [js EXCEPT !.irq_enable = @ \ mask],
             jd' = [jd EXCEPT !.ien = IF on THEN js.irq_enable \ mask ELSE @]
      PROVE  js' \in JsType /\ JdTypeOK'
  <2>1. js.irq_enable \ mask \in SUBSET {"RE", "WE"}
    BY <1>a DEF JsType
  <2>2. js' \in JsType
    BY <1>a, <1>5, <2>1 DEF JsType
  <2>3. /\ jd'.rfifo = jd.rfifo /\ jd'.wfifo = jd.wfifo
        /\ jd'.ien \in {jd.ien, js.irq_enable \ mask}
        /\ jd'.pause_irq = jd.pause_irq /\ jd'.ac = jd.ac
    BY <1>5 DEF JtagKnown, JtagFields
  <2> QED
    BY <1>a, <2>1, <2>2, <2>3 DEF JdTypeOK
<1>6. CASE jtag_RxEnd
  <2>1. ji' \in JiType
    BY <1>a, <1>6 DEF jtag_RxEnd, JiType
  <2>2. ji.ravail \in BOOLEAN
    BY <1>a DEF JiType
  <2>3. (IF ji.ravail THEN {"RE"} ELSE {}) \in SUBSET {"RE", "WE"}
    OBVIOUS
  <2> QED
    BY <1>5, <1>6, <2>1, <2>2, <2>3 DEF jtag_RxEnd
<1>7. CASE jtag_TxData
  <2>1. /\ ji.space > 0 /\ ji.space \in 0..FifoDepth /\ js.tx_out # js.tx_in
        /\ jd' = [jd EXCEPT !.wfifo = Append(@, js.tx_buf[js.tx_out])]
        /\ js' = [js EXCEPT !.tx_out = ToSlot(@ + 1)]
        /\ ji' = [ji EXCEPT !.space = @ - 1]
    BY <1>a, <1>7 DEF jtag_TxData, JiType
  <2>2. ji.space - 1 \in 0..FifoDepth
    BY <2>1, JtagAssumption
  <2>3. ji' \in JiType
    BY <1>a, <2>1, <2>2 DEF JiType
  <2>4. js.tx_out \in JSlot /\ js.tx_in \in JSlot /\ ToSlot(js.tx_out + 1) \in JSlot
    <3>1. js.tx_out \in JSlot /\ js.tx_in \in JSlot /\ js.tx_out + 1 \in Int
      BY <1>a DEF JsType, JSlot
    <3> QED
      BY <3>1, SlotRemainder
  <2>5. js' \in JsType
    BY <1>a, <2>1, <2>4 DEF JsType
  <2>6. js.tx_buf[js.tx_out] \in JChar
    <3>1. /\ Span(js.tx_out, js.tx_in) \in Nat /\ Span(js.tx_out, js.tx_in) # 0
          /\ Span(js.tx_out, js.tx_out) = 0
      BY <2>1, <2>4, SpanIs DEF JSlot
    <3>2. Piece \in Nat
      BY DEF Piece, JtagKnown, OutInv, PieceFits
    <3>3. js.tx_buf[js.tx_out] = jo.sent + Len(jd.wfifo) + 0 + 1
      BY <2>4, <3>1, <3>2 DEF JtagKnown, OutInv, OutChain, Buffered
    <3>4. /\ jo.sent \in Nat /\ Len(jd.wfifo) \in Nat
          /\ js.tx_buf[js.tx_out] \in 0..JtagChars
      <4>1. jo.sent \in Nat
        BY <1>a, JtagAssumption DEF JoType
      <4>2. Len(jd.wfifo) \in Nat
        BY <1>a, QueueEnds DEF JdTypeOK
      <4> QED
        BY <1>a, <2>4, <4>1, <4>2 DEF JsType
    <3> QED
      BY <3>3, <3>4, JtagAssumption DEF JChar
  <2>7. Append(jd.wfifo, js.tx_buf[js.tx_out]) \in Seq(JChar)
    BY <1>a, <2>6, QueueEnds DEF JdTypeOK
  <2>8. /\ jd'.rfifo = jd.rfifo /\ jd'.wfifo = Append(jd.wfifo, js.tx_buf[js.tx_out])
        /\ jd'.ien = jd.ien /\ jd'.pause_irq = jd.pause_irq /\ jd'.ac = jd.ac
    BY <2>1 DEF JtagKnown, JtagFields
  <2> QED
    BY <1>a, <2>3, <2>5, <2>7, <2>8 DEF JdTypeOK
<1>8. CASE jtag_TxEnd
  <2>1. ji' \in JiType
    BY <1>a, <1>8 DEF jtag_TxEnd, JiType
  <2>2. (ji.space > 0) \in BOOLEAN
    OBVIOUS
  <2>3. (IF ji.space > 0 THEN {"WE"} ELSE {}) \in SUBSET {"RE", "WE"}
    OBVIOUS
  <2> QED
    BY <1>5, <1>8, <2>1, <2>2, <2>3 DEF jtag_TxEnd
<1> QED
  BY <1>1, <1>2, <1>3, <1>4, <1>6, <1>7, <1>8 DEF JtagHandler

LEMMA JtagTimeoutTypes ==
  ASSUME JtagTypes, JtagKnown, JtagTimeout
  PROVE  JtagTypeOK'
<1>a. js \in JsType /\ JdTypeOK /\ ji \in JiType /\ jc \in JcType /\ jo \in JoType
  BY JtagTypesAre DEF JtagTypes
<1>0. UNCHANGED <<ji, jc, jo>>
  BY DEF JtagTimeout
<1> SUFFICES js' \in JsType /\ JdTypeOK'
  BY <1>a, <1>0 DEF JtagTypeOK, JsType, JdTypeOK, JiType, JcType, JoType
<1>1. JTAG_INT_MAX \in Nat
  BY JtagAssumption
<1>2. CASE jd.ac
  <2>1. /\ jd' = [jd EXCEPT !.ien = js.irq_enable, !.ac = FALSE]
        /\ js' = [js EXCEPT !.host_inactive = 0]
    BY <1>2 DEF JtagTimeout
  <2>2. /\ jd'.rfifo = jd.rfifo /\ jd'.wfifo = jd.wfifo
        /\ jd'.ien = js.irq_enable /\ jd'.pause_irq = jd.pause_irq /\ jd'.ac = FALSE
    BY <2>1 DEF JtagKnown, JtagFields
  <2>3. js' \in JsType
    BY <1>a, <1>1, <2>1 DEF JsType
  <2> QED
    BY <1>a, <2>2, <2>3 DEF JdTypeOK, JsType
<1>3. CASE ~jd.ac
  <2>1. /\ UNCHANGED jd /\ js.host_inactive < JTAG_INT_MAX - 2
        /\ js' = [js EXCEPT !.host_inactive = @ + 1]
    BY <1>3 DEF JtagTimeout
  <2>2. js.host_inactive + 1 \in 0..JTAG_INT_MAX
    BY <1>a, <1>1, <2>1 DEF JsType
  <2>3. js' \in JsType
    BY <1>a, <2>1, <2>2 DEF JsType
  <2> QED
    BY <1>a, <2>1, <2>3 DEF JdTypeOK
<1> QED
  BY <1>2, <1>3

\* A change of the mask.
LEMMA JtagEnables ==
  ASSUME JtagTypes, JtagKnown, NEW bit \in {"RE", "WE"}, Enable(bit)
  PROVE  js' \in JsType /\ JdTypeOK'
<1>a. js \in JsType /\ JdTypeOK
  BY JtagTypesAre DEF JtagTypes
<1>1. js.irq_enable \cup {bit} \in SUBSET {"RE", "WE"}
  BY <1>a DEF JsType
<1>2. js' \in JsType
  BY <1>a, <1>1 DEF Enable, JsType
<1>3. /\ jd'.rfifo = jd.rfifo /\ jd'.wfifo = jd.wfifo /\ jd'.ien = js.irq_enable \cup {bit}
      /\ jd'.pause_irq = jd.pause_irq /\ jd'.ac = jd.ac
  BY DEF Enable, JtagKnown, JtagFields
<1> QED
  BY <1>a, <1>1, <1>2, <1>3 DEF JdTypeOK

LEMMA JtagRestIs == NoCall \in JcType /\ NoCall.count = 0 /\ NoCall.done = 0
<1>1. 0 \in JSlot /\ 0 \in 0..JtagMaxLen
  BY JtagAssumption DEF JSlot
<1> QED
  BY <1>1 DEF NoCall, JcType

\* What makes a step of the program keep the types.
LEMMA JtagProgramKeeps ==
  ASSUME JtagTypes, UNCHANGED ji,
         js' \in JsType, JdTypeOK', jc' \in JcType, jo' \in JoType
  PROVE  JtagTypeOK'
<1>1. ji \in JiType
  BY JtagTypesAre DEF JtagTypes
<1> QED
  BY <1>1 DEF JtagTypeOK, JsType, JdTypeOK, JiType, JcType, JoType

\* A step that only changes the call.
LEMMA JtagOnlyCall ==
  ASSUME JtagTypes, UNCHANGED <<js, jd, ji, jo>>, jc' \in JcType
  PROVE  JtagTypeOK'
<1>1. js \in JsType /\ JdTypeOK /\ jo \in JoType
  BY JtagTypesAre DEF JtagTypes
<1> QED
  BY <1>1, JtagProgramKeeps DEF JdTypeOK

\* The calls begin with what they are asked for.
LEMMA JtagCallTypes ==
  ASSUME JtagTypes, JtagKnown, JtagCalls, UNCHANGED ji
  PROVE  JtagTypeOK' /\ JtagBudget'
<1>a. js \in JsType /\ JdTypeOK /\ ji \in JiType /\ jc \in JcType /\ jo \in JoType
  BY JtagTypesAre DEF JtagTypes
<1>0. JtagMaxLen \in Nat /\ JtagChars \in Nat /\ JTAG_INT_MAX \in Nat
  BY JtagAssumption
<1>b. 0 \in JSlot /\ 0 \in 0..JtagMaxLen
  BY JtagAssumption DEF JSlot
<1>1. CASE JtagWrite
  <2>1. PICK n \in 1..Least(JtagMaxLen, jo.left), b \in BOOLEAN :
          /\ jc' = [NoCall EXCEPT !.pc = "w_sample", !.count = n, !.block = b]
          /\ jo' = [jo EXCEPT !.left = @ - n]
    BY <1>1 DEF JtagWrite
  <2>2. jo.left \in 0..JtagChars /\ n \in Nat /\ n <= jo.left /\ n <= JtagMaxLen
    BY <1>a, <1>0, <2>1 DEF JoType, Least
  <2>3. n \in 0..JtagMaxLen /\ jo.left - n \in 0..JtagChars
    BY <1>0, <2>2
  <2>4. jo' \in JoType
    BY <1>a, <2>1, <2>3 DEF JoType
  <2>5. jc' \in JcType
    BY <1>b, <2>1, <2>3 DEF NoCall, JcType
  <2>6. UNCHANGED <<js, jd>> /\ JdTypeOK'
    BY <1>a, <1>1 DEF JtagWrite, JdTypeOK
  <2>7. JtagTypeOK'
    BY <1>a, <2>4, <2>5, <2>6, JtagProgramKeeps
  <2>8. /\ JtagToStore' = n /\ JtagToStore = 0 /\ jo'.left = jo.left - n
        /\ jo'.written = jo.written /\ jo'.came = jo.came
        /\ jc'.done = 0 /\ jc'.count = n
    BY <1>a, <1>1, <2>1 DEF JtagWrite, NoCall, JtagToStore, JoType
  <2>9. jo.left \in Nat /\ jo.written \in Nat /\ jo.came \in Nat
    BY <1>a, <1>0 DEF JoType
  <2> QED
    BY <1>0, <2>2, <2>7, <2>8, <2>9 DEF JtagTypes, JtagBudget
<1>2. CASE JtagRead
  <2>1. PICK n \in 1..JtagMaxLen, b \in BOOLEAN :
          jc' = [NoCall EXCEPT !.pc = "r_sample", !.count = n, !.block = b]
    BY <1>2 DEF JtagRead
  <2>2. n \in 0..JtagMaxLen
    BY <1>0
  <2>3. jc' \in JcType
    BY <1>b, <2>1, <2>2 DEF NoCall, JcType
  <2>4. UNCHANGED <<js, jd, jo>>
    BY <1>2 DEF JtagRead
  <2>5. JtagTypeOK'
    BY <2>3, <2>4, JtagOnlyCall
  <2>6. JtagToStore' = 0 /\ JtagToStore = 0 /\ jc'.done = 0 /\ jc'.count = n
    BY <1>2, <2>1 DEF JtagRead, NoCall, JtagToStore
  <2> QED
    BY <1>0, <2>2, <2>4, <2>5, <2>6 DEF JtagTypes, JtagBudget
<1>3. CASE JtagClose
  <2>1. PICK b \in BOOLEAN : jc' = [NoCall EXCEPT !.pc = "close", !.block = b]
    BY <1>3 DEF JtagClose
  <2>2. jc' \in JcType
    BY <1>b, <2>1 DEF NoCall, JcType
  <2>3. UNCHANGED <<js, jd, jo>>
    BY <1>3 DEF JtagClose
  <2>4. JtagTypeOK'
    BY <2>2, <2>3, JtagOnlyCall
  <2>5. JtagToStore' = 0 /\ JtagToStore = 0 /\ jc'.done = 0 /\ jc'.count = 0
    BY <1>3, <2>1 DEF JtagClose, NoCall, JtagToStore
  <2> QED
    BY <1>0, <2>3, <2>4, <2>5 DEF JtagTypes, JtagBudget
<1>4. CASE JtagIoctl
  <2>1. PICK arg \in {1, DEFAULT_TIMEOUT} :
          js' = [js EXCEPT !.timeout =
                   IF arg >= 2 /\ arg < JTAG_INT_MAX THEN arg ELSE JTAG_INT_MAX - 1]
    BY <1>4 DEF JtagIoctl
  <2>2. (IF arg >= 2 /\ arg < JTAG_INT_MAX THEN arg ELSE JTAG_INT_MAX - 1) \in 0..JTAG_INT_MAX
    BY JtagAssumption
  <2>3. js' \in JsType
    BY <1>a, <2>1, <2>2 DEF JsType
  <2>4. UNCHANGED <<jd, jc, jo>> /\ JdTypeOK'
    BY <1>a, <1>4 DEF JtagIoctl, JdTypeOK
  <2>5. JtagTypeOK'
    BY <1>a, <2>3, <2>4, JtagProgramKeeps
  <2> QED
    BY <2>4, <2>5 DEF JtagTypes, JtagBudget, JtagToStore
<1> QED
  BY <1>1, <1>2, <1>3, <1>4 DEF JtagCalls

\* A write keeps the types, and copies no more than it was given.
LEMMA JtagWriteTypes ==
  ASSUME JtagTypes, JtagKnown, Writes, UNCHANGED ji
  PROVE  JtagTypeOK' /\ JtagBudget'
<1>a. js \in JsType /\ JdTypeOK /\ ji \in JiType /\ jc \in JcType /\ jo \in JoType
  BY JtagTypesAre DEF JtagTypes
<1>0. JtagMaxLen \in Nat /\ JtagChars \in Nat /\ BUF_LEN \in Nat /\ BUF_LEN > 1
  BY JtagAssumption
<1>b. /\ jc.count \in 0..JtagMaxLen /\ jc.done \in 0..JtagMaxLen /\ jc.n \in 0..JtagMaxLen
      /\ jc.count \in Nat /\ jc.done \in Nat /\ jc.n \in Nat
      /\ jc.done + jc.count <= JtagMaxLen
  BY <1>a, <1>0 DEF JcType, JtagTypes, JtagBudget
<1>1. CASE jw_Sample
  <2> DEFINE n == Least(jw_Room(js.tx_in, js.tx_out), jc.count)
  <2>1. js.tx_in \in JSlot /\ js.tx_out \in JSlot
    BY <1>a DEF JsType
  <2>2. jw_Room(js.tx_in, js.tx_out) \in Nat
    BY <1>0, <2>1 DEF jw_Room, JSlot
  <2>3. n \in 0..JtagMaxLen
    BY <1>b, <1>0, <2>2 DEF Least
  <2>4. /\ jc.pc = "w_sample" /\ UNCHANGED <<js, jd, jo>>
        /\ jc' = IF n = 0 THEN [jc EXCEPT !.pc = "w_kick", !.out = js.tx_out]
                 ELSE [jc EXCEPT !.pc = "w_copy", !.in = js.tx_in, !.n = n]
    BY <1>1 DEF jw_Sample
  <2> HIDE DEF n
  <2>5. jc' \in JcType
    BY <1>a, <2>1, <2>3, <2>4 DEF JcType
  <2>6. jc'.pc \in {"w_kick", "w_copy"} /\ jc'.count = jc.count /\ jc'.done = jc.done
    BY <1>a, <2>4 DEF JcType
  <2>7. JtagToStore' = jc.count /\ JtagToStore = jc.count
    BY <2>4, <2>6 DEF JtagToStore
  <2> QED
    BY <1>b, <2>4, <2>5, <2>6, <2>7, JtagOnlyCall, JtagBudgetRests
<1>2. CASE jw_Copy
  <2>1. /\ jc.pc = "w_copy" /\ UNCHANGED jd
        /\ js' = [js EXCEPT !.tx_buf = [s \in JSlot |->
              IF s \in jc.in..(jc.in + jc.n - 1)
                THEN jo.written + 1 + s - jc.in ELSE @[s]]]
        /\ jo' = [jo EXCEPT !.written = @ + jc.n]
        /\ jc' = [jc EXCEPT !.pc = "w_publish"]
    BY <1>2 DEF jw_Copy
  <2>2. jc.n > 0 /\ jc.n <= jc.count /\ jc.in \in JSlot
    BY <1>a, <2>1 DEF JtagKnown, OutInv, PieceFits, JcType
  <2>3. jo.left + jo.written + jo.came + jc.count <= JtagChars
    BY <2>1 DEF JtagToStore, JtagTypes, JtagBudget
  <2>4. jo.left \in Nat /\ jo.written \in Nat /\ jo.came \in Nat
    BY <1>a, <1>0 DEF JoType
  <2>5. jo.written + jc.n \in 0..JtagChars
    BY <1>0, <1>b, <2>2, <2>3, <2>4
  <2>6. jo' \in JoType
    BY <1>a, <2>1, <2>5 DEF JoType
  <2>7. ASSUME NEW s \in JSlot, s \in jc.in..(jc.in + jc.n - 1)
        PROVE  jo.written + 1 + s - jc.in \in 0..JtagChars
    <3>1. s \in Int /\ jc.in \in Int /\ s >= jc.in /\ s <= jc.in + jc.n - 1
      BY <1>b, <2>2, <2>7 DEF JSlot
    <3> QED
      BY <1>0, <1>b, <2>4, <2>5, <3>1
  <2>8. js' \in JsType
    <3> DEFINE buf == [s \in JSlot |->
              IF s \in jc.in..(jc.in + jc.n - 1)
                THEN jo.written + 1 + s - jc.in ELSE js.tx_buf[s]]
    <3>1. \A s \in JSlot : js.tx_buf[s] \in 0..JtagChars
      BY <1>a DEF JsType
    <3>2. buf \in [JSlot -> 0..JtagChars]
      BY <2>7, <3>1
    <3>3. js' = [js EXCEPT !.tx_buf = buf]
      BY <2>1 DEF JtagKnown, JtagFields
    <3> HIDE DEF buf
    <3> QED
      BY <1>a, <3>2, <3>3 DEF JsType
  <2>9. jc' \in JcType
    BY <1>a, <2>1 DEF JcType
  <2>10. JtagTypeOK'
    BY <1>a, <2>1, <2>6, <2>8, <2>9, JtagProgramKeeps DEF JdTypeOK
  <2>11. /\ jc'.pc = "w_publish" /\ jc'.count = jc.count /\ jc'.done = jc.done /\ jc'.n = jc.n
         /\ jo'.left = jo.left /\ jo'.came = jo.came /\ jo'.written = jo.written + jc.n
    BY <1>a, <2>1 DEF JcType, JoType
  <2>12. JtagToStore' = jc.count - jc.n
    BY <2>11 DEF JtagToStore
  <2> QED
    BY <1>0, <1>b, <2>3, <2>4, <2>10, <2>11, <2>12 DEF JtagBudget
<1>3. CASE jw_Publish
  <2>1. /\ jc.pc = "w_publish" /\ UNCHANGED <<jd, jo>>
        /\ js' = [js EXCEPT !.tx_in = ToSlot(jc.in + jc.n)]
        /\ jc' = [jc EXCEPT !.count = @ - jc.n, !.done = @ + jc.n, !.n = 0, !.in = 0,
                      !.pc = IF jc.count = jc.n THEN "w_kick" ELSE "w_sample"]
    BY <1>3 DEF jw_Publish
  <2>2. jc.n > 0 /\ jc.n <= jc.count /\ jc.in \in JSlot
    BY <1>a, <2>1 DEF JtagKnown, OutInv, PieceFits, JcType
  <2>3. ToSlot(jc.in + jc.n) \in JSlot
    <3>1. jc.in + jc.n \in Int
      BY <1>b, <2>2 DEF JSlot
    <3> QED
      BY <3>1, SlotRemainder
  <2>4. js' \in JsType
    BY <1>a, <2>1, <2>3 DEF JsType
  <2>5. /\ jc.count - jc.n \in 0..JtagMaxLen /\ jc.done + jc.n \in 0..JtagMaxLen
        /\ 0 \in 0..JtagMaxLen /\ 0 \in JSlot
    BY <1>0, <1>b, <2>2 DEF JSlot
  <2>6. jc' \in JcType
    BY <1>a, <2>1, <2>5 DEF JcType
  <2>7. JtagTypeOK'
    BY <1>a, <2>1, <2>4, <2>6, JtagProgramKeeps DEF JdTypeOK
  <2>8. /\ jc'.pc \in {"w_kick", "w_sample"} /\ jc'.count = jc.count - jc.n
        /\ jc'.done = jc.done + jc.n
    BY <1>a, <2>1 DEF JcType
  <2>9. JtagToStore' = jc.count - jc.n /\ JtagToStore = jc.count - jc.n
    BY <2>1, <2>8 DEF JtagToStore
  <2> QED
    BY <1>b, <2>1, <2>2, <2>7, <2>8, <2>9, JtagBudgetRests
<1>4. CASE jw_Kick
  <2>1. js' \in JsType /\ JdTypeOK'
    BY <1>4, JtagEnables DEF jw_Kick
  <2>2. /\ UNCHANGED jo /\ jc.pc = "w_kick"
        /\ \E p \in {"w_wait", "w_return"} : jc' = [jc EXCEPT !.pc = p]
    BY <1>4 DEF jw_Kick
  <2>3. jc' \in JcType
    BY <1>a, <2>2 DEF JcType
  <2>4. /\ jc'.pc \in {"w_wait", "w_return"} /\ jc'.count = jc.count /\ jc'.done = jc.done
    BY <1>a, <2>2 DEF JcType
  <2>5. JtagToStore' \in {0, jc.count} /\ JtagToStore = jc.count
    BY <2>2, <2>4 DEF JtagToStore
  <2> QED
    BY <1>a, <1>b, <2>1, <2>2, <2>3, <2>4, <2>5, JtagProgramKeeps, JtagBudgetRests
<1>5. CASE jw_Wait \/ jw_Host
  <2>1. /\ UNCHANGED <<js, jd, jo>> /\ jc.pc \in {"w_wait", "w_host"}
        /\ \E p \in {"w_host", "w_sample", "w_return"} : jc' = [jc EXCEPT !.pc = p]
    BY <1>5 DEF jw_Wait, jw_Host
  <2>2. jc' \in JcType
    BY <1>a, <2>1 DEF JcType
  <2>3. /\ jc'.pc \in {"w_host", "w_sample", "w_return"} /\ jc'.count = jc.count /\ jc'.done = jc.done
    BY <1>a, <2>1 DEF JcType
  <2>4. JtagToStore' \in {0, jc.count} /\ JtagToStore = jc.count
    BY <2>1, <2>3 DEF JtagToStore
  <2> QED
    BY <1>b, <2>1, <2>2, <2>3, <2>4, JtagOnlyCall, JtagBudgetRests
<1>6. CASE jw_Return
  <2>1. UNCHANGED <<js, jd, jo>> /\ jc.pc = "w_return" /\ jc' = NoCall
    BY <1>6 DEF jw_Return
  <2>2. JtagToStore' = 0 /\ JtagToStore = 0
    BY <2>1 DEF JtagToStore, NoCall
  <2> QED
    BY <1>b, <2>1, <2>2, JtagRestIs, JtagOnlyCall, JtagBudgetRests
<1> QED
  BY <1>1, <1>2, <1>3, <1>4, <1>5, <1>6 DEF Writes

\* A read, and a close that waits.
LEMMA JtagReadTypes ==
  ASSUME JtagTypes, JtagKnown, Reads \/ jtag_CloseWait, UNCHANGED ji
  PROVE  JtagTypeOK' /\ JtagBudget'
<1>a. js \in JsType /\ JdTypeOK /\ ji \in JiType /\ jc \in JcType /\ jo \in JoType
  BY JtagTypesAre DEF JtagTypes
<1>0. JtagMaxLen \in Nat /\ JtagChars \in Nat /\ BUF_LEN \in Nat /\ BUF_LEN > 1
  BY JtagAssumption
<1>b. /\ jc.count \in 0..JtagMaxLen /\ jc.done \in 0..JtagMaxLen /\ jc.n \in 0..JtagMaxLen
      /\ jc.count \in Nat /\ jc.done \in Nat /\ jc.n \in Nat
      /\ jc.done + jc.count <= JtagMaxLen
  BY <1>a, <1>0 DEF JcType, JtagTypes, JtagBudget
<1>1. CASE jr_Sample
  <2> DEFINE n == Least(jr_Ready(js.rx_in, js.rx_out), jc.count)
  <2>1. js.rx_in \in JSlot /\ js.rx_out \in JSlot
    BY <1>a DEF JsType
  <2>2. jr_Ready(js.rx_in, js.rx_out) \in Nat
    BY <1>0, <2>1 DEF jr_Ready, JSlot
  <2>3. n \in 0..JtagMaxLen
    BY <1>b, <1>0, <2>2 DEF Least
  <2>4. /\ jc.pc = "r_sample" /\ UNCHANGED <<js, jd, jo>>
        /\ jc' = IF n > 0 THEN [jc EXCEPT !.pc = "r_copy", !.out = js.rx_out, !.n = n]
              ELSE [jc EXCEPT !.pc = IF jc.done = 0 /\ jc.block THEN "r_wait" ELSE "r_return",
                              !.in = js.rx_in]
    BY <1>1 DEF jr_Sample
  <2> HIDE DEF n
  <2>5. jc' \in JcType
    BY <1>a, <2>1, <2>3, <2>4 DEF JcType
  <2>6. /\ jc'.pc \in {"r_copy", "r_wait", "r_return"} /\ jc'.count = jc.count
        /\ jc'.done = jc.done
    BY <1>a, <2>4 DEF JcType
  <2>7. JtagToStore' = 0 /\ JtagToStore = 0
    BY <2>4, <2>6 DEF JtagToStore
  <2> QED
    BY <1>b, <2>4, <2>5, <2>6, <2>7, JtagOnlyCall, JtagBudgetRests
<1>2. CASE jr_Copy
  <2>1. /\ jc.pc = "r_copy" /\ UNCHANGED <<js, jd>>
        /\ jo' = [jo EXCEPT !.read = js.rx_buf[jc.out + jc.n - 1]]
        /\ jc' = [jc EXCEPT !.pc = "r_publish"]
    BY <1>2 DEF jr_Copy
  <2>2. jc.n > 0 /\ jc.out \in JSlot /\ jc.out + jc.n <= BUF_LEN
    BY <1>a, <2>1 DEF JtagKnown, InInv, PieceThere, JcType
  <2>3. jc.out + jc.n - 1 \in JSlot
    BY <1>0, <1>b, <2>2 DEF JSlot
  <2>4. js.rx_buf[jc.out + jc.n - 1] \in 0..JtagChars
    BY <1>a, <2>3 DEF JsType
  <2>5. jo' \in JoType
    BY <1>a, <2>1, <2>4 DEF JoType
  <2>6. jc' \in JcType
    BY <1>a, <2>1 DEF JcType
  <2>7. JtagTypeOK'
    BY <1>a, <2>1, <2>5, <2>6, JtagProgramKeeps DEF JdTypeOK
  <2>8. /\ jc'.pc = "r_publish" /\ jc'.count = jc.count /\ jc'.done = jc.done
        /\ jo'.left = jo.left /\ jo'.came = jo.came /\ jo'.written = jo.written
    BY <1>a, <2>1 DEF JcType, JoType
  <2>9. JtagToStore' = 0 /\ JtagToStore = 0
    BY <2>1, <2>8 DEF JtagToStore
  <2> QED
    BY <1>b, <2>7, <2>8, <2>9, JtagBudgetRests
<1>3. CASE jr_Publish
  <2>1. /\ jc.pc = "r_publish" /\ UNCHANGED <<jd, jo>>
        /\ js' = [js EXCEPT !.rx_out = ToSlot(jc.out + jc.n)]
        /\ jc' = [jc EXCEPT !.count = @ - jc.n, !.done = @ + jc.n, !.n = 0, !.out = 0,
                      !.pc = IF jc.count = jc.n THEN "r_return" ELSE "r_sample"]
    BY <1>3 DEF jr_Publish
  <2>2. jc.n > 0 /\ jc.n <= jc.count /\ jc.out \in JSlot
    BY <1>a, <2>1 DEF JtagKnown, InInv, PieceThere, JcType
  <2>3. ToSlot(jc.out + jc.n) \in JSlot
    <3>1. jc.out + jc.n \in Int
      BY <1>b, <2>2 DEF JSlot
    <3> QED
      BY <3>1, SlotRemainder
  <2>4. js' \in JsType
    BY <1>a, <2>1, <2>3 DEF JsType
  <2>5. /\ jc.count - jc.n \in 0..JtagMaxLen /\ jc.done + jc.n \in 0..JtagMaxLen
        /\ 0 \in 0..JtagMaxLen /\ 0 \in JSlot
    BY <1>0, <1>b, <2>2 DEF JSlot
  <2>6. jc' \in JcType
    BY <1>a, <2>1, <2>5 DEF JcType
  <2>7. JtagTypeOK'
    BY <1>a, <2>1, <2>4, <2>6, JtagProgramKeeps DEF JdTypeOK
  <2>8. /\ jc'.pc \in {"r_return", "r_sample"} /\ jc'.count = jc.count - jc.n
        /\ jc'.done = jc.done + jc.n
    BY <1>a, <2>1 DEF JcType
  <2>9. JtagToStore' = 0 /\ JtagToStore = 0
    BY <2>1, <2>8 DEF JtagToStore
  <2> QED
    BY <1>b, <2>1, <2>2, <2>7, <2>8, <2>9, JtagBudgetRests
<1>4. CASE jr_Wait \/ jr_More
  <2>1. /\ UNCHANGED <<js, jd, jo>> /\ jc.pc \in {"r_wait", "r_more"}
        /\ \E p \in {"r_more", "r_sample", "r_return"} : jc' = [jc EXCEPT !.pc = p]
    BY <1>4 DEF jr_Wait, jr_More
  <2>2. jc' \in JcType
    BY <1>a, <2>1 DEF JcType
  <2>3. /\ jc'.pc \in {"r_more", "r_sample", "r_return"} /\ jc'.count = jc.count /\ jc'.done = jc.done
    BY <1>a, <2>1 DEF JcType
  <2>4. JtagToStore' = 0 /\ JtagToStore = 0
    BY <2>1, <2>3 DEF JtagToStore
  <2> QED
    BY <1>b, <2>1, <2>2, <2>3, <2>4, JtagOnlyCall, JtagBudgetRests
<1>5. CASE jr_Return
  <2>1. UNCHANGED jo /\ jc.pc = "r_return" /\ jc' = NoCall
    BY <1>5 DEF jr_Return
  <2>2. js' \in JsType /\ JdTypeOK'
    <3>1. CASE jc.done > 0
      BY <1>5, <3>1, JtagEnables DEF jr_Return
    <3>2. CASE ~(jc.done > 0)
      BY <1>5, <1>a, <3>2 DEF jr_Return, JdTypeOK
    <3> QED
      BY <3>1, <3>2
  <2>3. JtagToStore' = 0 /\ JtagToStore = 0
    BY <2>1 DEF JtagToStore, NoCall
  <2> QED
    BY <1>a, <1>b, <2>1, <2>2, <2>3, JtagRestIs, JtagProgramKeeps, JtagBudgetRests
<1>6. CASE jtag_CloseWait
  <2>1. UNCHANGED <<js, jd, jo>> /\ jc.pc = "close" /\ jc' = NoCall
    BY <1>6 DEF jtag_CloseWait
  <2>2. JtagToStore' = 0 /\ JtagToStore = 0
    BY <2>1 DEF JtagToStore, NoCall
  <2> QED
    BY <1>b, <2>1, <2>2, JtagRestIs, JtagOnlyCall, JtagBudgetRests
<1> QED
  BY <1>1, <1>2, <1>3, <1>4, <1>5, <1>6 DEF Reads

\* Nothing has been given out at the start.
LEMMA JtagTypesInit == JtagInit => JtagTypes
<1> SUFFICES ASSUME JtagInit PROVE JtagTypes
  OBVIOUS
<1>0. /\ BUF_LEN \in Nat /\ BUF_LEN > 1 /\ FifoDepth \in Nat /\ JTAG_INT_MAX \in Nat
      /\ DEFAULT_TIMEOUT \in 0..JTAG_INT_MAX /\ JtagChars \in Nat /\ JtagMaxLen \in Nat
  BY JtagAssumption
<1>1. 0 \in JSlot
  BY <1>0 DEF JSlot
<1>2. js \in JsType
  <2>1. [s \in JSlot |-> 0] \in [JSlot -> 0..JtagChars]
    BY <1>0
  <2> QED
    BY <1>0, <1>1, <2>1 DEF JtagInit, JsType
<1>3. JdTypeOK
  BY <1>0 DEF JtagInit, JdTypeOK
<1>4. ji \in JiType
  BY <1>0 DEF JtagInit, NoIrq, JiType
<1>5. jc \in JcType /\ jc.pc = "idle" /\ jc.done = 0 /\ jc.count = 0
  BY JtagRestIs DEF JtagInit, NoCall
<1>6. /\ jo \in JoType
      /\ jo.left = JtagChars /\ jo.written = 0 /\ jo.came = 0
  BY <1>0 DEF JtagInit, JoType
<1>7. JtagToStore = 0
  BY <1>5 DEF JtagToStore
<1>8. JtagBudget
  BY <1>0, <1>5, <1>6, <1>7 DEF JtagBudget
<1> QED
  BY <1>2, <1>3, <1>4, <1>5, <1>6, <1>8, JtagTypesAre DEF JtagTypes

\* Every step keeps the types of the driver and of its device.
LEMMA JtagTypesStep == JtagTypes /\ JtagKnown /\ [JtagNext]_jtagVars => JtagTypes'
<1> SUFFICES ASSUME JtagTypes, JtagKnown, [JtagNext]_jtagVars
             PROVE  JtagTypes'
  OBVIOUS
<1>1. UNCHANGED <<jc, jo>> => JtagBudget'
  BY DEF JtagTypes, JtagBudget, JtagToStore
<1>2. CASE Host
  BY <1>2, JtagHostTypes DEF JtagTypes
<1>3. CASE JtagHandler
  <2>1. UNCHANGED <<jc, jo>>
    BY <1>3 DEF JtagHandler
  <2> QED
    BY <1>1, <1>3, <2>1, JtagHandlerTypes DEF JtagTypes
<1>4. CASE JtagTimeout
  <2>1. UNCHANGED <<jc, jo>>
    BY <1>4 DEF JtagTimeout
  <2> QED
    BY <1>1, <1>4, <2>1, JtagTimeoutTypes DEF JtagTypes
<1>5. CASE Program
  BY <1>5, JtagCallTypes, JtagWriteTypes, JtagReadTypes DEF Program, InCall, JtagTypes
<1>6. CASE UNCHANGED jtagVars
  <2>1. UNCHANGED <<js, jd, ji, jc, jo>>
    BY <1>6 DEF jtagVars
  <2> QED
    BY <1>1, <2>1 DEF JtagTypes, JtagTypeOK
<1> QED
  BY <1>2, <1>3, <1>4, <1>5, <1>6 DEF JtagNext

LEMMA JtagKnownInit == JtagInit => JtagInv /\ JtagKnown
BY JtagInvInit, OutInvInit, InInvInit DEF JtagInv, JtagKnown

LEMMA JtagKnownStep ==
  JtagKnown /\ [JtagNext]_jtagVars => JtagKnown'
BY FieldsKept, NumbersKept, FifoKept, OutInvStep, InInvStep DEF JtagKnown

-----------------------------------------------------------------------------
(* Types: what the SPI peripheral and a command hold.                       *)

\* What the account does not say of the types.
SpiRegisters ==
  /\ spi.select \in SpiSlaves /\ spi.selectHold \in SpiSlaves
  /\ spi.hold \in 0..SpiMaxLen /\ spi.shift \in 0..SpiMaxLen
  /\ spi.SSO \in BOOLEAN /\ spi.ROE \in BOOLEAN /\ spi.TOE \in BOOLEAN
SpiCommand ==
  /\ spi_cmd.slave \in SpiSlaves
  /\ spi_cmd.write \in 0..SpiMaxLen /\ spi_cmd.read \in 0..SpiMaxLen
  /\ spi_cmd.credits < 0 => spi_cmd.credits = -1024
SpiAnswers == spi_cmd.data \in Seq(Nat) /\ Len(spi_cmd.data) <= spi_cmd.read

SpiTypes == SpiRegisters /\ SpiCommand /\ SpiAnswers

\* No command keeps more answers than it asks for: each stands for a byte sent.
LEMMA AnswersFit ==
  ASSUME SpiFields', Exchange', spi_cmd'.at # "idle"
  PROVE  SpiAnswers'
<1>1. /\ spi_cmd'.data \in Seq(Nat) /\ Came' + OneIf(spi'.RRDY) = Shifted'
      /\ spi_cmd'.ignore > 0 => Len(spi_cmd'.data) = 0
  BY DEF Exchange
<1>2. Len(spi_cmd'.data) \in Nat
  BY <1>1
<1>3. /\ spi_cmd'.write \in Nat /\ spi_cmd'.read \in Nat /\ spi_cmd'.written \in Nat
      /\ spi_cmd'.zeros \in Nat /\ spi_cmd'.ignore \in Nat /\ spi_cmd'.written <= spi_cmd'.write
  BY DEF SpiFields
<1>4. Came' <= Sent'
  <2>1. \A b \in BOOLEAN : OneIf(b) \in {0, 1}
    BY DEF OneIf
  <2>2. /\ OneIf(spi'.RRDY) \in {0, 1} /\ OneIf(spi'.primed) \in {0, 1}
        /\ OneIf(spi'.transmitting) \in {0, 1}
    BY <2>1 DEF SpiFields
  <2>3. Sent' \in Int /\ Came' \in Int
    BY <1>2, <1>3 DEF Sent, Came
  <2> QED
    BY <1>1, <2>2, <2>3 DEF Shifted
<1>5. Sent' <= spi_cmd'.write + spi_cmd'.read
  BY <1>3 DEF Sent
<1>6. Len(spi_cmd'.data) <= spi_cmd'.read
  <2>1. CASE spi_cmd'.ignore > 0
    BY <1>1, <1>3, <2>1
  <2>2. CASE spi_cmd'.ignore = 0
    <3>1. Came' = spi_cmd'.write + Len(spi_cmd'.data)
      BY <1>2, <1>3, <2>2 DEF Came
    <3>2. Sent' \in Int
      BY <1>3 DEF Sent
    <3> QED
      BY <1>2, <1>3, <1>4, <1>5, <3>1, <3>2
  <2> QED
    BY <1>3, <2>1, <2>2
<1> QED
  BY <1>1, <1>6 DEF SpiAnswers

\* What is known of a command is its type.
LEMMA SpiTypesAre == SpiInv /\ SpiTypes => SpiTypeOK
<1> SUFFICES ASSUME SpiInv, SpiTypes PROVE SpiTypeOK
  OBVIOUS
<1>1. SpiFields /\ Credits /\ SpiNoOverrun
  BY DEF SpiInv
<1>2. spi_cmd.credits \in {-1024, 0, 1}
  <2>1. \A b \in BOOLEAN : OneIf(b) \in {0, 1}
    BY DEF OneIf
  <2>2. InFlight \in Nat
    BY <1>1, <2>1 DEF InFlight, SpiFields
  <2>3. spi_cmd.credits \in Int
    BY <1>1 DEF SpiFields
  <2>4. InFlight = IF spi_cmd.credits < 0 THEN 0 ELSE 1 - spi_cmd.credits
    BY <1>1 DEF Credits
  <2>5. spi_cmd.credits < 0 => spi_cmd.credits = -1024
    BY DEF SpiTypes, SpiCommand
  <2> QED
    BY <2>2, <2>3, <2>4, <2>5
<1>3. {spi.primed, spi.transmitting, spi.RRDY, spi.ROE, spi.TOE, spi.SSO} \subseteq BOOLEAN
  BY <1>1 DEF SpiFields, SpiTypes, SpiRegisters
<1>4. /\ spi_cmd.written \in 0..spi_cmd.write /\ spi_cmd.zeros \in 0..spi_cmd.read
      /\ spi_cmd.ignore \in 0..spi_cmd.write
  BY <1>1 DEF SpiFields
<1> QED
  BY <1>2, <1>3, <1>4 DEF SpiTypes, SpiRegisters, SpiCommand, SpiAnswers, SpiTypeOK
LEMMA SpiTypesInit == SpiInit => SpiTypes
<1> SUFFICES ASSUME SpiInit PROVE SpiTypes
  OBVIOUS
<1>1. (CHOOSE s \in SpiSlaves : TRUE) \in SpiSlaves
  BY SpiAssumption
<1>2. 0 \in 0..SpiMaxLen
  BY SpiAssumption
<1>3. SpiRegisters
  BY <1>1, <1>2 DEF SpiInit, SpiRegisters
<1>4. SpiCommand
  BY <1>1, <1>2 DEF SpiInit, NoCommand, SpiCommand
<1>5. SpiAnswers
  BY DEF SpiInit, NoCommand, SpiAnswers
<1> QED
  BY <1>3, <1>4, <1>5 DEF SpiTypes

\* The peripheral's registers hold bytes of the command and slaves that commands name.
LEMMA SpiRegistersKept ==
  ASSUME SpiInv, SpiTypes, [SpiNext]_spiVars
  PROVE  SpiRegisters'
<1>1. SpiFields /\ SpiRegisters /\ SpiCommand
  BY DEF SpiInv, SpiTypes
<1>2. CASE UNCHANGED spi
  BY <1>1, <1>2 DEF SpiRegisters
<1>3. CASE SpiLoad
  BY <1>1, <1>3 DEF SpiLoad, SpiRegisters, SpiFields
<1>4. CASE SpiShifted
  BY <1>1, <1>4 DEF SpiShifted, SpiRegisters, SpiFields
<1>5. CASE SpiSelect
  BY <1>1, <1>5 DEF SpiSelect, SpiRegisters, SpiCommand, SpiFields
<1>6. CASE SpiForce
  <2>1. CASE COMMAND_TOGGLE_SS_N \in spi_cmd.flags
    BY <1>2, <1>6, <2>1 DEF SpiForce
  <2>2. CASE COMMAND_TOGGLE_SS_N \notin spi_cmd.flags
    BY <1>1, <1>6, <2>2 DEF SpiForce, SpiRegisters, SpiFields
  <2> QED
    BY <2>1, <2>2
<1>7. CASE SpiDiscard
  BY <1>1, <1>7 DEF SpiDiscard, SpiRegisters, SpiFields
<1>8. CASE SpiSend
  <2>1. UNCHANGED spi \/ \E byte \in 0..SpiMaxLen : SpiTxData(byte)
    <3>1. spi_cmd.written < spi_cmd.write => spi_cmd.written + 1 \in 0..SpiMaxLen
      BY <1>1, SpiAssumption DEF SpiFields, SpiCommand
    <3>2. SpiNoByte \in 0..SpiMaxLen
      BY SpiAssumption DEF SpiNoByte
    <3> QED
      BY <1>1, <1>8, <3>1, <3>2, SendCases DEF Idles, SpiWrites, SpiReads, Ends
  <2>2. ASSUME NEW byte \in 0..SpiMaxLen, SpiTxData(byte)
        PROVE  SpiRegisters'
    BY <1>1, <2>2 DEF SpiTxData, SpiRegisters, SpiFields
  <2> QED
    BY <1>2, <2>1, <2>2
<1>9. CASE SpiReceive
  <2>1. UNCHANGED spi \/ spi' = [spi EXCEPT !.RRDY = FALSE]
    BY <1>9 DEF SpiReceive
  <2> QED
    BY <1>1, <1>2, <2>1 DEF SpiRegisters, SpiFields
<1>10. CASE SpiRelease
  <2>1. UNCHANGED spi \/ spi' = [spi EXCEPT !.SSO = FALSE]
    BY <1>10 DEF SpiRelease
  <2> QED
    BY <1>1, <1>2, <2>1 DEF SpiRegisters, SpiFields
<1>11. SpiPoll \/ SpiFinish \/ UNCHANGED spiVars => UNCHANGED spi
  BY DEF SpiPoll, SpiFinish, spiVars
<1>12. (\E slave \in SpiSlaves, write, read \in 0..SpiMaxLen,
          flags \in SUBSET {COMMAND_MERGE, COMMAND_TOGGLE_SS_N} :
         write + read > 0 /\ alt_avalon_spi_command(slave, write, read, flags))
       => UNCHANGED spi
  BY DEF alt_avalon_spi_command
<1> QED
  BY <1>2, <1>3, <1>4, <1>5, <1>6, <1>7, <1>8, <1>9, <1>10, <1>11, <1>12
  DEF SpiNext, SpiDriver

\* A command keeps what it was called with, and its credits.
LEMMA SpiCommandKept ==
  ASSUME SpiInv, SpiTypes, [SpiNext]_spiVars
  PROVE  SpiCommand'
<1>1. SpiFields /\ SpiCommand /\ Credits
  BY DEF SpiInv, SpiTypes
<1>2. CASE UNCHANGED <<spi_cmd.slave, spi_cmd.write, spi_cmd.read, spi_cmd.credits>>
  BY <1>1, <1>2 DEF SpiCommand
<1>3. SpiLoad \/ SpiShifted \/ UNCHANGED spiVars => UNCHANGED spi_cmd
  BY DEF SpiLoad, SpiShifted, spiVars
<1>4. CASE SpiSelect \/ SpiForce \/ SpiDiscard \/ SpiFinish \/ SpiRelease
  <2>1. \E to \in {"sso", "discard", "poll", "release", "idle"} :
          spi_cmd' = [spi_cmd EXCEPT !.at = to]
    BY <1>4 DEF SpiSelect, SpiForce, SpiDiscard, SpiFinish, SpiRelease, Goes
  <2> QED
    BY <1>1, <1>2, <2>1 DEF SpiFields
<1>5. CASE SpiPoll
  BY <1>1, <1>2, <1>5 DEF SpiPoll, SpiFields
<1>6. CASE SpiSend
  <2>1. spi_cmd'.credits < 0 => spi_cmd'.credits = -1024
    BY <1>1, <1>6, SendCases DEF Idles, SpiWrites, SpiReads, Ends, SpiFields, SpiCommand
  <2> QED
    BY <1>1, <1>6, <2>1, SendCases DEF SpiCommand
<1>7. CASE SpiReceive
  <2>1. /\ spi_cmd'.slave = spi_cmd.slave /\ spi_cmd'.write = spi_cmd.write
        /\ spi_cmd'.read = spi_cmd.read
        /\ \/ spi_cmd'.credits = spi_cmd.credits
           \/ spi_cmd.rrdy /\ spi_cmd.at = "receive" /\ spi_cmd'.credits = spi_cmd.credits + 1
    BY <1>1, <1>7 DEF SpiReceive, Take, SpiFields
  <2>2. spi_cmd.rrdy /\ spi_cmd.at = "receive" => spi_cmd.credits >= 0
    <3>1. \A b \in BOOLEAN : OneIf(b) \in {0, 1}
      BY DEF OneIf
    <3>2. spi.RRDY => InFlight > 0
      BY <1>1, <3>1 DEF InFlight, OneIf, SpiFields
    <3> QED
      BY <1>1, <3>2 DEF Credits, SpiFields
  <2> QED
    BY <1>1, <2>1, <2>2 DEF SpiCommand, SpiFields
<1>8. CASE \E slave \in SpiSlaves, write, read \in 0..SpiMaxLen,
              flags \in SUBSET {COMMAND_MERGE, COMMAND_TOGGLE_SS_N} :
             write + read > 0 /\ alt_avalon_spi_command(slave, write, read, flags)
  <2>1. PICK slave \in SpiSlaves, write \in 0..SpiMaxLen, read \in 0..SpiMaxLen,
             flags \in SUBSET {COMMAND_MERGE, COMMAND_TOGGLE_SS_N} :
               alt_avalon_spi_command(slave, write, read, flags)
    BY <1>8
  <2> QED
    BY <2>1 DEF alt_avalon_spi_command, NoCommand, SpiCommand
<1> QED
  BY <1>2, <1>3, <1>4, <1>5, <1>6, <1>7, <1>8 DEF SpiNext, SpiDriver

\* The answers stay when the command is over.
LEMMA SpiAnswersKept ==
  ASSUME SpiInv, SpiTypes, SpiInv', [SpiNext]_spiVars
  PROVE  SpiAnswers'
<1>1. SpiFields /\ SpiFields' /\ Exchange' /\ SpiAnswers
  BY DEF SpiInv, SpiTypes
<1>2. CASE spi_cmd'.at # "idle"
  BY <1>1, <1>2, AnswersFit
<1>3. CASE spi_cmd'.at = "idle"
  <2>1. UNCHANGED spi_cmd \/ spi_cmd' = [spi_cmd EXCEPT !.at = "idle"]
    <3>1. CASE SpiRelease
      BY <3>1 DEF SpiRelease, Goes
    <3>2. CASE SpiLoad \/ SpiShifted \/ UNCHANGED spiVars
      BY <3>2 DEF SpiLoad, SpiShifted, spiVars
    <3>3. SpiSelect \/ SpiForce \/ SpiDiscard \/ SpiFinish
            => spi_cmd'.at \in {"sso", "discard", "poll", "release"}
      BY <1>1 DEF SpiSelect, SpiForce, SpiDiscard, SpiFinish, Goes, SpiFields
    <3>4. SpiPoll => spi_cmd'.at = "send"
      BY <1>1 DEF SpiPoll, SpiFields
    <3>5. SpiSend => spi_cmd'.at = "receive"
      BY <1>1, SendCases
    <3>6. SpiReceive => spi_cmd'.at \in {"poll", "finish"}
      BY <1>1 DEF SpiReceive, Take, SpiFields
    <3>7. (\E slave \in SpiSlaves, write, read \in 0..SpiMaxLen,
              flags \in SUBSET {COMMAND_MERGE, COMMAND_TOGGLE_SS_N} :
             write + read > 0 /\ alt_avalon_spi_command(slave, write, read, flags))
           => spi_cmd'.at = "select"
      BY DEF alt_avalon_spi_command, NoCommand
    <3> QED
      BY <1>3, <3>1, <3>2, <3>3, <3>4, <3>5, <3>6, <3>7 DEF SpiNext, SpiDriver
  <2> QED
    BY <1>1, <2>1 DEF SpiAnswers, SpiFields
<1> QED
  BY <1>2, <1>3

LEMMA SpiTypesStep == SpiInv /\ SpiTypes /\ [SpiNext]_spiVars => SpiInv' /\ SpiTypes'
<1>1. SpiInv /\ [SpiNext]_spiVars => SpiInv'
  BY SpiInvStep
<1> QED
  BY <1>1, SpiRegistersKept, SpiCommandKept, SpiAnswersKept DEF SpiTypes

-----------------------------------------------------------------------------
(* The four parts in one system.                                            *)

\* The four parts together: each keeps its invariants, whichever runs.
JtagAll == JtagInv /\ JtagKnown /\ JtagTypes
UartAll == UartInv /\ LeftToWrite /\ TxInv /\ RxInv /\ UartTypes
SpiAll  == SpiInv /\ SpiTypes
ConsolesInv == ConsoleInv /\ JtagAll /\ UartAll /\ SpiAll

\* A step of one part leaves the others as they are.
LEMMA PartsAlone ==
  [ConsoleNext]_all =>
    [Next]_vars /\ [JtagNext]_jtagVars /\ [UartNext]_uartVars /\ [SpiNext]_spiVars
BY DEF ConsoleNext, Polled, Jtag, Uart, SpiBus, all

LEMMA JtagAllStep == JtagAll /\ [JtagNext]_jtagVars => JtagAll'
BY JtagInvStep, JtagKnownStep, JtagTypesStep DEF JtagAll

LEMMA UartAllStep == UartAll /\ [UartNext]_uartVars => UartAll'
<1>1. LeftToWrite /\ [UartNext]_uartVars => LeftToWrite'
  BY LeftToWriteKept
<1> QED
  BY <1>1, UartInvStep, TxInvStep, RxInvStep, UartStepTypes DEF UartAll

LEMMA SpiAllStep == SpiAll /\ [SpiNext]_spiVars => SpiAll'
BY SpiTypesStep DEF SpiAll

LEMMA ConsolesInvariance == ConsoleSpec => []ConsolesInv
<1>1. ConsoleInit => ConsolesInv
  <2>1. Init => ConsoleInv
    BY InitConsoleInv
  <2>2. JtagInit => JtagAll
    BY JtagKnownInit, JtagTypesInit DEF JtagAll
  <2>3. UartInit => UartAll
    BY UartInvInit, TxInvInit, RxInvInit, UartInitTypes DEF UartAll
  <2>4. SpiInit => SpiAll
    BY SpiInvInit, SpiTypesInit DEF SpiAll
  <2> QED
    BY <2>1, <2>2, <2>3, <2>4 DEF ConsoleInit, ConsolesInv
<1>2. ConsolesInv /\ [ConsoleNext]_all => ConsolesInv'
  BY PartsAlone, StepConsoleInv, JtagAllStep, UartAllStep, SpiAllStep DEF ConsolesInv
<1> QED
  BY <1>1, <1>2, PTL DEF ConsoleSpec

\* The registers and the state of the four drivers keep their types, the counts of
\* characters and bytes included: no more travel than there are, no call moves more than it
\* was asked to (altera_avalon_jtag_uart_write.c:99-123, altera_avalon_uart_write.c:152-207,
\* altera_avalon_spi.c:41-134).
THEOREM ConsoleTypes == ConsoleSpec => []ConsoleTypeOK
<1>1. ConsolesInv => ConsoleTypeOK
  <2> SUFFICES ASSUME ConsolesInv PROVE ConsoleTypeOK
    OBVIOUS
  <2>1. TypeOK
    BY TypesAreTypeOK DEF ConsolesInv, ConsoleInv
  <2>2. JtagTypeOK
    BY DEF ConsolesInv, JtagAll, JtagTypes
  <2>3. UartTypeOK
    BY DEF ConsolesInv, UartAll, UartTypes
  <2>4. SpiTypeOK
    BY SpiTypesAre DEF ConsolesInv, SpiAll
  <2> QED
    BY <2>1, <2>2, <2>3, <2>4 DEF ConsoleTypeOK
<1> QED
  BY <1>1, ConsolesInvariance, PTL

\* Side by side as alone, no driver overruns a FIFO or a register, and none leaves an
\* interrupt off with characters to move.
THEOREM ConsolesAreSafe == ConsoleSpec => [](NoOverflow /\ JtagSafe /\ UartSafe /\ SpiSafe)
<1>1. ConsolesInv => NoOverflow /\ JtagSafe /\ UartSafe /\ SpiSafe
  <2> SUFFICES ASSUME ConsolesInv PROVE NoOverflow /\ JtagSafe /\ UartSafe /\ SpiSafe
    OBVIOUS
  <2>1. NoOverflow
    BY DEF ConsolesInv, ConsoleInv, Handover, NoOverflow
  <2>2. JtagSafe
    BY JtagInvIsSafe DEF ConsolesInv, JtagAll
  <2>3. UartSafe
    BY UartInvIsSafe DEF ConsolesInv, UartAll
  <2>4. SpiSafe
    BY OverIsDone DEF ConsolesInv, SpiAll, SpiInv
  <2> QED
    BY <2>1, <2>2, <2>3, <2>4
<1> QED
  BY <1>1, ConsolesInvariance, PTL

\* Side by side as alone, the polled console implements the abstract one, and characters
\* pass in order, either way, through both interrupt-driven drivers.
THEOREM ConsolesKeepOrder == ConsoleSpec => ImplementsConsole /\ CharactersInOrder
<1>1. ConsoleInit => Console!Init
  BY RefinesInit DEF ConsoleInit
<1>2. ConsolesInv /\ [ConsoleNext]_all => [Console!Next]_(Console!vars)
  BY PartsAlone, RefinesStep DEF ConsolesInv
<1>3. ConsolesInv /\ [ConsoleNext]_all
        => [jo'.sent # jo.sent => jo'.sent = jo.sent + 1]_jtagVars
  BY PartsAlone, OutInvStep DEF ConsolesInv, JtagAll, JtagKnown
<1>4. ConsolesInv /\ [ConsoleNext]_all
        => [jc.pc = "r_copy" /\ jc'.pc = "r_publish" => jo'.read = jo.read + jc.n]_jtagVars
  BY PartsAlone, InInvStep DEF ConsolesInv, JtagAll, JtagKnown
<1>5. ConsolesInv /\ [ConsoleNext]_all
        => [hw.shifting /\ ~hw.shifting' => ends'.sent = ends.sent + 1]_uartVars
  BY PartsAlone, TxLeaves DEF ConsolesInv, UartAll
<1>6. ConsolesInv /\ [ConsoleNext]_all
        => [fg.pc = "r_take" /\ fg.pc' = "r_advance"
              => sp.rx_buf[sp.rx_start] \in (ends.read + 1)..Damaged]_uartVars
  BY PartsAlone, RxTakes DEF ConsolesInv, UartAll
<1> QED
  BY <1>1, <1>2, <1>3, <1>4, <1>5, <1>6, ConsolesInvariance, PTL
  DEF ConsoleSpec, ImplementsConsole, Console!Spec, CharactersInOrder, JtagOutInOrder,
    JtagInInOrder, TxInOrder, RxInOrder

=============================================================================
