----------------------------- MODULE Consoles ------------------------------
(* The four drivers that carry characters, each with its device: they share *)
(* nothing, so that a behaviour runs one of them, chosen at the start, and  *)
(* leaves the others in their initial states.                               *)
EXTENDS JtagUart, UartRapida, JtagRapida, Spi

VARIABLE part

all == <<part, vars, jtagVars, uartVars, spiVars>>

Polled(A) == part = "polled" /\ A /\ UNCHANGED <<part, jtagVars, uartVars, spiVars>>
Jtag(A)   == part = "jtag"   /\ A /\ UNCHANGED <<part, vars, uartVars, spiVars>>
Uart(A)   == part = "uart"   /\ A /\ UNCHANGED <<part, vars, jtagVars, spiVars>>
SpiBus(A) == part = "spi"    /\ A /\ UNCHANGED <<part, vars, jtagVars, uartVars>>

ConsoleInit ==
  /\ part \in {"polled", "jtag", "uart", "spi"}
  /\ Init /\ JtagInit /\ UartInit /\ SpiInit

ConsoleNext == Polled(Next) \/ Jtag(JtagNext) \/ Uart(UartNext) \/ SpiBus(SpiNext)

\* The fairness of the part that runs, as its module states it: a disjunction is
\* enabled and taken as its only enabled disjunct is.
ConsoleFairness ==
  /\ WF_all(\/ Polled(\E take \in BOOLEAN : Working(take)) \/ Jtag(JtagHandler)
            \/ Uart(Handler) \/ SpiBus(SpiDriver))
  /\ WF_all(\/ Polled(Working(TRUE) \/ Computing(TRUE))
            \/ Uart(LoadShifter \/ ShiftOut) \/ SpiBus(SpiLoad))
  /\ WF_all(SpiBus(SpiShifted))
  /\ SF_all(\/ Jtag(ji.pc = "off" /\ InCall /\ UNCHANGED ji)
            \/ Uart(isr.pc = "off" /\ (Writing \/ Reading \/ c_Wait) /\ UNCHANGED isr))
  /\ SF_all(Jtag(JtagTimeout)) /\ SF_all(Jtag(HostTakes))

ConsoleSpec == ConsoleInit /\ [][ConsoleNext]_all /\ ConsoleFairness

-----------------------------------------------------------------------------
\* The registers and the state of the four drivers keep their types.
ConsoleTypeOK == TypeOK /\ JtagTypeOK /\ UartTypeOK /\ SpiTypeOK

\* What a program writes to a console or reads from one passes in order, nothing
\* twice, whatever interrupts it and wherever (the write and read functions of
\* altera_avalon_jtag_uart and of altera_avalon_uart with their handlers).
CharactersInOrder == JtagOutInOrder /\ JtagInInOrder /\ TxInOrder /\ RxInOrder

\* With a host on the cable everything the polled driver prints arrives
\* (altera_avalon_jtag_uart_write.c:60-73).
PolledDelivers == part = "polled" => AllDelivered

\* Nobody waits for ever: a call on the JTAG UART whose timeout is on, the
\* characters in the UART's buffer, an SPI command.
ConsoleLive == NoWaitForEver /\ TxDrains /\ SpiReturns

=============================================================================
