------------------------------ MODULE JtagUart ------------------------------
(***************************************************************************)
(* The console of the program, clock edge by clock edge: the polled (small)*)
(* driver altera_avalon_jtag_uart_write, the Avalon transfers it makes, and*)
(* the write side of the peripheral myhardware_jtag_uart_0, whose FIFO a   *)
(* host on the JTAG cable empties.                                         *)
(*                                                                         *)
(* A transfer takes two edges.  At the first, av_waitrequest is still 1 and*)
(* the peripheral acts; at the second it is 0 and the transfer completes.  *)
(* A data write only sets fifo_wr at the first edge: the character enters  *)
(* the FIFO at the second, taken from the bus, which must still hold it.   *)
(***************************************************************************)
EXTENDS Naturals, Sequences

CONSTANTS
  Depth,        \* characters the write FIFO holds (64)
  Text,         \* what the program prints, a sequence of characters
  MaxResets     \* bound on the resets of a behaviour

ASSUME ConsoleAssumption ==
  /\ Depth \in Nat \ {0}
  /\ Text \in Seq(Nat \ {0})
  /\ MaxResets \in Nat

VARIABLES
  ptr,              \* driver: index in Text of the next character to write
  room,             \* driver: the WSPACE just read was not 0
  bus,              \* the access the processor holds on the bus
  av_waitrequest, fifo_wr, woverflow, wfifo,   \* the peripheral
  delivered,        \* what the host has received
  resets

driver     == <<ptr, room, bus>>
peripheral == <<av_waitrequest, fifo_wr, woverflow, wfifo>>
vars == <<ptr, room, bus, av_waitrequest, fifo_wr, woverflow, wfifo, delivered, resets>>

Garbage == 0       \* what writedata carries when no write holds the bus

TypeOK ==
  /\ ptr \in 1..(Len(Text) + 1)
  /\ room \in BOOLEAN
  /\ bus \in {"idle", "read", "write"}
  /\ {av_waitrequest, fifo_wr, woverflow} \subseteq {0, 1}
  /\ wfifo \in Seq(Nat) /\ delivered \in Seq(Nat)
  /\ resets \in 0..MaxResets

PowerUp ==
  /\ ptr = 1 /\ room = FALSE /\ bus = "idle"
  /\ av_waitrequest = 1 /\ fifo_wr = 0 /\ woverflow = 0
  /\ wfifo = <<>> /\ delivered = <<>>

Init == PowerUp /\ resets = 0

-----------------------------------------------------------------------------
fifo_FF      == Len(wfifo) >= Depth
WSPACE       == Depth - Len(wfifo)
av_writedata == IF bus = "write" THEN Text[ptr] ELSE Garbage

\* The registers of the slave.
Slave ==
  /\ av_waitrequest' = IF bus # "idle" /\ av_waitrequest = 1 THEN 0 ELSE 1
  /\ IF bus = "write" /\ av_waitrequest = 1
       THEN /\ fifo_wr' = IF fifo_FF THEN 0 ELSE 1
            /\ woverflow' = IF fifo_FF THEN 1 ELSE 0
       ELSE /\ fifo_wr' = 0
            /\ UNCHANGED woverflow

\* The FIFO: the host may take the oldest character, and fifo_wr adds one.
Fifo(take) ==
  LET kept == IF take THEN Tail(wfifo) ELSE wfifo
  IN  /\ take => wfifo # <<>>
      /\ wfifo' = IF fifo_wr = 1 THEN Append(kept, av_writedata) ELSE kept
      /\ delivered' = IF take THEN Append(delivered, Head(wfifo)) ELSE delivered

\* The while loop of the driver: poll WSPACE, and write when it is not 0.
StartRead ==
  /\ bus = "idle" /\ ptr <= Len(Text) /\ ~room
  /\ bus' = "read"
  /\ UNCHANGED <<ptr, room>>

StartWrite ==
  /\ bus = "idle" /\ ptr <= Len(Text) /\ room
  /\ bus' = "write"
  /\ room' = FALSE
  /\ UNCHANGED ptr

Wait == bus # "idle" /\ av_waitrequest = 1 /\ UNCHANGED driver

\* X_Suffix is a wrong version of X, on which the properties are tried.
EndRead_NoTest ==
  /\ bus = "read" /\ av_waitrequest = 0
  /\ bus' = "idle"
  /\ room' = TRUE
  /\ UNCHANGED ptr

EndRead ==
  /\ bus = "read" /\ av_waitrequest = 0
  /\ bus' = "idle"
  /\ room' = (WSPACE # 0)
  /\ UNCHANGED ptr

EndWrite_NoHandshake ==
  /\ bus = "write"
  /\ bus' = "idle"
  /\ ptr' = ptr + 1
  /\ UNCHANGED room

EndWrite_SkipsOne ==
  /\ bus = "write" /\ av_waitrequest = 0
  /\ bus' = "idle"
  /\ ptr' = ptr + 2
  /\ UNCHANGED room

EndWrite ==
  /\ bus = "write" /\ av_waitrequest = 0
  /\ bus' = "idle"
  /\ ptr' = ptr + 1
  /\ UNCHANGED room

Master == StartRead \/ StartWrite \/ Wait \/ EndRead \/ EndWrite

\* Between two accesses the processor executes instructions.
Compute == bus = "idle" /\ UNCHANGED driver

Edge(processor, take) ==
  /\ processor
  /\ Slave
  /\ Fifo(take)
  /\ UNCHANGED resets

Working(take) == Edge(Master, take)
Computing(take) == Edge(Compute, take)

\* The reset reaches processor and peripheral together and empties the FIFO.
Reset ==
  /\ resets < MaxResets
  /\ resets' = resets + 1
  /\ ptr' = 1 /\ room' = FALSE /\ bus' = "idle"
  /\ av_waitrequest' = 1 /\ fifo_wr' = 0 /\ woverflow' = 0
  /\ wfifo' = <<>> /\ delivered' = <<>>

Next ==
  \/ \E take \in BOOLEAN : Working(take)
  \/ \E take \in BOOLEAN : Computing(take)
  \/ Reset

\* Fairness: the processor goes on executing, and an attached host goes on
\* emptying the FIFO.
ProcessorFair == WF_vars(\E take \in BOOLEAN : Working(take))
HostFair      == WF_vars(Working(TRUE) \/ Computing(TRUE))

Spec         == Init /\ [][Next]_vars /\ ProcessorFair
SpecWithHost == Spec /\ HostFair

-----------------------------------------------------------------------------
\* The driver never writes into a full FIFO: between its reading of WSPACE and
\* the entry of the character two transfers and their delays pass, and nobody
\* else fills the FIFO (altera_avalon_jtag_uart_write.c:66-68,
\* myhardware_jtag_uart_0.v:488-503).
NoOverflow == woverflow = 0 /\ Len(wfifo) <= Depth

Console == INSTANCE Canal WITH queue <- wfifo

\* Driver and peripheral together implement the console: each character of the
\* text reaches the host once and in order, although it enters the FIFO one
\* edge after the slave accepted it (myhardware_jtag_uart_0.v:465-503).
ImplementsConsole == Console!Spec

\* With a host on the cable everything printed arrives.
AllDelivered == <>[](delivered = Text)

=============================================================================
