----------------------------- MODULE Enderecos -----------------------------
(***************************************************************************)
(* What the software believes of the hardware and what the hardware does:  *)
(* system.h, linker.h, io.h and the register headers on one side; the      *)
(* address decoder, the interrupt mapper and the read multiplexers of the  *)
(* peripherals on the other.  A step is one access to a register, one read *)
(* of a status word or one change of the interrupt lines.                  *)
(***************************************************************************)
EXTENDS Integers, Sequences

CONSTANT IdModulus   \* values of the word that sysid compares (2^32)

ASSUME EndAssumption == IdModulus \in Nat \ {0} /\ IdModulus % 2 = 0

VARIABLE io   \* the last access: what was asked and what came of it

-----------------------------------------------------------------------------
\* The software's side.

EndAt(base, span, type) == [base |-> base, span |-> span, type |-> type]

\* The parallel ports of the displays and of the LEDs.
system_h_pio ==
  [HEX_5 |-> EndAt(69728, 16, "pio"), HEX_4 |-> EndAt(69744, 16, "pio"), HEX_3 |-> EndAt(69760, 16, "pio"),
   HEX_2 |-> EndAt(69776, 16, "pio"), HEX_1 |-> EndAt(69792, 16, "pio"), HEX_0 |-> EndAt(69808, 16, "pio"),
   LEDS |-> EndAt(69824, 16, "pio")]

\* The devices with drivers, the program's scroller among them.
system_h_dev ==
  [jtag_uart_0 |-> EndAt(69848, 8, "jtag_uart"), spi_0 |-> EndAt(69632, 32, "spi"),
   uart_0 |-> EndAt(69664, 32, "uart"), timer_0 |-> EndAt(69696, 32, "timer"),
   sysid_qsys_0 |-> EndAt(69840, 8, "sysid"), scroller_avallon_0 |-> EndAt(0, 256, "scroller")]

system_h ==
  [dev \in DOMAIN system_h_pio \cup DOMAIN system_h_dev |->
     IF dev \in DOMAIN system_h_pio THEN system_h_pio[dev] ELSE system_h_dev[dev]]

Devices == DOMAIN system_h

IRQ == [jtag_uart_0 |-> 0, timer_0 |-> 1, spi_0 |-> 2, uart_0 |-> 3]

\* The registers that the headers have macros for, and the directions.
timer_regs == 0..9
uart_regs  == 0..5
jtag_regs  == 0..1
spi_regs   == {0, 1, 2, 3, 5}
pio_regs   == 0..5
sysid_regs == 0..1

Macros ==
  [timer |-> timer_regs, uart |-> uart_regs, jtag_uart |-> jtag_regs, spi |-> spi_regs,
   pio |-> pio_regs, sysid |-> sysid_regs, scroller |-> 0..63]

Directions(type) ==
  CASE type = "sysid"    -> {"IORD"}
    [] type = "scroller" -> {"IOWR"}
    [] OTHER             -> {"IORD", "IOWR"}

IO_CALC_ADDRESS_NATIVE(base, regnum) == base + regnum * 4

linker_h == {[base |-> 32800, span |-> 19968], [base |-> 32768, span |-> 32]}

\* Bits of the status and control words.
uart_status  == [PE |-> 1, FE |-> 2, BRK |-> 4, ROE |-> 8, TOE |-> 16, TMT |-> 32,
                 TRDY |-> 64, RRDY |-> 128, E |-> 256, DCTS |-> 1024, CTS |-> 2048,
                 EOP |-> 4096]
uart_control == [PE |-> 1, FE |-> 2, BRK |-> 4, ROE |-> 8, TOE |-> 16, TMT |-> 32,
                 TRDY |-> 64, RRDY |-> 128, E |-> 256, DCTS |-> 1024, RTS |-> 2048,
                 EOP |-> 4096]
timer_status  == [TO |-> 1, RUN |-> 2]
timer_control == [ITO |-> 1, CONT |-> 2, START |-> 4, STOP |-> 8]
spi_status    == [ROE |-> 8, TOE |-> 16, TMT |-> 32, TRDY |-> 64, RRDY |-> 128, E |-> 256]
spi_control   == [ROE |-> 8, TOE |-> 16, TRDY |-> 64, RRDY |-> 128, E |-> 256, SSO |-> 1024]
jtag_data     == [RVALID |-> 32768]
jtag_control  == [RE |-> 1, WE |-> 2, RI |-> 256, WI |-> 512, AC |-> 1024]

MSK == [uart_status |-> uart_status, uart_control |-> uart_control,
        timer_status |-> timer_status, timer_control |-> timer_control,
        spi_status |-> spi_status, spi_control |-> spi_control,
        jtag_data |-> jtag_data, jtag_control |-> jtag_control]

\* The count in the upper half of a JTAG UART word (RAVAIL, WSPACE).
OFST16(word) == word \div 65536

-----------------------------------------------------------------------------
\* The hardware's side.

\* Ranges of the address decoder, [first, end).
Decoder ==
  [scroller_avallon_0 |-> <<0, 256>>, onchip_memory2_0 |-> <<32768, 65536>>,
   debug |-> <<67584, 69632>>, spi_0 |-> <<69632, 69664>>, uart_0 |-> <<69664, 69696>>,
   timer_0 |-> <<69696, 69728>>, HEX_5 |-> <<69728, 69744>>, HEX_4 |-> <<69744, 69760>>,
   HEX_3 |-> <<69760, 69776>>, HEX_2 |-> <<69776, 69792>>, HEX_1 |-> <<69792, 69808>>,
   HEX_0 |-> <<69808, 69824>>, LEDS |-> <<69824, 69840>>,
   sysid_qsys_0 |-> <<69840, 69848>>, jtag_uart_0 |-> <<69848, 69856>>]

\* log2ceil, as the power: the low bits that the decoder ignores.
Pad(n) == CHOOSE p \in {2^k : k \in 0..17} : n <= p /\ p < 2 * n

Selects(s, addr, dir) ==
  LET first == Decoder[s][1]
      pad   == Pad(Decoder[s][2] - first)
  IN  /\ addr - (addr % pad) = first
      /\ s = "scroller_avallon_0" => dir = "IOWR"
      /\ s = "sysid_qsys_0" => dir = "IORD"

\* Nothing selected: the memory is the default.
Slave(addr, dir) ==
  LET hit == {s \in DOMAIN Decoder : Selects(s, addr, dir)}
  IN  IF hit = {} THEN "onchip_memory2_0" ELSE CHOOSE s \in hit : TRUE

\* Word addresses that a slave tells apart, and the words it has.
Words(s) ==
  CASE s = "onchip_memory2_0" -> 8192
    [] s = "debug" -> 512
    [] s = "scroller_avallon_0" -> 64
    [] s \in {"spi_0", "uart_0", "timer_0"} -> 8
    [] s \in {"jtag_uart_0", "sysid_qsys_0"} -> 2
    [] OTHER -> 4
MemoryWords == 5000

Answers ==
  [timer |-> 0..5, uart |-> 0..3, jtag_uart |-> 0..1, spi |-> {0, 1, 2, 3, 5, 6},
   pio |-> {0}, sysid |-> 0..1, scroller |-> 0..63]

Receiver == [jtag_uart_0 |-> 0, timer_0 |-> 1, spi_0 |-> 2, uart_0 |-> 3]

IRQ_MAP_Reversed == [n \in 0..3 |-> 3 - n]

IRQ_MAP == [n \in 0..3 |-> n]

\* The words that the read multiplexers build, from bit 0 up ("-" where no
\* flag of the header's is).
Wires ==
  [uart_status |-> <<"PE", "FE", "BRK", "ROE", "TOE", "TMT", "TRDY", "RRDY", "E">>,
   uart_control |-> <<"PE", "FE", "BRK", "ROE", "TOE", "TMT", "TRDY", "RRDY", "E">>,
   timer_status |-> <<"TO", "RUN">>,
   timer_control |-> <<"ITO", "CONT", "START", "STOP">>,
   spi_status |-> <<"-", "-", "-", "ROE", "TOE", "TMT", "TRDY", "RRDY", "E">>,
   spi_control |-> <<"-", "-", "-", "ROE", "TOE", "-", "TRDY", "RRDY", "E", "-", "SSO">>,
   jtag_data |-> <<"-", "-", "-", "-", "-", "-", "-", "-", "RI", "WI", "AC", "-", "-", "-", "-", "RVALID">>,
   jtag_control |-> <<"RE", "WE", "-", "-", "-", "-", "-", "-", "RI", "WI", "AC", "-", "-", "-", "-", "RVALID">>]

Signals(r) == {Wires[r][i] : i \in DOMAIN Wires[r]} \ {"-"}

\* What the error flag of a status word gathers is up exactly with it.
Possible(r, up) ==
  r \in {"uart_status", "spi_status"} =>
    ("E" \in up <=> up \intersect {"PE", "FE", "BRK", "ROE", "TOE"} # {})

Word(r, up, used) ==
  LET bit(i)  == IF i \in DOMAIN Wires[r] /\ Wires[r][i] \in up THEN 1 ELSE 0
      four(i) == bit(i) + 2 * bit(i + 1) + 4 * bit(i + 2) + 8 * bit(i + 3)
  IN  four(1) + 16 * four(5) + 256 * four(9) + 4096 * four(13)
        + 65536 * (CASE r = "jtag_data" -> used [] r = "jtag_control" -> 64 - used [] OTHER -> 0)

-----------------------------------------------------------------------------
\* Compares the generation stamps of software and hardware.

alt_avalon_sysid_qsys_test(ours, hardware) ==
  IF ours = hardware THEN 0
  ELSE LET d == (hardware.timestamp - ours.timestamp) % IdModulus
       IN  IF 0 < d /\ d < IdModulus \div 2 THEN 1 ELSE -1

EndInit == io = [op |-> "none"]

Access(dev, reg, dir) ==
  LET type == system_h[dev].type
      addr == IO_CALC_ADDRESS_NATIVE(system_h[dev].base, reg)
      s    == Slave(addr, dir)
  IN  io' = [op |-> "reg", dev |-> dev, reg |-> reg, slave |-> s,
             word |-> (addr \div 4) % Words(s)]

Fetch(addr, dir) ==
  LET s == Slave(addr, dir)
  IN  io' = [op |-> "mem", addr |-> addr, slave |-> s, word |-> (addr \div 4) % Words(s)]

Raise(devs) ==
  io' = [op |-> "irq", devs |-> devs, ipending |-> {IRQ_MAP[Receiver[d]] : d \in devs}]

ReadWord(r, up, used) ==
  /\ Possible(r, up)
  /\ io' = [op |-> "word", r |-> r, up |-> up, used |-> used, word |-> Word(r, up, used)]

TestId(ours, hardware) ==
  io' = [op |-> "id", ours |-> ours, hardware |-> hardware,
         verdict |-> alt_avalon_sysid_qsys_test(ours, hardware)]

Stamp == [id : 0..1, timestamp : 0..(IdModulus - 1)]

EndStep ==
  \/ \E dev \in Devices : \E reg \in Macros[system_h[dev].type] :
       \E dir \in Directions(system_h[dev].type) : Access(dev, reg, dir)
  \/ \E m \in linker_h : \E addr \in {m.base, m.base + m.span - 4}, dir \in {"IORD", "IOWR"} :
       Fetch(addr, dir)
  \/ \E devs \in SUBSET DOMAIN IRQ : Raise(devs)
  \/ \E r \in DOMAIN Wires : \E up \in SUBSET Signals(r), used \in {0, 1, 63, 64} :
       ReadWord(r, up, used)
  \/ \E ours, hardware \in Stamp : TestId(ours, hardware)

\* Every access starts from rest; what it leaves behind is no part of the next.
EndNext ==
  \/ io.op = "none" /\ EndStep
  \/ io.op # "none" /\ io' = [op |-> "none"]

EndSpec == EndInit /\ [][EndNext]_io

-----------------------------------------------------------------------------
\* Every access through a macro to a register that the hardware has reaches
\* that register of that device and no other, whatever shares the bus.
MacroReaches ==
  io.op = "reg" /\ io.reg \in Answers[system_h[io.dev].type] =>
    /\ io.slave = io.dev /\ io.word = io.reg
    /\ \A other \in Devices \ {io.dev} :
         system_h[io.dev].base + 4 * io.reg \notin
           system_h[other].base..(system_h[other].base + system_h[other].span - 1)

\* The regions that the linker fills are backed by memory words of their own.
RegionsBacked ==
  io.op = "mem" =>
    /\ io.slave = "onchip_memory2_0" /\ io.word < MemoryWords
    /\ io.word = (io.addr - 32768) \div 4

\* A device raises the line that system.h gives it, and only that one.
LinesAgree ==
  io.op = "irq" =>
    \A d \in DOMAIN IRQ : d \in io.devs <=> IRQ[d] \in io.ipending

\* Testing a word with the header's mask tells whether the hardware's signal is
\* up, and the count fields say how much is used or free.
MasksAgree ==
  io.op = "word" =>
    /\ \A f \in DOMAIN MSK[io.r] : (io.word \div MSK[io.r][f]) % 2 = 1 <=> f \in io.up
    /\ io.r = "jtag_data" => OFST16(io.word) = io.used
    /\ io.r = "jtag_control" => OFST16(io.word) + io.used = 64

\* The verdict on the stamps: 0 when software and hardware are in sync, 1 when
\* the software is older, -1 when the hardware is (altera_avalon_sysid_qsys.c:51),
\* for stamps less than half the range apart.
VerdictOnAge ==
  io.op = "id" =>
    LET s == io.ours.timestamp
        h == io.hardware.timestamp
    IN  /\ io.verdict = 0 <=> io.ours = io.hardware
        /\ s < h /\ h - s < IdModulus \div 2 => io.verdict = 1
        /\ h < s /\ s - h < IdModulus \div 2 => io.verdict = -1

\* Software and hardware agree on registers, memory, lines, bits and age: all of these.
AddressesAgree == MacroReaches /\ RegionsBacked /\ LinesAgree /\ MasksAgree /\ VerdictOnAge

=============================================================================
