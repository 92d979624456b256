-------------------------------- MODULE Spi --------------------------------
(***************************************************************************)
(* One SPI transaction after another: alt_avalon_spi_command against the   *)
(* peripheral's holding and shift registers, which move on their own.      *)
(***************************************************************************)
EXTENDS Integers, Sequences

CONSTANTS
  SpiSlaves,    \* slave numbers that commands name
  SpiMaxLen,    \* bound: bytes written, bytes read
  SpiMaxCalls   \* bound: commands

ASSUME SpiAssumption ==
  SpiSlaves \subseteq Nat /\ SpiSlaves # {} /\ SpiMaxLen \in Nat \ {0} /\ SpiMaxCalls \in Nat

VARIABLES
  spi,        \* the peripheral
  spi_cmd,    \* alt_avalon_spi_command: place, arguments and locals
  spi_wire,   \* history: bytes exchanged by this command, with their slave
  spi_frame,  \* history: bytes since the chip select was last released or moved
  spi_group,  \* history: bytes since the last command without the merge flag began
  spi_calls   \* commands begun

spiVars == <<spi, spi_cmd, spi_wire, spi_frame, spi_group, spi_calls>>

COMMAND_MERGE       == "MERGE"
COMMAND_TOGGLE_SS_N == "TOGGLE_SS_N"

\* A byte is named by its place in the command; 0 is the byte sent to read.
SpiNoByte == 0

SpiTypeOK ==
  /\ spi.select \in SpiSlaves /\ spi.selectHold \in SpiSlaves
  /\ {spi.primed, spi.transmitting, spi.RRDY, spi.ROE, spi.TOE, spi.SSO} \subseteq BOOLEAN
  /\ {spi.hold, spi.shift} \subseteq 0..SpiMaxLen
  /\ spi_cmd.credits \in {-1024, -1023, 0, 1}
  /\ spi_cmd.written \in 0..spi_cmd.write /\ spi_cmd.zeros \in 0..spi_cmd.read
  /\ spi_cmd.ignore \in 0..spi_cmd.write /\ Len(spi_cmd.data) <= spi_cmd.read

NoCommand ==
  [at |-> "idle", slave |-> CHOOSE s \in SpiSlaves : TRUE, write |-> 0, read |-> 0, flags |-> {},
   written |-> 0, zeros |-> 0, ignore |-> 0, credits |-> 1, trdy |-> FALSE, rrdy |-> FALSE,
   data |-> <<>>]

SpiInit ==
  /\ spi = [hold |-> 0, primed |-> FALSE, shift |-> 0, transmitting |-> FALSE, rx |-> 0,
            RRDY |-> FALSE, ROE |-> FALSE, TOE |-> FALSE, SSO |-> FALSE,
            select |-> CHOOSE s \in SpiSlaves : TRUE, selectHold |-> CHOOSE s \in SpiSlaves : TRUE]
  /\ spi_cmd = NoCommand /\ spi_wire = <<>> /\ spi_frame = 0 /\ spi_group = 0 /\ spi_calls = 0

-----------------------------------------------------------------------------
\* The peripheral.

TRDY == ~(spi.transmitting /\ spi.primed)
TMT  == ~spi.transmitting /\ ~spi.primed

\* write_shift_reg: the held byte moves to the shift register, and the chosen
\* slave to the select line.
SpiLoad ==
  /\ spi.primed /\ ~spi.transmitting
  /\ spi' = [spi EXCEPT !.shift = spi.hold, !.primed = FALSE, !.transmitting = TRUE,
                        !.select = spi.selectHold]
  /\ spi_frame' = IF spi.select = spi.selectHold THEN spi_frame ELSE 0
  /\ UNCHANGED <<spi_cmd, spi_wire, spi_group, spi_calls>>

\* The eight bits are through: the answer is named by the byte's place on the
\* wire.  Unless it is held, the chip select is released.
SpiShifted ==
  /\ spi.transmitting
  /\ spi' = [spi EXCEPT !.transmitting = FALSE, !.rx = Len(spi_wire) + 1, !.RRDY = TRUE,
                        !.ROE = spi.ROE \/ spi.RRDY]
  /\ spi_wire' = Append(spi_wire, [slave |-> spi.select, sent |-> spi.shift])
  /\ spi_frame' = IF spi.SSO THEN spi_frame + 1 ELSE 0
  /\ spi_group' = spi_group + 1
  /\ UNCHANGED <<spi_cmd, spi_calls>>

-----------------------------------------------------------------------------
\* The driver; every access to the peripheral is a step.

Goes(at, to) == spi_cmd.at = at /\ spi_cmd' = [spi_cmd EXCEPT !.at = to]

alt_avalon_spi_command(slave, write, read, flags) ==
  /\ spi_cmd.at = "idle" /\ spi_calls < SpiMaxCalls /\ spi_calls' = spi_calls + 1
  /\ spi_cmd' = [NoCommand EXCEPT !.at = "select", !.slave = slave, !.write = write,
                                  !.read = read, !.flags = flags, !.zeros = read,
                                  !.ignore = write]
  /\ spi_wire' = <<>>
  /\ spi_group' = IF /\ COMMAND_MERGE \in flags /\ slave = spi_cmd.slave
                     /\ COMMAND_TOGGLE_SS_N \notin flags \union spi_cmd.flags
                  THEN spi_group ELSE 0
  /\ UNCHANGED <<spi, spi_frame>>

SpiSelect ==
  /\ Goes("select", "sso")
  /\ spi' = [spi EXCEPT !.selectHold = spi_cmd.slave]
  /\ UNCHANGED <<spi_wire, spi_frame, spi_group, spi_calls>>

\* Writing the control register with SSO set, when it was not, also moves the
\* chosen slave to the select line.
SpiForce ==
  /\ Goes("sso", "discard")
  /\ IF COMMAND_TOGGLE_SS_N \in spi_cmd.flags THEN UNCHANGED spi
     ELSE spi' = [spi EXCEPT !.SSO = TRUE,
                             !.select = IF spi.SSO THEN @ ELSE spi.selectHold]
  /\ UNCHANGED <<spi_wire, spi_frame, spi_group, spi_calls>>

SpiDiscard ==
  /\ Goes("discard", "poll")
  /\ spi' = [spi EXCEPT !.RRDY = FALSE]
  /\ UNCHANGED <<spi_wire, spi_frame, spi_group, spi_calls>>

Unready_Both(trdy, rrdy) == ~trdy \/ spi_cmd.credits = 0 \/ ~rrdy

Unready(trdy, rrdy) == (~trdy \/ spi_cmd.credits = 0) /\ ~rrdy

SpiPoll ==
  /\ spi_cmd.at = "poll" /\ ~Unready(TRDY, spi.RRDY)
  /\ spi_cmd' = [spi_cmd EXCEPT !.at = "send", !.trdy = TRDY, !.rrdy = spi.RRDY]
  /\ UNCHANGED <<spi, spi_wire, spi_frame, spi_group, spi_calls>>

\* The write to TXDATA; a byte written while there is no room is lost.
SpiTxData(byte) ==
  spi' = IF TRDY THEN [spi EXCEPT !.hold = byte, !.primed = TRUE] ELSE [spi EXCEPT !.TOE = TRUE]

Spend_Twice(c) == IF c = 1 /\ spi_cmd.written = 0 THEN 1 ELSE c - 1

Spend(c) == c - 1

SpiSend ==
  /\ spi_cmd.at = "send"
  /\ LET next == [spi_cmd EXCEPT !.at = "receive"]
     IN  IF ~spi_cmd.trdy \/ spi_cmd.credits <= 0
         THEN spi_cmd' = next /\ UNCHANGED spi
         ELSE \/ /\ spi_cmd.written < spi_cmd.write
                 /\ spi_cmd' = [next EXCEPT !.credits = Spend(@), !.written = @ + 1]
                 /\ SpiTxData(spi_cmd.written + 1)
              \/ /\ spi_cmd.written = spi_cmd.write /\ spi_cmd.zeros > 0
                 /\ spi_cmd' = [next EXCEPT !.credits = Spend(@), !.zeros = @ - 1]
                 /\ SpiTxData(SpiNoByte)
              \/ /\ spi_cmd.written = spi_cmd.write /\ spi_cmd.zeros = 0
                 /\ spi_cmd' = [next EXCEPT !.credits = -1024]
                 /\ UNCHANGED spi
  /\ UNCHANGED <<spi_wire, spi_frame, spi_group, spi_calls>>

\* What follows the read of RXDATA: the answers to the bytes written are
\* dropped, and the loop is left when the last byte wanted has come.
Take_All(c) == [c EXCEPT !.data = IF Len(@) < c.read THEN Append(@, spi.rx) ELSE @,
                         !.ignore = IF @ > 0 THEN @ - 1 ELSE @, !.credits = @ + 1]

Take(c) ==
  [c EXCEPT !.ignore = IF @ > 0 THEN @ - 1 ELSE @,
            !.data = IF c.ignore > 0 THEN @ ELSE Append(@, spi.rx),
            !.credits = @ + 1]

SpiReceive ==
  /\ spi_cmd.at = "receive"
  /\ IF ~spi_cmd.rrdy
     THEN spi_cmd' = [spi_cmd EXCEPT !.at = "poll"] /\ UNCHANGED spi
     ELSE /\ spi' = [spi EXCEPT !.RRDY = FALSE]
          /\ LET c == Take(spi_cmd)
             IN  spi_cmd' = [c EXCEPT !.at = IF c.ignore = 0 /\ Len(c.data) = c.read
                                             THEN "finish" ELSE "poll"]
  /\ UNCHANGED <<spi_wire, spi_frame, spi_group, spi_calls>>

SpiFinish ==
  /\ TMT /\ Goes("finish", "release")
  /\ UNCHANGED <<spi, spi_wire, spi_frame, spi_group, spi_calls>>

SpiRelease ==
  /\ Goes("release", "idle")
  /\ IF COMMAND_MERGE \in spi_cmd.flags THEN UNCHANGED <<spi, spi_frame>>
     ELSE spi' = [spi EXCEPT !.SSO = FALSE] /\ spi_frame' = 0
  /\ UNCHANGED <<spi_wire, spi_group, spi_calls>>

SpiDriver ==
  \/ SpiSelect \/ SpiForce \/ SpiDiscard \/ SpiPoll \/ SpiSend \/ SpiReceive
  \/ SpiFinish \/ SpiRelease

\* A command with nothing to write and nothing to read never returns: no byte
\* comes back to leave the loop.  The callers modelled do not ask for it.
SpiNext ==
  \/ SpiLoad \/ SpiShifted \/ SpiDriver
  \/ \E slave \in SpiSlaves, write, read \in 0..SpiMaxLen,
        flags \in SUBSET {COMMAND_MERGE, COMMAND_TOGGLE_SS_N} :
       write + read > 0 /\ alt_avalon_spi_command(slave, write, read, flags)

SpiSpec == SpiInit /\ [][SpiNext]_spiVars /\ WF_spiVars(SpiLoad) /\ WF_spiVars(SpiShifted)
                   /\ WF_spiVars(SpiDriver)

-----------------------------------------------------------------------------
\* No byte is overwritten before it is read or sent, in whatever order the
\* peripheral's steps fall between the driver's accesses
\* (altera_avalon_spi.c:53: "otherwise it will overflow").
SpiNoOverrun == ~spi.ROE /\ ~spi.TOE

\* A command that is over has exchanged the bytes to write and then as many
\* again as to read, all with the slave it names, and has kept just the answers
\* to the latter, in order.
SpiExchanged ==
  spi_cmd.at = "release" =>
    LET c == spi_cmd
    IN  /\ spi_wire = [i \in 1..(c.write + c.read) |->
                         [slave |-> c.slave, sent |-> IF i <= c.write THEN i ELSE SpiNoByte]]
        /\ c.data = [i \in 1..c.read |-> c.write + i]

\* Without the toggle flag the chip select is held from the command's first
\* byte to its last.
SpiHeld ==
  spi_cmd.at = "release" /\ COMMAND_TOGGLE_SS_N \notin spi_cmd.flags =>
    spi_frame >= spi_cmd.write + spi_cmd.read

\* The bus carries what the commands ask for: the three above.
SpiSafe == SpiNoOverrun /\ SpiExchanged /\ SpiHeld

\* A command that was begun returns.
SpiReturns == spi_cmd.at # "idle" ~> spi_cmd.at = "idle"

\* What altera_avalon_spi.h:55 says of several accesses to one slave: with the
\* merge bit set "for all of them except the first" they share one selection.
MergedTogether ==
  spi_cmd.at = "release" /\ COMMAND_TOGGLE_SS_N \notin spi_cmd.flags => spi_frame >= spi_group

=============================================================================
