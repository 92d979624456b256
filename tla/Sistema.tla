------------------------------ MODULE Sistema ------------------------------
(***************************************************************************)
(* The whole board (src/hardware.vhd): the program of the Nios II          *)
(* (src/software/display/hello_world_small.c), the scroller it writes to,  *)
(* the FIFO of the JTAG console it prints on, a user at SW 0, KEY 0 (reset)*)
(* and the buttons, and a host that may be plugged in or out.              *)
(*                                                                         *)
(* Every step of the program happens at an edge of the one clock and makes *)
(* at most one access to the scroller; between two of them any number of   *)
(* edges may pass (Idle), which is all that is assumed of the processor's  *)
(* speed and of usleep.                                                    *)
(***************************************************************************)
EXTENDS Integers, FiniteSets

CONSTANTS
  TextLen, Window, DEFAULT_SPEED, Step, MinLimit, MaxLimit, CounterTop, CounterMod,
  WordMod,
  velocidade_inicial,   \* the speed the program writes (5 000 000)
  frase,                \* the 32 characters it writes
  Depth,                \* FIFO of the console (64)
  InicioLen, FimLen,    \* characters printed before and after the configuration
  UserButtons           \* the buttons the user touches; the others are released

ASSUME SystemAssumption ==
  /\ TextLen \in Nat \ {0} /\ WordMod \in Nat \ {0}
  /\ velocidade_inicial \in 0..(WordMod - 1)
  /\ frase \in [0..(TextLen - 1) -> 0..255]
  /\ {Depth, InicioLen, FimLen} \subseteq Nat \ {0}
  /\ InicioLen <= Depth
  /\ UserButtons \subseteq 0..2

\* Those of the scroller; a word has room for a character.
ASSUME ScrollerAssumption ==
  /\ Window \in 1..TextLen /\ WordMod > 255
  /\ {DEFAULT_SPEED, MinLimit, MaxLimit} \subseteq Int /\ Step \in Nat \ {0}
  /\ CounterTop \in Nat /\ CounterMod \in Nat /\ CounterTop < CounterMod

VARIABLES
  reset, switch_enable, buttons,
  speed_counter, speed_limit, scroll_idx, is_paused, btn_prev,
  ram,
  pc, i,        \* the program: its place, and the index of the text loop
  left,         \* characters of the present printf not yet in the FIFO
  fifo,         \* characters in the FIFO
  host          \* "on" while a host empties it, "never" before the first time

scroller == <<reset, switch_enable, buttons,
              speed_counter, speed_limit, scroll_idx, is_paused, btn_prev, ram>>
program  == <<pc, i, left>>
vars == <<reset, switch_enable, buttons,
          speed_counter, speed_limit, scroll_idx, is_paused, btn_prev, ram,
          pc, i, left, fifo, host>>

AddrCtrl  == TextLen
AddrSpeed == TextLen + 1

\* Every write the program ever makes.
ProgramWrites ==
  {<<AddrSpeed, velocidade_inicial>>, <<AddrCtrl, 0>>, <<AddrCtrl, 1>>}
    \cup {<<k, frase[k]>> : k \in 0..(TextLen - 1)}

S == INSTANCE ScrollerAvalon WITH BusWrites <- ProgramWrites

AfterConfig == {"fim", "dorme", "pausa", "dorme_pausado", "retoma"}
Places      == {"inicio", "velocidade", "controle", "texto"} \cup AfterConfig

TypeOK ==
  /\ S!TypeOK
  /\ pc \in Places
  /\ i \in 0..TextLen
  /\ left \in 0..(InicioLen + FimLen)
  /\ fifo \in 0..Depth
  /\ host \in {"never", "off", "on"}

Init ==
  /\ S!Init
  /\ \A b \in (0..2) \ UserButtons : buttons[b] = 1
  /\ pc = "inicio" /\ i = 0 /\ left = InicioLen
  /\ fifo = 0
  /\ host = "never"

-----------------------------------------------------------------------------
(* The program.                                                            *)

Goto(from, to) == pc = from /\ pc' = to

NoWrite        == S!BusCycle(0, 0, 0)
IOWR(reg, val) == S!BusCycle(1, reg, val)

\* X_Suffix is a wrong version of X, on which the properties are tried.
PrintChar_NoSpaceTest(from, to) ==
  /\ pc = from
  /\ fifo' = fifo + 1
  /\ left' = left - 1
  /\ pc' = IF left = 1 THEN to ELSE from
  /\ UNCHANGED i
  /\ NoWrite

\* One character of a printf enters the FIFO; a full FIFO stops the program.
PrintChar(from, to) ==
  /\ pc = from
  /\ fifo < Depth
  /\ fifo' = fifo + 1
  /\ left' = left - 1
  /\ pc' = IF left = 1 THEN to ELSE from
  /\ UNCHANGED i
  /\ NoWrite

WriteReg(from, to, reg, val) ==
  /\ Goto(from, to)
  /\ UNCHANGED <<i, left, fifo>>
  /\ IOWR(reg, val)

WriteText_ShortLoop ==
  /\ pc = "texto"
  /\ IOWR(i, frase[i])
  /\ i' = i + 1
  /\ IF i + 1 < TextLen - 1
       THEN UNCHANGED <<pc, left>>
       ELSE pc' = "fim" /\ left' = FimLen
  /\ UNCHANGED fifo

WriteText_OneAddressOff ==
  /\ pc = "texto"
  /\ IOWR(i + 1, frase[i])
  /\ i' = i + 1
  /\ IF i + 1 < TextLen
       THEN UNCHANGED <<pc, left>>
       ELSE pc' = "fim" /\ left' = FimLen
  /\ UNCHANGED fifo

WriteText ==
  /\ pc = "texto"
  /\ IOWR(i, frase[i])
  /\ i' = i + 1
  /\ IF i + 1 < TextLen
       THEN UNCHANGED <<pc, left>>
       ELSE pc' = "fim" /\ left' = FimLen
  /\ UNCHANGED fifo

EndSleep(from, to) ==
  /\ Goto(from, to)
  /\ UNCHANGED <<i, left, fifo>>
  /\ NoWrite

Program ==
  \/ PrintChar("inicio", "velocidade")
  \/ WriteReg("velocidade", "controle", AddrSpeed, velocidade_inicial)
  \/ WriteReg("controle", "texto", AddrCtrl, 0)
  \/ WriteText
  \/ PrintChar("fim", "dorme")
  \/ EndSleep("dorme", "pausa")
  \/ WriteReg("pausa", "dorme_pausado", AddrCtrl, 1)
  \/ EndSleep("dorme_pausado", "retoma")
  \/ WriteReg("retoma", "dorme", AddrCtrl, 0)

Boot_KeepsFifo ==
  /\ pc' = "inicio" /\ i' = 0 /\ left' = InicioLen
  /\ UNCHANGED fifo
  /\ NoWrite

Boot_ProgramGoesOn ==
  /\ UNCHANGED program
  /\ fifo' = 0
  /\ NoWrite

\* Under reset the processor restarts the program and the FIFO is cleared.
Boot ==
  /\ pc' = "inicio" /\ i' = 0 /\ left' = InicioLen
  /\ fifo' = 0
  /\ NoWrite

Work ==
  /\ \/ reset = 1 /\ Boot
     \/ reset = 0 /\ Program
  /\ UNCHANGED host

Idle ==
  /\ reset = 0
  /\ UNCHANGED <<program, fifo, host>>
  /\ NoWrite

Clock == Work \/ Idle

-----------------------------------------------------------------------------
(* The user and the host.                                                  *)

User ==
  /\ S!MoveReset \/ S!MoveSwitch \/ \E b \in UserButtons : S!MoveButton(b)
  /\ UNCHANGED <<program, fifo, host>>

Plug ==
  /\ host' = IF host = "on" THEN "off" ELSE "on"
  /\ UNCHANGED <<scroller, program, fifo>>

Drain ==
  /\ host = "on" /\ fifo > 0
  /\ fifo' = fifo - 1
  /\ UNCHANGED <<scroller, program, host>>

Next == Clock \/ User \/ Plug \/ Drain

\* The clock runs, the processor executes, and a host that stays plugged in
\* goes on reading.  Nothing is assumed of the user.
Spec == Init /\ [][Next]_vars /\ WF_vars(Clock) /\ WF_vars(Work) /\ WF_vars(Drain)

-----------------------------------------------------------------------------
(* Properties.                                                             *)

Configured == pc \in AfterConfig
On         == switch_enable = 1 /\ reset = 0

\* Once the text loop has ended the memory holds the phrase, all of it, although
\* the loop may have been cut short by resets and the display may have been off
\* (hello_world_small.c:31-33, bloco_operacional.vhd:93-103).
TextLoaded ==
  /\ Configured => ram = frase
  /\ pc = "texto" => \A k \in 0..(i - 1) : ram[k] = frase[k]

\* When the resets stop, the phrase gets into the memory for good, host or no
\* host, display on or off: what is printed before the configuration fits in the
\* FIFO that a reset has emptied (hello_world_small.c:21-33).
TextEventuallyStays == <>[](reset = 0) => <>[](ram = frase)

\* With the display on all the time the configured speed is in force as soon as
\* the configuration is over, and stays so while nobody touches the speed
\* buttons (hello_world_small.c:24-28, bloco_controle.vhd:55-68).
SpeedConfigured ==
  [](switch_enable = 1) => [](Configured => speed_limit = velocidade_inicial)

\* Display on, host plugged in and no reset: the program resumes the text again
\* and again, so that nothing a user does with the buttons stops it for good
\* (hello_world_small.c:49-56).
TextNeverStops ==
  <>[](On /\ host = "on") => \A k \in 0..(TextLen - 1) : []<>(scroll_idx = k)

\* "--- CONFIGURACAO FINALIZADA ---" (hello_world_small.c:35): the program says
\* so when the configured speed is in force.
ConfigurationDone == Configured => speed_limit = velocidade_inicial

\* "A partir de agora, o hardware (VHDL) controla tudo." (hello_world_small.c:36):
\* from the end of the configuration on, only the button and the reset change
\* the pause.
HardwareInCharge ==
  [][Configured /\ is_paused' # is_paused => reset = 1 \/ S!Ctrl!Pressed(0)]_vars

\* As long as no host has ever been plugged in that announcement holds: the
\* program is stopped by the full FIFO before it reaches its pause loop, however
\* often it is restarted (altera_avalon_jtag_uart_write.c:66-68,
\* hello_world_small.c:35-44).
PauseLeftAlone ==
  [][host = "never" /\ Configured /\ is_paused' # is_paused
       => reset = 1 \/ S!Ctrl!Pressed(0)]_vars

\* The program drives the scroller only through writes the scroller's own
\* specification admits (hello_world_small.c:27-54, scroller_avalon.vhd:59-104).
ImplementsScroller == S!Spec

=============================================================================
