---------------------------- MODULE Sistema_proofs ----------------------------
(* The program on the board: what it writes the scroller admits, and what it  *)
(* has written is in the memory, whatever user, resets and host do.           *)
EXTENDS Sistema, TLAPS

-----------------------------------------------------------------------------
(* One step of the board.                                                    *)

\* What a bus cycle does to the memory: only an address of the text reaches it
\* (scroller_avalon.vhd:59-104, bloco_operacional.vhd:93-103).
LEMMA CycleOnMemory ==
  ASSUME NEW avs_address, NEW avs_writedata
  PROVE  /\ NoWrite => UNCHANGED ram
         /\ IOWR(avs_address, avs_writedata) =>
              ram' = IF avs_address < TextLen
                       THEN [ram EXCEPT ![avs_address] = avs_writedata % 256]
                       ELSE ram
  BY DEF NoWrite, IOWR, S!BusCycle, S!Oper!WriteEdge, S!Enable

\* The program's loop stays inside the text, and what is before its index is written;
\* before the loop the index is 0 and after it the whole text is written.
LoopInv ==
  /\ ram \in [0..(TextLen - 1) -> 0..255]
  /\ pc \in Places
  /\ pc \in {"inicio", "velocidade", "controle"} => i = 0
  /\ pc = "texto" => i \in 0..(TextLen - 1)

\* A step that leaves the program alone leaves the memory alone.
LEMMA ProgramRests ==
  ASSUME LoopInv, TextLoaded, UNCHANGED <<program, ram>>
  PROVE  LoopInv' /\ TextLoaded'
  BY DEF LoopInv, TextLoaded, Configured, program

\* The characters and register writes outside the loop leave the memory alone.
LEMMA OutsideLoop ==
  ASSUME LoopInv, TextLoaded, UNCHANGED <<ram, i>>, NEW from \in Places, NEW to \in Places,
         pc = from, pc' \in {from, to},
         from # "texto",
         from \in {"inicio", "velocidade", "controle"} <=> to \in {"velocidade", "controle", "texto"},
         from \in AfterConfig <=> to \in AfterConfig
  PROVE  LoopInv' /\ TextLoaded'
  BY SystemAssumption DEF LoopInv, TextLoaded, Configured, AfterConfig, Places

\* A character of the phrase fits in the cell.
LEMMA ByteUnchanged == \A c \in 0..255 : c % 256 = c
OBVIOUS

\* One turn of the text loop adds one character (hello_world_small.c:31-33).
LEMMA LoopTurn ==
  ASSUME LoopInv, TextLoaded, WriteText
  PROVE  LoopInv' /\ TextLoaded'
<1> USE SystemAssumption
<1>1. i \in 0..(TextLen - 1) /\ i' = i + 1 /\ frase[i] \in 0..255
  BY DEF LoopInv, WriteText
<1>2. ram' = [ram EXCEPT ![i] = frase[i]]
  <2>1. ram' = [ram EXCEPT ![i] = frase[i] % 256]
    BY <1>1, CycleOnMemory DEF WriteText
  <2> QED
    BY <1>1, <2>1, ByteUnchanged
<1>3. ram' \in [0..(TextLen - 1) -> 0..255]
  BY <1>1, <1>2 DEF LoopInv
<1>4. \A k \in 0..i : ram'[k] = frase[k]
  <2> TAKE k \in 0..i
  <2>1. CASE k = i
    BY <1>1, <1>2, <2>1 DEF LoopInv
  <2>2. CASE k # i
    <3>1. k \in 0..(i - 1) /\ ram[k] = frase[k]
      BY <1>1, <2>2 DEF WriteText, TextLoaded
    <3> QED
      BY <1>1, <1>2, <2>2, <3>1 DEF LoopInv
  <2> QED
    BY <2>1, <2>2
<1>5. CASE i + 1 < TextLen
  <2>1. pc' = "texto" /\ i' \in 0..(TextLen - 1)
    BY <1>1, <1>5 DEF WriteText
  <2> QED
    BY <1>1, <1>3, <1>4, <2>1 DEF LoopInv, TextLoaded, Configured, AfterConfig, Places
<1>6. CASE ~(i + 1 < TextLen)
  <2>1. pc' = "fim" /\ i = TextLen - 1
    BY <1>1, <1>6 DEF WriteText
  <2>2. ram' = frase
    BY <1>3, <1>4, <2>1
  <2> QED
    BY <1>3, <2>1, <2>2 DEF LoopInv, TextLoaded, Configured, AfterConfig, Places
<1> QED
  BY <1>5, <1>6

\* One statement of the program.
LEMMA ProgramStep ==
  ASSUME LoopInv, TextLoaded, Program
  PROVE  LoopInv' /\ TextLoaded'
<1>1. ASSUME NEW from \in Places \ {"texto"}, NEW to \in Places, PrintChar(from, to),
             from \in {"inicio", "velocidade", "controle"}
               <=> to \in {"velocidade", "controle", "texto"},
             from \in AfterConfig <=> to \in AfterConfig
      PROVE  LoopInv' /\ TextLoaded'
  <2>1. pc = from /\ pc' \in {from, to} /\ UNCHANGED <<ram, i>>
    BY <1>1, CycleOnMemory DEF PrintChar
  <2> QED
    BY <1>1, <2>1, OutsideLoop
<1>2. ASSUME NEW from \in Places \ {"texto"}, NEW to \in Places,
             NEW reg \in {AddrCtrl, AddrSpeed}, NEW val, WriteReg(from, to, reg, val),
             from \in {"inicio", "velocidade", "controle"}
               <=> to \in {"velocidade", "controle", "texto"},
             from \in AfterConfig <=> to \in AfterConfig
      PROVE  LoopInv' /\ TextLoaded'
  <2>1. ~(reg < TextLen)
    BY <1>2, SystemAssumption DEF AddrCtrl, AddrSpeed
  <2>2. pc = from /\ pc' = to /\ UNCHANGED <<ram, i>>
    BY <1>2, <2>1, CycleOnMemory DEF WriteReg, Goto
  <2> QED
    BY <1>2, <2>2, OutsideLoop
<1>3. ASSUME NEW from \in AfterConfig, NEW to \in AfterConfig, EndSleep(from, to)
      PROVE  LoopInv' /\ TextLoaded'
  <2>1. pc = from /\ pc' = to /\ UNCHANGED <<ram, i>>
    BY <1>3, CycleOnMemory DEF EndSleep, Goto
  <2>2. /\ from \in Places /\ to \in Places /\ from # "texto"
        /\ from \in {"inicio", "velocidade", "controle"}
             <=> to \in {"velocidade", "controle", "texto"}
    BY DEF AfterConfig, Places
  <2> QED
    BY <2>1, <2>2, OutsideLoop
<1>4. CASE PrintChar("inicio", "velocidade") \/ PrintChar("fim", "dorme")
  BY <1>1, <1>4 DEF Places, AfterConfig
<1>5. CASE \/ WriteReg("velocidade", "controle", AddrSpeed, velocidade_inicial)
           \/ WriteReg("controle", "texto", AddrCtrl, 0)
           \/ WriteReg("pausa", "dorme_pausado", AddrCtrl, 1)
           \/ WriteReg("retoma", "dorme", AddrCtrl, 0)
  BY <1>2, <1>5 DEF Places, AfterConfig
<1>6. CASE EndSleep("dorme", "pausa") \/ EndSleep("dorme_pausado", "retoma")
  BY <1>3, <1>6 DEF AfterConfig
<1> QED
  BY <1>4, <1>5, <1>6, LoopTurn DEF Program

\* One step of the board: the user and the host do not touch the memory, a reset
\* restarts the program and leaves the memory as it is.
LEMMA BoardStep ==
  ASSUME LoopInv, TextLoaded, [Next]_vars
  PROVE  LoopInv' /\ TextLoaded'
<1>1. CASE reset = 1 /\ Boot
  <2>1. pc' = "inicio" /\ i' = 0 /\ UNCHANGED ram
    BY <1>1, CycleOnMemory DEF Boot
  <2> QED
    BY <2>1 DEF LoopInv, TextLoaded, Configured, AfterConfig, Places
<1>2. CASE Program
  BY <1>2, ProgramStep
<1>3. CASE Idle
  BY <1>3, ProgramRests, CycleOnMemory DEF Idle
<1>4. CASE User
  BY <1>4, ProgramRests DEF User, S!MoveReset, S!MoveSwitch, S!MoveButton
<1>5. CASE Plug \/ Drain
  BY <1>5, ProgramRests DEF Plug, Drain, scroller
<1>6. CASE UNCHANGED vars
  BY <1>6, ProgramRests DEF vars, program
<1> QED
  BY <1>1, <1>2, <1>3, <1>4, <1>5, <1>6 DEF Next, Clock, Work

-----------------------------------------------------------------------------
(* Theorems.                                                                 *)

\* Power-up: the memory is blank and the program at its beginning.
LEMMA PowerUp == Init => LoopInv /\ TextLoaded
<1> SUFFICES ASSUME Init PROVE LoopInv /\ TextLoaded
  OBVIOUS
<1>1. ram \in [0..(TextLen - 1) -> 0..255]
  BY SystemAssumption DEF Init, S!Init, S!Oper!InitRam, S!Oper!Space
<1>2. pc = "inicio" /\ i = 0
  BY DEF Init
<1> QED
  BY <1>1, <1>2 DEF LoopInv, TextLoaded, Configured, AfterConfig, Places

\* The index of the text loop never leaves the text: the program writes no address
\* that is not of the text, in whatever run it is cut short (hello_world_small.c:31-33).
THEOREM LoopInside == Spec => []LoopInv
<1>1. LoopInv /\ TextLoaded /\ [Next]_vars => (LoopInv /\ TextLoaded)'
  BY BoardStep
<1> QED
  BY <1>1, PowerUp, PTL DEF Spec

\* Once the loop has ended the memory holds the phrase, all of it and for any phrase,
\* although resets may have cut the loop short at any character and the displays may
\* have been off (hello_world_small.c:31-33, bloco_operacional.vhd:93-103).
THEOREM PhraseIsLoaded == Spec => []TextLoaded
<1>1. LoopInv /\ TextLoaded /\ [Next]_vars => (LoopInv /\ TextLoaded)'
  BY BoardStep
<1> QED
  BY <1>1, PowerUp, PTL DEF Spec

\* A cycle of the program is one the scroller's specification admits.
LEMMA ProgramDrives ==
  ASSUME LoopInv, Program
  PROVE  S!Next
<1>1. ASSUME NoWrite PROVE S!Next
  BY <1>1 DEF NoWrite, S!Next, S!Clock
<1>2. ASSUME NEW reg, NEW val, <<reg, val>> \in ProgramWrites, IOWR(reg, val)
      PROVE  S!Next
  <2>1. S!BusCycle(1, <<reg, val>>[1], <<reg, val>>[2])
    BY <1>2 DEF IOWR
  <2> QED
    BY <1>2, <2>1 DEF S!Next, S!Clock
<1>3. CASE WriteText
  <2>1. i \in 0..(TextLen - 1) /\ IOWR(i, frase[i])
    BY <1>3 DEF WriteText, LoopInv
  <2>2. <<i, frase[i]>> \in ProgramWrites
    BY <2>1 DEF ProgramWrites
  <2> QED
    BY <1>2, <2>1, <2>2
<1>4. CASE \/ WriteReg("velocidade", "controle", AddrSpeed, velocidade_inicial)
           \/ WriteReg("controle", "texto", AddrCtrl, 0)
           \/ WriteReg("pausa", "dorme_pausado", AddrCtrl, 1)
           \/ WriteReg("retoma", "dorme", AddrCtrl, 0)
  <2>1. {<<AddrSpeed, velocidade_inicial>>, <<AddrCtrl, 0>>, <<AddrCtrl, 1>>}
          \subseteq ProgramWrites
    BY DEF ProgramWrites
  <2> QED
    BY <1>2, <1>4, <2>1 DEF WriteReg
<1>5. CASE \/ PrintChar("inicio", "velocidade") \/ PrintChar("fim", "dorme")
           \/ EndSleep("dorme", "pausa") \/ EndSleep("dorme_pausado", "retoma")
  BY <1>1, <1>5 DEF PrintChar, EndSleep
<1> QED
  BY <1>3, <1>4, <1>5 DEF Program

\* A step of the board is one of the scroller or leaves it alone.
LEMMA BoardMovesScroller ==
  ASSUME LoopInv, [Next]_vars
  PROVE  [S!Next]_(S!vars)
<1>1. CASE Program
  BY <1>1, ProgramDrives
<1>2. CASE Boot \/ Idle
  BY <1>2 DEF Boot, Idle, NoWrite, S!Next, S!Clock
<1>3. CASE User
  BY <1>3, SystemAssumption DEF User, S!Next, S!Button
<1>4. CASE Plug \/ Drain
  BY <1>4 DEF Plug, Drain, scroller, S!vars
<1>5. CASE UNCHANGED vars
  BY <1>5 DEF vars, S!vars
<1> QED
  BY <1>1, <1>2, <1>3, <1>4, <1>5 DEF Next, Clock, Work

\* The program drives the scroller only through writes the scroller's own
\* specification admits, so that what is proved of the scroller holds on the board
\* (hello_world_small.c:27-54, scroller_avalon.vhd:59-104).
THEOREM ScrollerRefinement == Spec => ImplementsScroller
<1>1. Init => S!Init
  BY DEF Init
<1>2. LoopInv /\ [Next]_vars => [S!Next]_(S!vars)
  BY BoardMovesScroller
<1> QED
  BY <1>1, <1>2, LoopInside, PTL DEF Spec, ImplementsScroller, S!Spec

-----------------------------------------------------------------------------
(* The speed.                                                                *)

\* With the buttons of the speed alone, the speed is in force from the end of its
\* write on: a reset that takes it away sends the program back to its beginning.
SpeedInv ==
  /\ buttons \in [S!Button -> S!Bit]
  /\ buttons[1] = 1 /\ buttons[2] = 1
  /\ pc \notin {"inicio", "velocidade"} => speed_limit = velocidade_inicial

\* An edge of a lit board out of reset, with no speed button pressed: the limit is
\* what the bus writes, or what it was (bloco_controle.vhd:60-88).
LEMMA LimitIsWritten ==
  ASSUME SpeedInv, reset = 0, switch_enable = 1, NEW addr \in Nat, NEW data
  PROVE  /\ NoWrite => UNCHANGED <<buttons, speed_limit>>
         /\ IOWR(addr, data) =>
              /\ UNCHANGED buttons
              /\ speed_limit' = IF addr = AddrSpeed THEN S!ToInteger(data) ELSE speed_limit
  BY SystemAssumption
  DEF SpeedInv, NoWrite, IOWR, S!BusCycle, S!Enable, S!AddrSpeed, AddrSpeed, S!Ctrl!RisingEdge,
    S!Ctrl!ResetEdge, S!Ctrl!StandbyEdge, S!Ctrl!RunEdge, S!Ctrl!NextLimit, S!Ctrl!Pressed,
    S!Ctrl!ports

\* One statement of the program on a lit board.
LEMMA ProgramSpeed ==
  ASSUME SpeedInv, LoopInv, reset = 0, switch_enable = 1, Program,
         velocidade_inicial < WordMod \div 2
  PROVE  SpeedInv'
<1>1. S!ToInteger(velocidade_inicial) = velocidade_inicial
  BY DEF S!ToInteger
<1>2. AddrSpeed \in Nat /\ AddrCtrl \in Nat /\ AddrCtrl # AddrSpeed
  BY SystemAssumption DEF AddrSpeed, AddrCtrl
<1>3. CASE \/ PrintChar("inicio", "velocidade") \/ PrintChar("fim", "dorme")
           \/ EndSleep("dorme", "pausa") \/ EndSleep("dorme_pausado", "retoma")
  <2>1. UNCHANGED <<buttons, speed_limit>>
    BY <1>2, <1>3, LimitIsWritten DEF PrintChar, EndSleep
  <2>2. pc \in {"inicio", "velocidade"} => pc' \in {"inicio", "velocidade"}
    BY <1>3 DEF PrintChar, EndSleep, Goto
  <2> QED
    BY <2>1, <2>2 DEF SpeedInv
<1>4. CASE WriteReg("velocidade", "controle", AddrSpeed, velocidade_inicial)
  BY <1>1, <1>2, <1>4, LimitIsWritten DEF WriteReg, SpeedInv
<1>5. CASE \/ WriteReg("controle", "texto", AddrCtrl, 0)
           \/ WriteReg("pausa", "dorme_pausado", AddrCtrl, 1)
           \/ WriteReg("retoma", "dorme", AddrCtrl, 0)
  BY <1>2, <1>5, LimitIsWritten DEF WriteReg, SpeedInv, Goto
<1>6. CASE WriteText
  <2>1. i \in Nat /\ i # AddrSpeed
    BY <1>6, SystemAssumption DEF WriteText, LoopInv, AddrSpeed
  <2>2. UNCHANGED <<buttons, speed_limit>>
    BY <1>6, <2>1, LimitIsWritten DEF WriteText
  <2> QED
    BY <1>6, <2>2 DEF WriteText, SpeedInv
<1> QED
  BY <1>3, <1>4, <1>5, <1>6 DEF Program

\* One step of a board that is lit, and whose speed buttons nobody touches.
LEMMA BoardSpeed ==
  ASSUME SpeedInv, LoopInv, switch_enable = 1, [Next]_vars,
         UserButtons \subseteq {0}, velocidade_inicial < WordMod \div 2
  PROVE  SpeedInv'
<1>1. CASE reset = 1 /\ Boot
  BY <1>1 DEF Boot, NoWrite, SpeedInv, S!BusCycle, S!Ctrl!RisingEdge, S!Ctrl!ports
<1>2. CASE reset = 0 /\ Program
  BY <1>2, ProgramSpeed
<1>3. CASE Idle
  BY <1>3, LimitIsWritten DEF Idle, SpeedInv, program
<1>4. CASE User
  <2>1. CASE S!MoveReset \/ S!MoveSwitch
    BY <1>4, <2>1
    DEF User, SpeedInv, program, S!MoveReset, S!MoveSwitch, S!Ctrl!MoveReset, S!Ctrl!MoveSwitch,
      S!Ctrl!regs
  <2>2. CASE \E b \in UserButtons : S!MoveButton(b)
    BY <1>4, <2>2
    DEF User, SpeedInv, program, S!MoveButton, S!Ctrl!MoveButton, S!Ctrl!regs, S!Button, S!Bit
  <2> QED
    BY <1>4, <2>1, <2>2 DEF User
<1>5. CASE Plug \/ Drain
  BY <1>5 DEF Plug, Drain, scroller, program, SpeedInv
<1>6. CASE UNCHANGED vars
  BY <1>6 DEF vars, SpeedInv
<1> QED
  BY <1>1, <1>2, <1>3, <1>4, <1>5, <1>6 DEF Next, Clock, Work

\* With the display on all the time and nobody at the speed buttons, the configured
\* speed is in force whenever the configuration is over, after whatever resets
\* (hello_world_small.c:24-28, bloco_controle.vhd:55-68).
THEOREM SpeedInForce ==
  ASSUME UserButtons \subseteq {0}, velocidade_inicial < WordMod \div 2
  PROVE  Spec => SpeedConfigured
<1>1. Init => SpeedInv
  BY DEF Init, SpeedInv, S!Init, S!Ctrl!Init, S!Ctrl!Button, S!Ctrl!Bit, S!Button, S!Bit
<1>2. SpeedInv /\ LoopInv /\ switch_enable = 1 /\ [Next]_vars => SpeedInv'
  BY BoardSpeed
<1>3. SpeedInv => (Configured => speed_limit = velocidade_inicial)
  BY DEF SpeedInv, Configured, AfterConfig
<1> QED
  BY <1>1, <1>2, <1>3, LoopInside, PTL DEF Spec, SpeedConfigured

-----------------------------------------------------------------------------
(* The console that nobody reads.                                            *)

\* Until a host comes the FIFO holds what was printed since the last reset: first the
\* characters before the configuration, then as many of the others as fit.
UnreadInv ==
  /\ left \in Nat /\ fifo \in Nat
  /\ fifo <= Depth
  /\ host = "never" =>
       /\ pc = "inicio" => fifo + left = InicioLen
       /\ pc \in {"velocidade", "controle", "texto"} => fifo = InicioLen
       /\ pc = "fim" => fifo + left = InicioLen + FimLen
       /\ pc \in AfterConfig \ {"fim"} => fifo = InicioLen + FimLen
  /\ pc \in {"inicio", "fim"} => left >= 1

\* One character printed.
LEMMA PrintUnread ==
  ASSUME UnreadInv, NEW from \in {"inicio", "fim"}, NEW to, PrintChar(from, to),
         <<from, to>> \in {<<"inicio", "velocidade">>, <<"fim", "dorme">>}, UNCHANGED host
  PROVE  UnreadInv'
<1> USE SystemAssumption
<1>1. /\ pc = from /\ left >= 1 /\ fifo < Depth
      /\ left' = left - 1 /\ fifo' = fifo + 1
      /\ left' \in Nat /\ fifo' \in Nat /\ fifo' <= Depth
      /\ fifo' + left' = fifo + left
  BY DEF PrintChar, UnreadInv
<1>2. CASE left = 1
  BY <1>1, <1>2 DEF PrintChar, UnreadInv, AfterConfig
<1>3. CASE left # 1
  BY <1>1, <1>3 DEF PrintChar, UnreadInv, AfterConfig
<1> QED
  BY <1>2, <1>3

\* A statement that prints nothing and ends none of the two printings.
LEMMA OtherUnread ==
  ASSUME UnreadInv, UNCHANGED <<left, fifo, host>>, NEW from, NEW to, pc = from, pc' = to,
         \/ from = "velocidade" /\ to = "controle"
         \/ from = "controle" /\ to = "texto"
         \/ from \in AfterConfig \ {"fim"} /\ to \in AfterConfig \ {"fim"}
         \/ from = to
  PROVE  UnreadInv'
  BY DEF UnreadInv, AfterConfig

\* One statement of the program.
LEMMA ProgramUnread ==
  ASSUME UnreadInv, Program, UNCHANGED host
  PROVE  UnreadInv'
<1>1. CASE PrintChar("inicio", "velocidade") \/ PrintChar("fim", "dorme")
  BY <1>1, PrintUnread
<1>2. CASE \/ WriteReg("velocidade", "controle", AddrSpeed, velocidade_inicial)
           \/ WriteReg("controle", "texto", AddrCtrl, 0)
           \/ WriteReg("pausa", "dorme_pausado", AddrCtrl, 1)
           \/ WriteReg("retoma", "dorme", AddrCtrl, 0)
           \/ EndSleep("dorme", "pausa") \/ EndSleep("dorme_pausado", "retoma")
  <2>1. UNCHANGED <<left, fifo, host>>
    BY <1>2 DEF WriteReg, EndSleep
  <2> QED
    BY <1>2, <2>1, OtherUnread DEF WriteReg, EndSleep, Goto, AfterConfig
<1>3. CASE WriteText
  <2>1. CASE i + 1 < TextLen
    BY <1>3, <2>1, OtherUnread DEF WriteText
  <2>2. CASE ~(i + 1 < TextLen)
    BY <1>3, <2>2, SystemAssumption DEF WriteText, UnreadInv, AfterConfig
  <2> QED
    BY <2>1, <2>2
<1> QED
  BY <1>1, <1>2, <1>3 DEF Program

\* One step of the board.
LEMMA BoardUnread ==
  ASSUME UnreadInv, [Next]_vars
  PROVE  UnreadInv'
<1>1. CASE Boot /\ UNCHANGED host
  BY <1>1, SystemAssumption DEF Boot, UnreadInv, AfterConfig
<1>2. CASE Program /\ UNCHANGED host
  BY <1>2, ProgramUnread
<1>3. CASE UNCHANGED <<pc, left, fifo, host>>
  BY <1>3, OtherUnread
<1>4. CASE Plug
  BY <1>4 DEF Plug, program, UnreadInv
<1>5. CASE Drain
  BY <1>5, SystemAssumption DEF Drain, program, UnreadInv
<1> QED
  BY <1>1, <1>2, <1>3, <1>4, <1>5 DEF Next, Clock, Work, Idle, User, program, vars

\* As long as no host has been there, only KEY 1 and a reset change the pause after the
\* configuration: what is printed in all does not fit in the FIFO, so that the program
\* never gets to its pause loop (altera_avalon_jtag_uart_write.c:66-68,
\* hello_world_small.c:35-44).
THEOREM NobodyReadsNobodyPauses ==
  ASSUME Depth < InicioLen + FimLen
  PROVE  Spec => PauseLeftAlone
<1>1. Init => UnreadInv
  BY SystemAssumption DEF Init, UnreadInv, AfterConfig
<1>2. ASSUME UnreadInv, [Next]_vars, host = "never", Configured, is_paused' # is_paused
      PROVE  reset = 1 \/ S!Ctrl!Pressed(0)
  <2>1. pc = "fim"
    BY <1>2, SystemAssumption DEF UnreadInv, Configured
  <2>2. Program => NoWrite
    BY <2>1 DEF Program, PrintChar, WriteReg, WriteText, EndSleep, Goto
  <2>3. NoWrite
    BY <1>2, <2>2
    DEF Next, Clock, Work, Idle, Boot, User, Plug, Drain, vars, scroller, S!MoveReset,
      S!MoveSwitch, S!MoveButton, S!Ctrl!MoveReset, S!Ctrl!MoveSwitch, S!Ctrl!MoveButton,
      S!Ctrl!regs
  <2> QED
    BY <1>2, <2>3
    DEF NoWrite, S!BusCycle, S!Enable, S!Ctrl!RisingEdge, S!Ctrl!ResetEdge, S!Ctrl!StandbyEdge,
      S!Ctrl!RunEdge, S!Ctrl!NextPaused
<1>3. UnreadInv /\ [Next]_vars =>
        [host = "never" /\ Configured /\ is_paused' # is_paused
           => reset = 1 \/ S!Ctrl!Pressed(0)]_vars
  BY <1>2
<1>4. UnreadInv /\ [Next]_vars => UnreadInv'
  BY BoardUnread
<1> QED
  BY <1>1, <1>3, <1>4, PTL DEF Spec, PauseLeftAlone

-----------------------------------------------------------------------------
(* Types.                                                                    *)

\* The scroller with what is proved of it, at the writes of the program.
SP == INSTANCE ScrollerAvalon_proofs WITH BusWrites <- ProgramWrites

\* The words and addresses the program writes are some the bus can carry: a character is
\* narrower than a word (hello_world_small.c:24-54).
LEMMA BusConstants == SP!BusAssumption
<1>1. ASSUME NEW aw \in ProgramWrites PROVE aw[1] \in Nat /\ aw[2] \in 0..(WordMod - 1)
  <2>1. CASE \E val \in {0, 1} : aw = <<AddrCtrl, val>>
    BY <2>1, SystemAssumption, ScrollerAssumption DEF AddrCtrl
  <2>2. CASE aw = <<AddrSpeed, velocidade_inicial>>
    BY <2>2, SystemAssumption DEF AddrSpeed
  <2>3. CASE \E k \in 0..(TextLen - 1) : aw = <<k, frase[k]>>
    <3> PICK k \in 0..(TextLen - 1) : aw = <<k, frase[k]>>
      BY <2>3
    <3>1. /\ frase \in [0..(TextLen - 1) -> 0..255]
          /\ WordMod \in Nat /\ WordMod > 255
      BY SystemAssumption, ScrollerAssumption
    <3>2. 0..255 \subseteq 0..(WordMod - 1)
      BY <3>1
    <3>3. frase[k] \in 0..255
      BY <3>1
    <3> QED
      BY <3>2, <3>3
  <2> QED
    BY <2>1, <2>2, <2>3 DEF ProgramWrites
<1> QED
  BY <1>1, SystemAssumption, ScrollerAssumption DEF SP!BusAssumption

\* The scroller of the board and the one that the proofs are about.
LEMMA SameScroller ==
  /\ S!TypeOK <=> SP!TypeOK
  /\ (S!TypeOK)' <=> (SP!TypeOK)'
  /\ S!Init <=> SP!Init
<1>1. S!Ctrl!TypeOK <=> SP!Ctrl!TypeOK
  BY DEF S!Ctrl!TypeOK, SP!Ctrl!TypeOK, S!Ctrl!Bit, SP!Ctrl!Bit, S!Ctrl!Button, SP!Ctrl!Button
<1>2. S!Ctrl!Init <=> SP!Ctrl!Init
  BY DEF S!Ctrl!Init, SP!Ctrl!Init, S!Ctrl!Bit, SP!Ctrl!Bit, S!Ctrl!Button, SP!Ctrl!Button,
    S!Ctrl!Released, SP!Ctrl!Released
<1>3. S!Oper!InitRam <=> SP!Oper!InitRam
  BY DEF S!Oper!InitRam, SP!Oper!InitRam, S!Oper!Space, SP!Oper!Space
<1>4. (S!Ctrl!TypeOK)' <=> (SP!Ctrl!TypeOK)'
  BY DEF S!Ctrl!TypeOK, SP!Ctrl!TypeOK, S!Ctrl!Bit, SP!Ctrl!Bit, S!Ctrl!Button, SP!Ctrl!Button
<1> QED
  BY <1>1, <1>2, <1>3, <1>4 DEF S!TypeOK, SP!TypeOK, S!Init, SP!Init

\* A step of the one is a step of the other.
LEMMA SameSteps ==
  ASSUME [S!Next]_(S!vars)
  PROVE  [SP!Next]_(SP!vars)
<1>1. ASSUME NEW write, NEW addr, NEW data, S!BusCycle(write, addr, data)
      PROVE  SP!BusCycle(write, addr, data)
  <2>1. ASSUME NEW v, NEW en, NEW p, NEW sp, S!Ctrl!RisingEdge(en, v, sp, p)
        PROVE  SP!Ctrl!RisingEdge(en, v, sp, p)
    BY <2>1
    DEF SP!Ctrl!RisingEdge, S!Ctrl!RisingEdge, SP!Ctrl!ResetEdge, S!Ctrl!ResetEdge,
      SP!Ctrl!StandbyEdge, S!Ctrl!StandbyEdge, SP!Ctrl!RunEdge, S!Ctrl!RunEdge,
      SP!Ctrl!NextLimit, S!Ctrl!NextLimit, SP!Ctrl!NextPaused, S!Ctrl!NextPaused,
      SP!Ctrl!Scroll, S!Ctrl!Scroll, SP!Ctrl!NextIdx, S!Ctrl!NextIdx, SP!Ctrl!Pressed,
      S!Ctrl!Pressed, SP!Ctrl!ports, S!Ctrl!ports
  <2>2. ASSUME NEW en, S!Oper!WriteEdge(en, addr, data)
        PROVE  SP!Oper!WriteEdge(en, addr, data)
    BY <2>2 DEF S!Oper!WriteEdge, SP!Oper!WriteEdge
  <2> QED
    BY <1>1, <2>1, <2>2
    DEF S!BusCycle, SP!BusCycle, S!Enable, SP!Enable, S!ToInteger, SP!ToInteger, S!AddrSpeed,
      SP!AddrSpeed, S!AddrCtrl, SP!AddrCtrl
<1>2. CASE S!Clock
  BY <1>1, <1>2 DEF S!Clock, SP!Clock, SP!Next
<1>3. CASE S!MoveReset \/ S!MoveSwitch \/ \E b \in S!Button : S!MoveButton(b)
  BY <1>3
  DEF S!MoveReset, SP!MoveReset, S!MoveSwitch, SP!MoveSwitch, S!MoveButton, SP!MoveButton,
    S!Ctrl!MoveReset, SP!Ctrl!MoveReset, S!Ctrl!MoveSwitch, SP!Ctrl!MoveSwitch,
    S!Ctrl!MoveButton, SP!Ctrl!MoveButton, S!Ctrl!regs, SP!Ctrl!regs, S!Button, SP!Button,
    S!Ctrl!Bit, SP!Ctrl!Bit, SP!Next
<1>4. CASE UNCHANGED S!vars
  BY <1>4 DEF S!vars, SP!vars
<1> QED
  BY <1>2, <1>3, <1>4 DEF S!Next

\* The program's place and counters: the index is inside the text and, when the loop
\* is over, at its end; what is left to print is no more than the two groups of printfs.
PlaceInv == i \in 0..TextLen /\ left <= InicioLen + FimLen /\ host \in {"never", "off", "on"}

\* One statement of the program.
LEMMA ProgramPlace ==
  ASSUME LoopInv, UnreadInv, PlaceInv, Program, UNCHANGED host
  PROVE  PlaceInv'
<1> USE SystemAssumption
<1>1. CASE PrintChar("inicio", "velocidade") \/ PrintChar("fim", "dorme")
  BY <1>1 DEF PrintChar, PlaceInv, UnreadInv
<1>2. CASE \/ WriteReg("velocidade", "controle", AddrSpeed, velocidade_inicial)
           \/ WriteReg("controle", "texto", AddrCtrl, 0)
           \/ WriteReg("pausa", "dorme_pausado", AddrCtrl, 1)
           \/ WriteReg("retoma", "dorme", AddrCtrl, 0)
           \/ EndSleep("dorme", "pausa") \/ EndSleep("dorme_pausado", "retoma")
  BY <1>2 DEF WriteReg, EndSleep, PlaceInv
<1>3. CASE WriteText
  <2>1. i \in 0..(TextLen - 1) /\ i' = i + 1 /\ left' \in {left, FimLen}
    BY <1>3 DEF WriteText, LoopInv
  <2> QED
    BY <2>1 DEF PlaceInv, UnreadInv
<1> QED
  BY <1>1, <1>2, <1>3 DEF Program

\* One step of the board.
LEMMA BoardPlace ==
  ASSUME LoopInv, UnreadInv, PlaceInv, [Next]_vars
  PROVE  PlaceInv'
<1>1. CASE Boot /\ UNCHANGED host
  BY <1>1, SystemAssumption DEF Boot, PlaceInv
<1>2. CASE Program /\ UNCHANGED host
  BY <1>2, ProgramPlace
<1>3. CASE UNCHANGED <<i, left, host>>
  BY <1>3 DEF PlaceInv
<1>4. CASE Plug
  BY <1>4 DEF Plug, program, PlaceInv
<1> QED
  BY <1>1, <1>2, <1>3, <1>4 DEF Next, Clock, Work, Idle, User, Drain, program, vars

\* Every part of the board keeps its type: the scroller's registers and memory under
\* whatever the program writes and the user presses, the index of the text loop, what is
\* left to print, and the FIFO, which is never given more than it holds
\* (hello_world_small.c:19-59, altera_avalon_jtag_uart_write.c:66-68).
THEOREM BoardTypes == Spec => []TypeOK
<1> DEFINE BoardInv == S!TypeOK /\ LoopInv /\ TextLoaded /\ UnreadInv /\ PlaceInv
<1>1. Init => BoardInv
  <2> SUFFICES ASSUME Init PROVE BoardInv
    OBVIOUS
  <2>1. S!TypeOK
    BY BusConstants, SameScroller, SP!SlaveStarts DEF Init
  <2>2. UnreadInv /\ PlaceInv
    BY SystemAssumption DEF Init, UnreadInv, PlaceInv, AfterConfig
  <2> QED
    BY <2>1, <2>2, PowerUp
<1>2. BoardInv /\ [Next]_vars => BoardInv'
  <2> SUFFICES ASSUME BoardInv, [Next]_vars PROVE BoardInv'
    OBVIOUS
  <2>1. [S!Next]_(S!vars)
    BY BoardMovesScroller
  <2>2. (S!TypeOK)'
    BY <2>1, BusConstants, SameScroller, SameSteps, SP!SlaveStep
  <2> QED
    BY <2>2, BoardStep, BoardUnread, BoardPlace
<1>3. BoardInv => TypeOK
  BY DEF TypeOK, LoopInv, UnreadInv, PlaceInv
<1> QED
  BY <1>1, <1>2, <1>3, PTL DEF Spec

=============================================================================
