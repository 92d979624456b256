------------------------ MODULE ScrollerAvalon_proofs ------------------------
(* The bus slave implements the control block: what is proved of the block   *)
(* for every bus holds behind the decoder.                                   *)
EXTENDS ScrollerAvalon, FiniteSetTheorems, TLAPS

\* The control block with what is proved of it, at this bus.
CP == INSTANCE BlocoControle_proofs

\* A register the cycle does not enable does not care for the data on the bus
\* (bloco_controle.vhd:62-68).
LEMMA DisabledDataIgnored ==
  ASSUME NEW v, NEW w, NEW p, NEW q
  PROVE  /\ Ctrl!RisingEdge(0, v, 0, p) => Ctrl!RisingEdge(0, w, 0, q)
         /\ Ctrl!RisingEdge(1, v, 0, p) => Ctrl!RisingEdge(1, v, 0, q)
         /\ Ctrl!RisingEdge(0, v, 1, p) => Ctrl!RisingEdge(0, w, 1, p)
BY DEF Ctrl!RisingEdge, Ctrl!RunEdge, Ctrl!NextLimit, Ctrl!NextPaused

\* Whatever a bus cycle carries, the control block sees a write of its speed, a
\* write of its pause, or an idle cycle, by the address (scroller_avalon.vhd:59-82).
LEMMA CycleDecoded ==
  ASSUME NEW aw \in BusWrites, BusCycle(1, aw[1], aw[2])
  PROVE  /\ aw[1] = AddrCtrl  => Ctrl!WriteCtrl(aw[2] % 2)
         /\ aw[1] = AddrSpeed => Ctrl!WriteSpeed(ToInteger(aw[2]))
         /\ aw[1] \notin {AddrCtrl, AddrSpeed} => Ctrl!IdleCycle
<1> DEFINE v == ToInteger(aw[2])
           p == aw[2] % 2
<1>1. CASE aw[1] = AddrSpeed
  <2>1. Ctrl!RisingEdge(1, v, 0, p) /\ aw[1] # AddrCtrl
    BY <1>1, BusAssumption DEF BusCycle, Enable, AddrSpeed, AddrCtrl
  <2> QED
    BY <1>1, <2>1, DisabledDataIgnored DEF Ctrl!WriteSpeed
<1>2. CASE aw[1] = AddrCtrl
  <2>1. Ctrl!RisingEdge(0, v, 1, p) /\ aw[1] # AddrSpeed
    BY <1>2, BusAssumption DEF BusCycle, Enable, AddrSpeed, AddrCtrl
  <2> QED
    BY <1>2, <2>1, DisabledDataIgnored DEF Ctrl!WriteCtrl
<1>3. CASE aw[1] # AddrSpeed /\ aw[1] # AddrCtrl
  <2>1. Ctrl!RisingEdge(0, v, 0, p)
    BY <1>3 DEF BusCycle, Enable
  <2> QED
    BY <1>3, <2>1, DisabledDataIgnored DEF Ctrl!IdleCycle
<1> QED
  BY <1>1, <1>2, <1>3

\* A bus cycle is a clock of the control block: the words the master may write
\* are those the block admits (scroller_avalon.vhd:59-82).
LEMMA CycleIsControlCycle ==
  ASSUME NEW aw \in BusWrites, BusCycle(1, aw[1], aw[2])
  PROVE  Ctrl!Clock
<1>1. aw[2] % 2 \in Ctrl!Bit
  BY BusAssumption DEF Ctrl!Bit
<1>2. aw[1] = AddrSpeed => ToInteger(aw[2]) \in SpeedWrites
  BY DEF SpeedWrites
<1> QED
  BY <1>1, <1>2, CycleDecoded DEF Ctrl!Clock

\* A write reaches one position of the memory at most (bloco_operacional.vhd:93-103).
LEMMA CycleWritesOneCell ==
  ASSUME NEW aw \in BusWrites, BusCycle(1, aw[1], aw[2])
  PROVE  \A k \in DOMAIN ram \ {aw[1]} : ram'[k] = ram[k]
BY DEF BusCycle, Oper!WriteEdge

\* A step of the slave is a step of the control block: text writes and writes nobody
\* decodes pass it by, and the two registers are never enabled at once
\* (scroller_avalon.vhd:59-87).
LEMMA SlaveMovesControl ==
  ASSUME [Next]_vars
  PROVE  [Ctrl!Next]_(Ctrl!vars)
<1>1. CASE BusCycle(0, 0, 0)
  <2>1. Ctrl!RisingEdge(0, ToInteger(0), 0, 0 % 2)
    BY <1>1 DEF BusCycle, Enable
  <2>2. Ctrl!IdleCycle
    BY <2>1, DisabledDataIgnored DEF Ctrl!IdleCycle
  <2> QED
    BY <2>2 DEF Ctrl!Next, Ctrl!Clock
<1>2. CASE \E aw \in BusWrites : BusCycle(1, aw[1], aw[2])
  BY <1>2, CycleIsControlCycle DEF Ctrl!Next
<1>3. CASE MoveReset \/ MoveSwitch \/ \E b \in Button : MoveButton(b)
  BY <1>3 DEF MoveReset, MoveSwitch, MoveButton, Button, Ctrl!Next, Ctrl!Button
<1>4. CASE UNCHANGED vars
  BY <1>4 DEF vars, Ctrl!vars
<1> QED
  BY <1>1, <1>2, <1>3, <1>4 DEF Next, Clock

\* The slave implements the control block and gives each write to what it
\* addresses, whatever the bus carries (scroller_avalon.vhd:59-87).
THEOREM ControlRefinement == Spec => ImplementsControl
<1>1. Init => Ctrl!Init
  BY DEF Init
<1>2. [Next]_vars => [Ctrl!Next]_(Ctrl!vars)
  BY SlaveMovesControl
<1>3. [Next]_vars
        => [\A aw \in BusWrites :
              BusCycle(1, aw[1], aw[2]) =>
                /\ aw[1] = AddrCtrl  => Ctrl!WriteCtrl(aw[2] % 2)
                /\ aw[1] = AddrSpeed => Ctrl!WriteSpeed(ToInteger(aw[2]))
                /\ aw[1] \notin {AddrCtrl, AddrSpeed} => Ctrl!IdleCycle
                /\ \A k \in DOMAIN ram \ {aw[1]} : ram'[k] = ram[k]]_vars
  BY CycleDecoded, CycleWritesOneCell
<1> QED
  BY <1>1, <1>2, <1>3, PTL DEF Spec, ImplementsControl, EachToItsOwn

-----------------------------------------------------------------------------
(* Types.                                                                  *)

\* The constants of the slave are some the control block admits: what a signed
\* integer reads of a word is an integer.
LEMMA ControlConstants == CP!ControlAssumption
<1>1. SpeedWrites \subseteq Int
  BY BusAssumption DEF SpeedWrites, ToInteger
<1> QED
  BY <1>1, BusAssumption DEF CP!ControlAssumption

\* What is proved of one step of the control block, of the one in the slave.
LEMMA ControlStepType ==
  ASSUME Ctrl!TypeOK, [Ctrl!Next]_(Ctrl!vars)
  PROVE  Ctrl!TypeOK'
<1>1. CP!TypeOK <=> Ctrl!TypeOK
  BY DEF CP!TypeOK, Ctrl!TypeOK, CP!Bit, Ctrl!Bit, CP!Button, Ctrl!Button
<1>2. (CP!TypeOK)' <=> (Ctrl!TypeOK)'
  BY DEF CP!TypeOK, Ctrl!TypeOK, CP!Bit, Ctrl!Bit, CP!Button, Ctrl!Button
<1>3. [CP!Next]_(CP!vars)
  BY DEF CP!vars, Ctrl!vars, CP!Next, Ctrl!Next, CP!Clock, Ctrl!Clock,
    CP!IdleCycle, Ctrl!IdleCycle, CP!WriteSpeed, Ctrl!WriteSpeed, CP!WriteCtrl, Ctrl!WriteCtrl,
    CP!RisingEdge, Ctrl!RisingEdge, CP!ResetEdge, Ctrl!ResetEdge, CP!StandbyEdge,
    Ctrl!StandbyEdge, CP!RunEdge, Ctrl!RunEdge, CP!NextLimit, Ctrl!NextLimit,
    CP!NextPaused, Ctrl!NextPaused, CP!Scroll, Ctrl!Scroll, CP!NextIdx, Ctrl!NextIdx,
    CP!Pressed, Ctrl!Pressed, CP!MoveReset, Ctrl!MoveReset, CP!MoveSwitch, Ctrl!MoveSwitch,
    CP!MoveButton, Ctrl!MoveButton, CP!Bit, Ctrl!Bit, CP!Button, Ctrl!Button,
    CP!ports, Ctrl!ports, CP!regs, Ctrl!regs
<1> QED
  BY <1>1, <1>2, <1>3, ControlConstants, CP!StepType

\* The memory keeps its type at every edge, whatever the decoder lets through
\* (bloco_operacional.vhd:93-103).
LEMMA WriteEdgeType ==
  ASSUME ram \in [0..(TextLen - 1) -> 0..255], NEW wr_en, NEW wr_addr, NEW wr_data \in Int,
         Oper!WriteEdge(wr_en, wr_addr, wr_data)
  PROVE  ram' \in [0..(TextLen - 1) -> 0..255]
<1>1. wr_data % 256 \in 0..255
  OBVIOUS
<1> QED
  BY <1>1 DEF Oper!WriteEdge

\* At power-up the registers are reset and the memory blank (scroller_avalon.vhd:21-53).
LEMMA SlaveStarts == Init => TypeOK
  BY BusAssumption, ControlConstants
  DEF Init, TypeOK, Ctrl!Init, Ctrl!TypeOK, Ctrl!Bit, Ctrl!Released, Oper!InitRam, Oper!Space

\* One step of both blocks (scroller_avalon.vhd:59-104).
LEMMA SlaveStep ==
  ASSUME TypeOK, [Next]_vars
  PROVE  TypeOK'
<1>1. Ctrl!TypeOK'
  BY SlaveMovesControl, ControlStepType DEF TypeOK
<1>2. ram' \in [0..(TextLen - 1) -> 0..255]
  <2>1. CASE BusCycle(0, 0, 0)
    BY <2>1, WriteEdgeType DEF BusCycle, TypeOK
  <2>2. CASE \E aw \in BusWrites : BusCycle(1, aw[1], aw[2])
    <3> PICK aw \in BusWrites : BusCycle(1, aw[1], aw[2])
      BY <2>2
    <3>1. aw[2] \in Int
      BY BusAssumption
    <3> QED
      BY <3>1, WriteEdgeType DEF BusCycle, TypeOK
  <2>3. CASE MoveReset \/ MoveSwitch \/ \E b \in Button : MoveButton(b)
    BY <2>3 DEF MoveReset, MoveSwitch, MoveButton, TypeOK
  <2>4. CASE UNCHANGED vars
    BY <2>4 DEF vars, TypeOK
  <2> QED
    BY <2>1, <2>2, <2>3, <2>4 DEF Next, Clock
<1> QED
  BY <1>1, <1>2 DEF TypeOK

\* Both blocks keep their registers and the memory in their types
\* (scroller_avalon.vhd:59-104).
THEOREM SlaveTypes == Spec => []TypeOK
<1>1. TypeOK /\ [Next]_vars => TypeOK'
  BY SlaveStep
<1> QED
  BY <1>1, SlaveStarts, PTL DEF Spec

-----------------------------------------------------------------------------
(* The picture.                                                            *)

Cell(idx, p) == (idx + p) % TextLen

\* The memory is a ring: going round it, no cell comes twice in a window, and a
\* window that begins one cell later shows the same cells one display further on.
LEMMA RingOfCells ==
  ASSUME NEW idx \in 0..(TextLen - 1), NEW p \in 0..(Window - 1), NEW q \in 0..(Window - 1)
  PROVE  /\ Cell(idx, p) \in 0..(TextLen - 1)
         /\ Cell(idx, p) = Cell(idx, q) => p = q
         /\ Cell(Cell(idx, 1), p) = Cell(idx, p + 1)
<1> USE BusAssumption
<1>1. ASSUME NEW n \in 0..(2 * TextLen - 1)
      PROVE  n % TextLen = IF n < TextLen THEN n ELSE n - TextLen
  <2>1. CASE n < TextLen
    BY <2>1
  <2>2. CASE n >= TextLen
    <3>1. n - TextLen \in 0..(TextLen - 1) /\ n = TextLen * 1 + (n - TextLen)
      BY <2>2
    <3> QED
      BY <2>2, <3>1
  <2> QED
    BY <2>1, <2>2
<1>2. /\ Cell(idx, p) = IF idx + p < TextLen THEN idx + p ELSE idx + p - TextLen
      /\ Cell(idx, q) = IF idx + q < TextLen THEN idx + q ELSE idx + q - TextLen
  BY <1>1 DEF Cell
<1>3. Cell(Cell(idx, 1), p) = Cell(idx, p + 1)
  <2>1. Cell(idx, 1) = IF idx + 1 < TextLen THEN idx + 1 ELSE 0
    BY <1>1 DEF Cell
  <2>2. CASE idx + 1 < TextLen
    BY <2>1, <2>2 DEF Cell
  <2>3. CASE idx + 1 = TextLen
    <3>1. Cell(idx, p + 1) = p
      BY <1>1, <2>3 DEF Cell
    <3>2. Cell(0, p) = p
      BY <1>1 DEF Cell
    <3> QED
      BY <2>1, <2>3, <3>1, <3>2
  <2> QED
    BY <2>2, <2>3
<1> QED
  BY <1>2, <1>3

\* If the index stays or goes on by one, each display that does not show what it or
\* its right neighbour showed has a rewritten cell of its own
\* (bloco_operacional.vhd:105-115).
LEMMA ChangesAreRewritten ==
  ASSUME TypeOK, TypeOK', Lit, Lit', NEW shift \in {0, 1},
         scroll_idx' = IF shift = 0 THEN scroll_idx ELSE Cell(scroll_idx, 1)
  PROVE  Cardinality({p \in 0..(Window - 1 - shift) : hex_out'[p] # hex_out[p + shift]})
           <= Cardinality(Rewritten)
<1> USE BusAssumption
<1> DEFINE D    == {p \in 0..(Window - 1 - shift) : hex_out'[p] # hex_out[p + shift]}
           f    == [p \in D |-> Cell(scroll_idx', p)]
<1>1. /\ scroll_idx \in 0..(TextLen - 1) /\ scroll_idx' \in 0..(TextLen - 1)
      /\ switch_enable = 1 /\ switch_enable' = 1
      /\ DOMAIN ram = 0..(TextLen - 1)
  BY DEF TypeOK, Ctrl!TypeOK, Lit
<1>2. ASSUME NEW p \in D
      PROVE  Cell(scroll_idx', p) \in Rewritten
  <2>1. p \in 0..(Window - 1) /\ p + shift \in 0..(Window - 1)
    OBVIOUS
  <2>2. Cell(scroll_idx', p) = Cell(scroll_idx, p + shift)
    <3>1. CASE shift = 0
      BY <3>1
    <3>2. CASE shift = 1
      <4>1. scroll_idx' = Cell(scroll_idx, 1)
        BY <3>2
      <4> QED
        BY <1>1, <2>1, <3>2, <4>1, RingOfCells
    <3> QED
      BY <3>1, <3>2
  <2>3. hex_out'[p] = Oper!char_to_seg(ram'[Cell(scroll_idx', p)])
    BY <1>1, <2>1 DEF hex_out, Oper!hex_output, Cell
  <2>4. hex_out[p + shift] = Oper!char_to_seg(ram[Cell(scroll_idx, p + shift)])
    BY <1>1, <2>1 DEF hex_out, Oper!hex_output, Cell
  <2>5. Cell(scroll_idx', p) \in DOMAIN ram
    BY <1>1, <2>1, RingOfCells
  <2> QED
    BY <2>2, <2>3, <2>4, <2>5 DEF Rewritten
<1>3. f \in Injection(D, Rewritten)
  <2>1. f \in [D -> Rewritten]
    BY <1>2
  <2>2. ASSUME NEW p \in D, NEW q \in D, Cell(scroll_idx', p) = Cell(scroll_idx', q)
        PROVE  p = q
    <3>1. p \in 0..(Window - 1) /\ q \in 0..(Window - 1)
      OBVIOUS
    <3> QED
      BY <1>1, <2>2, <3>1, RingOfCells
  <2> QED
    BY <2>1, <2>2 DEF Injection, IsInjective
<1>4. IsFiniteSet(Rewritten)
  <2>1. Rewritten \in SUBSET (0..(TextLen - 1))
    BY <1>1 DEF Rewritten
  <2>2. IsFiniteSet(0..(TextLen - 1))
    BY FS_Interval
  <2> QED
    BY <2>1, <2>2, FS_Subset
<1> HIDE DEF D, f
<1>5. Cardinality(D) <= Cardinality(Rewritten)
  BY <1>3, <1>4, FS_Injection
<1> QED
  BY <1>5 DEF D

\* The index of a lit scroller stays or goes on by one cell of the ring, however the
\* bus and the user move at that edge (bloco_controle.vhd:94-106).
LEMMA LitIndexStep ==
  ASSUME TypeOK, [Ctrl!Next]_(Ctrl!vars), Lit
  PROVE  scroll_idx' = scroll_idx \/ scroll_idx' = Cell(scroll_idx, 1)
<1>1. CASE Ctrl!Scroll
  <2>1. Ctrl!NextIdx = Cell(scroll_idx, 1)
    <3>1. scroll_idx \in 0..(TextLen - 1) /\ TextLen \in Nat \ {0}
      BY BusAssumption DEF TypeOK, Ctrl!TypeOK
    <3>2. CASE scroll_idx < TextLen - 1
      BY <3>1, <3>2 DEF Ctrl!NextIdx, Cell
    <3>3. CASE scroll_idx = TextLen - 1
      BY <3>1, <3>3 DEF Ctrl!NextIdx, Cell
    <3> QED
      BY <3>1, <3>2, <3>3
  <2> QED
    BY <1>1, <2>1 DEF Ctrl!Scroll
<1>2. CASE UNCHANGED scroll_idx
  BY <1>2
<1>3. Ctrl!Next => Ctrl!Scroll \/ UNCHANGED scroll_idx
  BY DEF Lit, Ctrl!Next, Ctrl!Clock, Ctrl!IdleCycle, Ctrl!WriteSpeed, Ctrl!WriteCtrl,
    Ctrl!RisingEdge, Ctrl!ResetEdge, Ctrl!StandbyEdge, Ctrl!RunEdge,
    Ctrl!MoveReset, Ctrl!MoveSwitch, Ctrl!MoveButton, Ctrl!regs
<1> QED
  BY <1>1, <1>2, <1>3 DEF Ctrl!vars

\* Whatever is written, pressed or scrolled at one edge, the lit picture stays or
\* moves left by one display, and changes otherwise only where the text is rewritten
\* (bloco_operacional.vhd:93-115 with bloco_controle.vhd:94-106).
THEOREM PictureTurns == Spec => TurnsSmoothly
<1>1. ASSUME TypeOK, TypeOK', [Ctrl!Next]_(Ctrl!vars), Lit, Lit'
      PROVE  \E shift \in {0, 1} :
               Cardinality({p \in 0..(Window - 1 - shift) : hex_out'[p] # hex_out[p + shift]})
                 <= Cardinality(Rewritten)
  <2>1. CASE scroll_idx' = scroll_idx
    <3> WITNESS 0 \in {0, 1}
    <3> QED
      BY <1>1, <2>1, ChangesAreRewritten
  <2>2. CASE scroll_idx' = Cell(scroll_idx, 1)
    <3> WITNESS 1 \in {0, 1}
    <3> QED
      BY <1>1, <2>2, ChangesAreRewritten
  <2> QED
    BY <1>1, <2>1, <2>2, LitIndexStep
<1>2. TypeOK /\ TypeOK' /\ [Ctrl!Next]_(Ctrl!vars)
        => [Lit /\ Lit' =>
             \E shift \in {0, 1} :
               Cardinality({p \in 0..(Window - 1 - shift) : hex_out'[p] # hex_out[p + shift]})
                 <= Cardinality(Rewritten)]_vars
  BY <1>1
<1> QED
  BY <1>2, SlaveTypes, ControlRefinement, PTL DEF ImplementsControl, TurnsSmoothly

=============================================================================
