---------------------------- MODULE Controle_proofs -------------------------
(* The speed stays in its window and the counter in its range; on the        *)
(* notches the locks hold exactly, the control block implements the marquee, *)
(* and a press counts once; the panel is readable.                           *)
EXTENDS Controle, BlocoControle_proofs

-----------------------------------------------------------------------------
(* The speed and its locks.                                                *)

\* A press moves the limit by one Step only from the inside of its lock, so
\* that it stays in the window; a write lands in it (bloco_controle.vhd:62-88).
LEMMA NextLimitInWindow ==
  ASSUME LimitInWindow, NEW wr_speed_en \in Bit, NEW new_speed_val,
         wr_speed_en = 1 => new_speed_val \in SpeedWindow
  PROVE  NextLimit(wr_speed_en, new_speed_val) \in SpeedWindow
BY ControlAssumption DEF LimitInWindow, SpeedWindow, NextLimit

\* While the limit is in the window the divider stops the counter at or below
\* its declared top, so that its increment never wraps
\* (bloco_controle.vhd:94-106).
LEMMA ScrollInRange ==
  ASSUME TypeOK, LimitInWindow, CounterInRange, Scroll
  PROVE  CounterInRange'
<1>1. CASE is_paused = 1 /\ UNCHANGED <<speed_counter, scroll_idx>>
  BY <1>1 DEF CounterInRange
<1>2. CASE /\ is_paused = 0 /\ speed_counter < speed_limit
           /\ speed_counter' = (speed_counter + 1) % CounterMod
           /\ UNCHANGED scroll_idx
  <2>1. speed_counter + 1 \in 0..CounterTop
    BY <1>2, ControlAssumption, WindowAssumption
    DEF TypeOK, LimitInWindow, SpeedWindow, CounterInRange
  <2>2. (speed_counter + 1) % CounterMod = speed_counter + 1
    BY <2>1, ControlAssumption
  <2> QED
    BY <1>2, <2>1, <2>2 DEF CounterInRange
<1>3. CASE /\ is_paused = 0 /\ speed_counter >= speed_limit
           /\ speed_counter' = 0
           /\ scroll_idx' = NextIdx
  BY <1>3, ControlAssumption DEF CounterInRange
<1> QED
  BY <1>1, <1>2, <1>3 DEF Scroll

\* The inductive invariant: the counter alone is not inductive, because the
\* next increment is bounded by the limit and not by the counter's range.
FaixaInv == LimitInWindow /\ CounterInRange

\* One edge keeps FaixaInv, whatever the levels and the bus are.
LEMMA ClockFaixa ==
  ASSUME TypeOK, FaixaInv, Clock
  PROVE  FaixaInv'
<1>1. CASE ResetEdge
  BY <1>1, ControlAssumption, WindowAssumption
  DEF ResetEdge, FaixaInv, LimitInWindow, CounterInRange
<1>2. CASE StandbyEdge
  BY <1>2, ControlAssumption DEF StandbyEdge, FaixaInv, LimitInWindow, CounterInRange
<1>3. ASSUME NEW wr_speed_en \in Bit, NEW new_speed_val,
             wr_speed_en = 1 => new_speed_val \in SpeedWindow,
             NEW wr_ctrl_en, NEW new_paused,
             RunEdge(wr_speed_en, new_speed_val, wr_ctrl_en, new_paused)
      PROVE  FaixaInv'
  <2>1. LimitInWindow'
    BY <1>3, NextLimitInWindow DEF RunEdge, FaixaInv, LimitInWindow
  <2>2. CounterInRange'
    BY <1>3, ScrollInRange DEF RunEdge, FaixaInv
  <2> QED
    BY <2>1, <2>2 DEF FaixaInv
<1>4. CASE RunEdge(0, 0, 0, 0)
  BY <1>3, <1>4 DEF Bit
<1>5. CASE \E v \in SpeedWrites : RunEdge(1, v, 0, 0)
  BY <1>3, <1>5, WindowAssumption DEF Bit
<1>6. CASE \E p \in Bit : RunEdge(0, 0, 1, p)
  BY <1>3, <1>6 DEF Bit
<1> QED
  BY <1>1, <1>2, <1>4, <1>5, <1>6, ClockCases

\* Every reachable state satisfies FaixaInv.
THEOREM FaixaInvariance == Spec => []FaixaInv
<1>1. Init => FaixaInv
  BY ControlAssumption, WindowAssumption DEF Init, FaixaInv, LimitInWindow, CounterInRange
<1>2. TypeOK /\ FaixaInv /\ [Next]_vars => FaixaInv'
  <2> SUFFICES ASSUME TypeOK, FaixaInv, [Next]_vars
               PROVE  FaixaInv'
    OBVIOUS
  <2>1. CASE Clock
    BY <2>1, ClockFaixa
  <2>2. ASSUME UNCHANGED regs
        PROVE  FaixaInv'
    BY <2>2 DEF regs, FaixaInv, LimitInWindow, CounterInRange
  <2>3. CASE MoveReset \/ MoveSwitch \/ \E b \in Button : MoveButton(b)
    BY <2>2, <2>3 DEF MoveReset, MoveSwitch, MoveButton, regs
  <2>4. CASE UNCHANGED vars
    BY <2>2, <2>4 DEF vars, regs
  <2> QED
    BY <2>1, <2>3, <2>4 DEF Next
<1> QED
  BY <1>1, <1>2, TypeCorrect, PTL DEF Spec

\* The buttons never carry the limit a whole Step past a lock
\* (bloco_controle.vhd:77-88).
THEOREM LimitStaysInWindow == Spec => []LimitInWindow
  BY FaixaInvariance, PTL DEF FaixaInv

\* The counter never leaves the range it is declared with
\* (bloco_controle.vhd:31).
THEOREM CounterStaysInRange == Spec => []CounterInRange
  BY FaixaInvariance, PTL DEF FaixaInv

-----------------------------------------------------------------------------
(* On the notches.                                                           *)

\* The constants of Travas are integers in the order the proofs use.
LEMMA ConstantOrder ==
  /\ MinLimit \in Nat /\ MaxLimit \in Int /\ MinLimit <= MaxLimit
  /\ Step \in Int /\ Step >= 1
  /\ MaxLimit \in SpeedWindow /\ MaxLimit <= CounterTop
BY ControlAssumption, WindowAssumption, NotchAssumption DEF SpeedWindow

\* Below the upper lock there is room for a whole Step, because the upper lock
\* is a notch itself.
LEMMA NotchAbove ==
  ASSUME NEW n \in Notches, n < MaxLimit
  PROVE  n + Step \in Notches
<1> USE ConstantOrder
<1>1. PICK k \in 0..(MaxLimit - MinLimit) : n = MinLimit + k * Step
  BY DEF Notches
<1>2. PICK top \in 0..(MaxLimit - MinLimit) : MaxLimit = MinLimit + top * Step
  BY NotchAssumption DEF Notches
<1>3. k < top
  <2> SUFFICES ASSUME k >= top PROVE FALSE
    OBVIOUS
  <2>1. k * Step >= top * Step
    OBVIOUS
  <2> QED
    BY <1>1, <1>2, <2>1
<1>4. (k + 1) * Step = k * Step + Step
  OBVIOUS
<1>5. (k + 1) * Step <= top * Step
  BY <1>3
<1>6. k + 1 \in 0..(MaxLimit - MinLimit)
  BY <1>3
<1>7. n + Step = MinLimit + (k + 1) * Step /\ n + Step \in MinLimit..MaxLimit
  BY <1>1, <1>2, <1>4, <1>5 DEF Notches
<1> QED
  BY <1>6, <1>7 DEF Notches

\* Above the lower lock there is a whole Step to take away.
LEMMA NotchBelow ==
  ASSUME NEW n \in Notches, n > MinLimit
  PROVE  n - Step \in Notches
<1> USE ConstantOrder
<1>1. PICK k \in 0..(MaxLimit - MinLimit) : n = MinLimit + k * Step
  BY DEF Notches
<1>2. k >= 1
  <2> SUFFICES ASSUME k = 0 PROVE FALSE
    OBVIOUS
  <2> QED
    BY <1>1
<1>3. (k - 1) * Step = k * Step - Step
  OBVIOUS
<1>4. (k - 1) * Step >= 0
  BY <1>2
<1>5. n - Step = MinLimit + (k - 1) * Step /\ n - Step \in MinLimit..MaxLimit
  BY <1>1, <1>3, <1>4 DEF Notches
<1> QED
  BY <1>2, <1>5 DEF Notches

\* The three assignments to speed_limit keep it on a notch
\* (bloco_controle.vhd:62-88).
LEMMA NextLimitOnNotch ==
  ASSUME LimitOnNotch, NEW wr_speed_en, NEW new_speed_val,
         wr_speed_en = 1 => new_speed_val \in Notches
  PROVE  NextLimit(wr_speed_en, new_speed_val) \in Notches
BY NotchAbove, NotchBelow DEF LimitOnNotch, NextLimit

\* A counter that has not passed the upper lock does not pass it: it is only
\* incremented below a limit that is itself on a notch
\* (bloco_controle.vhd:94-106).
LEMMA ScrollDwell ==
  ASSUME TypeOK, DwellBounded, Scroll
  PROVE  /\ speed_counter' \in 0..MaxLimit
         /\ speed_counter < speed_limit /\ is_paused = 0
              => speed_counter' = speed_counter + 1
<1> USE ConstantOrder
<1>1. speed_limit \in MinLimit..MaxLimit /\ speed_counter \in 0..MaxLimit
  BY DEF DwellBounded, LimitOnNotch, Notches
<1>2. CASE is_paused = 1 /\ UNCHANGED <<speed_counter, scroll_idx>>
  BY <1>1, <1>2
<1>3. CASE /\ is_paused = 0 /\ speed_counter < speed_limit
           /\ speed_counter' = (speed_counter + 1) % CounterMod
           /\ UNCHANGED scroll_idx
  <2>1. speed_counter + 1 \in 0..MaxLimit /\ speed_counter + 1 < CounterMod
    BY <1>1, <1>3, ControlAssumption
  <2>2. (speed_counter + 1) % CounterMod = speed_counter + 1
    BY <2>1, ControlAssumption
  <2> QED
    BY <1>3, <2>1, <2>2
<1>4. CASE /\ is_paused = 0 /\ speed_counter >= speed_limit
           /\ speed_counter' = 0
           /\ scroll_idx' = NextIdx
  BY <1>1, <1>4
<1> QED
  BY <1>2, <1>3, <1>4 DEF Scroll

\* One edge keeps the limit on a notch and the counter below the upper lock.
LEMMA ClockDwell ==
  ASSUME TypeOK, DwellBounded, Clock
  PROVE  DwellBounded'
<1>1. CASE ResetEdge
  BY <1>1, ConstantOrder, NotchAssumption DEF ResetEdge, DwellBounded, LimitOnNotch
<1>2. CASE StandbyEdge
  BY <1>2, ConstantOrder DEF StandbyEdge, DwellBounded, LimitOnNotch
<1>3. ASSUME NEW wr_speed_en, NEW new_speed_val,
             wr_speed_en = 1 => new_speed_val \in Notches,
             NEW wr_ctrl_en, NEW new_paused,
             RunEdge(wr_speed_en, new_speed_val, wr_ctrl_en, new_paused)
      PROVE  DwellBounded'
  <2>1. LimitOnNotch'
    BY <1>3, NextLimitOnNotch DEF RunEdge, DwellBounded, LimitOnNotch
  <2>2. speed_counter' \in 0..MaxLimit
    BY <1>3, ScrollDwell DEF RunEdge
  <2> QED
    BY <2>1, <2>2 DEF DwellBounded
<1>4. CASE RunEdge(0, 0, 0, 0)
  BY <1>3, <1>4
<1>5. CASE \E v \in SpeedWrites : RunEdge(1, v, 0, 0)
  BY <1>3, <1>5, NotchAssumption
<1>6. CASE \E p \in Bit : RunEdge(0, 0, 1, p)
  BY <1>3, <1>6
<1> QED
  BY <1>1, <1>2, <1>4, <1>5, <1>6, ClockCases

\* The invariant that carries both the locks and the refinement: it holds at
\* power-up, and every step keeps it.
LEMMA InitDwell == Init => DwellBounded
BY ConstantOrder, NotchAssumption DEF Init, DwellBounded, LimitOnNotch

LEMMA StepDwell ==
  ASSUME TypeOK, DwellBounded, [Next]_vars
  PROVE  DwellBounded'
<1>1. CASE Clock
  BY <1>1, ClockDwell
<1>2. ASSUME UNCHANGED regs
      PROVE  DwellBounded'
  BY <1>2 DEF regs, DwellBounded, LimitOnNotch
<1>3. CASE MoveReset \/ MoveSwitch \/ \E b \in Button : MoveButton(b)
  BY <1>2, <1>3 DEF MoveReset, MoveSwitch, MoveButton, regs
<1>4. CASE UNCHANGED vars
  BY <1>2, <1>4 DEF vars, regs
<1> QED
  BY <1>1, <1>3, <1>4 DEF Next

\* Every reachable state satisfies DwellBounded (bloco_controle.vhd:62-110).
THEOREM DwellInvariance == Spec => []DwellBounded
BY InitDwell, StepDwell, TypeCorrect, PTL DEF Spec

\* What is on a notch is inside the locks.
LEMMA NotchLocked == DwellBounded => SpeedLocks
BY ConstantOrder DEF DwellBounded, LimitOnNotch, Notches, SpeedLocks

\* The locks of the two speed buttons hold whatever is pressed, written, reset
\* or switched off, in any order (bloco_controle.vhd:77-88).
THEOREM LocksHold == Spec => []SpeedLocks
BY NotchLocked, DwellInvariance, PTL

\* The nested test of lines 100-104 is the successor modulo the text's length.
LEMMA NextIdxModulo ==
  ASSUME TypeOK
  PROVE  NextIdx = (scroll_idx + 1) % TextLen
<1>1. CASE scroll_idx < TextLen - 1
  BY <1>1, ControlAssumption DEF TypeOK, NextIdx
<1>2. CASE scroll_idx = TextLen - 1
  BY <1>2, ControlAssumption DEF TypeOK, NextIdx
<1> QED
  BY <1>1, <1>2, ControlAssumption DEF TypeOK

\* The divider is a stutter, a tick or an advance of the marquee.
LEMMA ScrollMarquee ==
  ASSUME TypeOK, DwellBounded, Scroll
  PROVE  [Marquee!Next]_(Marquee!vars)
<1> USE ConstantOrder
<1>1. speed_limit \in MinLimit..MaxLimit /\ speed_counter \in 0..MaxLimit
  BY DEF DwellBounded, LimitOnNotch, Notches
<1>2. CASE is_paused = 1 /\ UNCHANGED <<speed_counter, scroll_idx>>
  BY <1>2 DEF Marquee!vars
<1>3. CASE is_paused = 0 /\ speed_counter < speed_limit /\ UNCHANGED scroll_idx
  BY <1>1, <1>3, ScrollDwell DEF Marquee!Next, Marquee!Tick
<1>4. CASE /\ is_paused = 0 /\ speed_counter >= speed_limit
           /\ speed_counter' = 0
           /\ scroll_idx' = NextIdx
  BY <1>1, <1>4, NextIdxModulo DEF Marquee!Next, Marquee!Advance
<1> QED
  BY <1>2, <1>3, <1>4 DEF Scroll

\* Every step is one of the marquee or leaves it alone.
LEMMA StepMarquee ==
  ASSUME TypeOK, DwellBounded, [Next]_vars
  PROVE  [Marquee!Next]_(Marquee!vars)
<1>1. CASE Clock
  <2>1. CASE ResetEdge
    BY <2>1 DEF ResetEdge, Marquee!Next, Marquee!Rewind
  <2>2. CASE StandbyEdge
    BY <2>2 DEF StandbyEdge, Marquee!Next, Marquee!Restart
  <2>3. CASE Scroll
    BY <2>3, ScrollMarquee
  <2> QED
    BY <1>1, <2>1, <2>2, <2>3, ClockCases DEF RunEdge
<1>2. ASSUME UNCHANGED regs
      PROVE  UNCHANGED Marquee!vars
  BY <1>2 DEF regs, Marquee!vars
<1>3. CASE MoveReset \/ MoveSwitch \/ \E b \in Button : MoveButton(b)
  BY <1>2, <1>3 DEF MoveReset, MoveSwitch, MoveButton
<1>4. CASE UNCHANGED vars
  BY <1>2, <1>4 DEF vars, regs
<1> QED
  BY <1>1, <1>3, <1>4 DEF Next

LEMMA InitMarquee == Init => Marquee!Init
BY DEF Init, Marquee!Init

\* The control block implements the marquee of Letreiro: no interleaving of
\* presses, writes, pauses, standby and resets makes the text skip a letter,
\* turn backwards, or leave a letter too early or too late
\* (bloco_controle.vhd:43-110).
THEOREM MarqueeRefinement == Spec => ImplementsMarquee
BY InitMarquee, StepMarquee, TypeCorrect, DwellInvariance, PTL
   DEF Spec, ImplementsMarquee, Marquee!Spec

-----------------------------------------------------------------------------
(* One action per press.                                                   *)

\* The observer does not disturb the control block.
LEMMA ObserverAside ==
  ASSUME [NextA]_varsA
  PROVE  [Next]_vars
BY DEF NextA, varsA, ClockA, LevelA, FingerA, Next, vars

\* An edge that counts a press for b also makes the detector remember b down;
\* an edge that resets or suspends the block leaves the detector as it was
\* (bloco_controle.vhd:48-57 and 91).
LEMMA ClockDetector ==
  ASSUME TypeOK, DetectorInv, acted \in [Button -> 0..2], ClockA
  PROVE  DetectorInv'
<1> SUFFICES ASSUME NEW b \in Button, acted'[b] > 0
             PROVE  acted'[b] = 1 /\ buttons'[b] = 0 /\ btn_prev'[b] = 0
  BY DEF DetectorInv
<1>1. acted'[b] = Count(b) /\ buttons' = buttons
  BY ClockCases DEF ClockA, ports
<1>2. /\ acted[b] \in 0..2 /\ buttons[b] \in Bit /\ btn_prev[b] \in Bit
      /\ acted[b] > 0 => acted[b] = 1 /\ buttons[b] = 0 /\ btn_prev[b] = 0
  BY DEF TypeOK, DetectorInv
<1>3. CASE btn_prev' = buttons /\ Operating
  BY <1>1, <1>2, <1>3 DEF Count, Pressed, Bit
<1>4. CASE btn_prev' = btn_prev /\ ~Operating
  BY <1>1, <1>2, <1>4 DEF Count
<1>5. \/ btn_prev' = buttons /\ Operating
      \/ btn_prev' = btn_prev /\ ~Operating
  BY ClockCases DEF ClockA, ResetEdge, StandbyEdge, RunEdge, Operating
<1> QED
  BY <1>3, <1>4, <1>5

\* The invariant of the observer: the detector, and the range of the counts.
ObserverInv == acted \in [Button -> 0..2] /\ DetectorInv

LEMMA InitObserver == InitA => Init /\ ObserverInv
BY DEF InitA, ObserverInv, DetectorInv

LEMMA StepObserver ==
  ASSUME TypeOK, ObserverInv, [NextA]_varsA
  PROVE  ObserverInv'
<1> USE DEF ObserverInv
<1>1. CASE ClockA
  <2>1. acted' \in [Button -> 0..2]
    BY <1>1 DEF ClockA, Count
  <2> QED
    BY <1>1, <2>1, ClockDetector
<1>2. CASE LevelA
  BY <1>2 DEF LevelA, MoveReset, MoveSwitch, regs, DetectorInv
<1>3. ASSUME NEW k \in Button, FingerA(k)
      PROVE  ObserverInv'
  <2>1. /\ acted' = [acted EXCEPT ![k] = 0]
        /\ buttons' = [buttons EXCEPT ![k] = 1 - @]
        /\ UNCHANGED btn_prev
    BY <1>3 DEF FingerA, MoveButton, regs
  <2>2. acted' \in [Button -> 0..2]
    BY <2>1
  <2>3. DetectorInv'
    BY <2>1 DEF DetectorInv, TypeOK
  <2> QED
    BY <2>2, <2>3
<1>4. CASE UNCHANGED varsA
  BY <1>4 DEF varsA, vars, DetectorInv
<1> QED
  BY <1>1, <1>2, <1>3, <1>4 DEF NextA

LEMMA ObserverOnce == ObserverInv => ActsOncePerPress
BY DEF ObserverInv, DetectorInv, ActsOncePerPress

\* However long a KEY is held, and whatever resets and standby happen meanwhile,
\* the block acts on it once at most (bloco_controle.vhd:36-37, 48-57, 72-91).
THEOREM OncePerPress == SpecA => []ActsOncePerPress
<1>1. TypeOK /\ [NextA]_varsA => TypeOK'
  BY ObserverAside, StepType
<1> QED
  BY <1>1, InitType, InitObserver, StepObserver, ObserverOnce, PTL DEF SpecA

-----------------------------------------------------------------------------
(* The panel: what it shows is a matter of the segment table and the window, *)
(* so that it is readable whatever was written and wherever the text stands. *)

\* The patterns of the ten digits light what the usual drawing lights.
LEMMA DigitsDrawn == \A d \in 1..10 : Panel!LitSegments(Panel!Digits[d]) = Panel!DigitDrawing[d]
<1> SUFFICES ASSUME NEW d \in 1..10
             PROVE  Panel!LitSegments(Panel!Digits[d]) = Panel!DigitDrawing[d]
  OBVIOUS
<1>1. CASE d = 1
  BY <1>1 DEF Panel!Digits, Panel!DigitDrawing, Panel!LitSegments, Panel!Weight
<1>2. CASE d = 2
  BY <1>2 DEF Panel!Digits, Panel!DigitDrawing, Panel!LitSegments, Panel!Weight
<1>3. CASE d = 3
  BY <1>3 DEF Panel!Digits, Panel!DigitDrawing, Panel!LitSegments, Panel!Weight
<1>4. CASE d = 4
  BY <1>4 DEF Panel!Digits, Panel!DigitDrawing, Panel!LitSegments, Panel!Weight
<1>5. CASE d = 5
  BY <1>5 DEF Panel!Digits, Panel!DigitDrawing, Panel!LitSegments, Panel!Weight
<1>6. CASE d = 6
  BY <1>6 DEF Panel!Digits, Panel!DigitDrawing, Panel!LitSegments, Panel!Weight
<1>7. CASE d = 7
  BY <1>7 DEF Panel!Digits, Panel!DigitDrawing, Panel!LitSegments, Panel!Weight
<1>8. CASE d = 8
  BY <1>8 DEF Panel!Digits, Panel!DigitDrawing, Panel!LitSegments, Panel!Weight
<1>9. CASE d = 9
  BY <1>9 DEF Panel!Digits, Panel!DigitDrawing, Panel!LitSegments, Panel!Weight
<1>10. CASE d = 10
  BY <1>10 DEF Panel!Digits, Panel!DigitDrawing, Panel!LitSegments, Panel!Weight
<1> QED
  BY <1>1, <1>2, <1>3, <1>4, <1>5, <1>6, <1>7, <1>8, <1>9, <1>10

\* What is drawn of a digit, and of a letter in either case.
LEMMA CharactersShown ==
  /\ \A c \in Panel!Digit : Panel!char_to_seg(c) = Panel!Digits[c - 47] /\ Panel!Capital(c) = c
  /\ \A c \in Panel!Letter : /\ Panel!Capital(c) \in 65..90
                             /\ Panel!char_to_seg(c) = Panel!Letters[Panel!Capital(c) - 64]
<1>1. ASSUME NEW c \in 48..57
      PROVE  Panel!char_to_seg(c) = Panel!Digits[c - 47] /\ Panel!Capital(c) = c
  BY DEF Panel!char_to_seg, Panel!Upper, Panel!Capital
<1>2. ASSUME NEW c \in Panel!Letter
      PROVE  /\ Panel!Capital(c) \in 65..90
             /\ Panel!char_to_seg(c) = Panel!Letters[Panel!Capital(c) - 64]
  <2>1. Panel!Upper(c) = Panel!Capital(c) /\ Panel!Capital(c) \in 65..90
    BY DEF Panel!Upper, Panel!Capital, Panel!Letter
  <2>2. Panel!Capital(c) \notin 48..57
    BY <2>1
  <2> QED
    BY <2>1, <2>2 DEF Panel!char_to_seg
<1> QED
  BY <1>1, <1>2 DEF Panel!Digit

\* No letter's pattern is dark.
LEMMA LettersLit == \A l \in 1..26 : Panel!Letters[l] # Panel!Dark
  BY DEF Panel!Letters, Panel!Dark

\* The digits and capitals a pattern of the table is drawn for.
DrawnAs(v) ==
  CASE v = \b1000000 -> {48, 79}
    [] v = \b1111001 -> {49, 73}
    [] v = \b0100100 -> {50, 90}
    [] v = \b0110000 -> {51}
    [] v = \b0011001 -> {52}
    [] v = \b0010010 -> {53, 83}
    [] v = \b0000010 -> {54, 71}
    [] v = \b1111000 -> {55}
    [] v = \b0000000 -> {56}
    [] v = \b0010000 -> {57}
    [] v = \b0001000 -> {65, 77}
    [] v = \b0000011 -> {66}
    [] v = \b1000110 -> {67}
    [] v = \b0100001 -> {68}
    [] v = \b0000110 -> {69}
    [] v = \b0001110 -> {70}
    [] v = \b0001001 -> {72, 75, 88}
    [] v = \b1100001 -> {74}
    [] v = \b1000111 -> {76}
    [] v = \b0101011 -> {78}
    [] v = \b0001100 -> {80}
    [] v = \b0011000 -> {81}
    [] v = \b0101111 -> {82}
    [] v = \b0000111 -> {84}
    [] v = \b1000001 -> {85, 86, 87}
    [] v = \b0010001 -> {89}
    [] OTHER -> {}

\* A digit is among those its pattern is drawn for.
LEMMA DigitAmong == \A d \in 1..10 : d + 47 \in DrawnAs(Panel!Digits[d])
<1> SUFFICES ASSUME NEW d \in 1..10
             PROVE  d + 47 \in DrawnAs(Panel!Digits[d])
  OBVIOUS
<1>1. CASE d = 1
  BY <1>1 DEF Panel!Digits, DrawnAs
<1>2. CASE d = 2
  BY <1>2 DEF Panel!Digits, DrawnAs
<1>3. CASE d = 3
  BY <1>3 DEF Panel!Digits, DrawnAs
<1>4. CASE d = 4
  BY <1>4 DEF Panel!Digits, DrawnAs
<1>5. CASE d = 5
  BY <1>5 DEF Panel!Digits, DrawnAs
<1>6. CASE d = 6
  BY <1>6 DEF Panel!Digits, DrawnAs
<1>7. CASE d = 7
  BY <1>7 DEF Panel!Digits, DrawnAs
<1>8. CASE d = 8
  BY <1>8 DEF Panel!Digits, DrawnAs
<1>9. CASE d = 9
  BY <1>9 DEF Panel!Digits, DrawnAs
<1>10. CASE d = 10
  BY <1>10 DEF Panel!Digits, DrawnAs
<1> QED
  BY <1>1, <1>2, <1>3, <1>4, <1>5, <1>6, <1>7, <1>8, <1>9, <1>10

\* A capital is among those its pattern is drawn for.
LEMMA LetterAmong == \A l \in 1..26 : l + 64 \in DrawnAs(Panel!Letters[l])
<1> SUFFICES ASSUME NEW l \in 1..26
             PROVE  l + 64 \in DrawnAs(Panel!Letters[l])
  OBVIOUS
<1>1. CASE l = 1
  BY <1>1 DEF Panel!Letters, DrawnAs
<1>2. CASE l = 2
  BY <1>2 DEF Panel!Letters, DrawnAs
<1>3. CASE l = 3
  BY <1>3 DEF Panel!Letters, DrawnAs
<1>4. CASE l = 4
  BY <1>4 DEF Panel!Letters, DrawnAs
<1>5. CASE l = 5
  BY <1>5 DEF Panel!Letters, DrawnAs
<1>6. CASE l = 6
  BY <1>6 DEF Panel!Letters, DrawnAs
<1>7. CASE l = 7
  BY <1>7 DEF Panel!Letters, DrawnAs
<1>8. CASE l = 8
  BY <1>8 DEF Panel!Letters, DrawnAs
<1>9. CASE l = 9
  BY <1>9 DEF Panel!Letters, DrawnAs
<1>10. CASE l = 10
  BY <1>10 DEF Panel!Letters, DrawnAs
<1>11. CASE l = 11
  BY <1>11 DEF Panel!Letters, DrawnAs
<1>12. CASE l = 12
  BY <1>12 DEF Panel!Letters, DrawnAs
<1>13. CASE l = 13
  BY <1>13 DEF Panel!Letters, DrawnAs
<1>14. CASE l = 14
  BY <1>14 DEF Panel!Letters, DrawnAs
<1>15. CASE l = 15
  BY <1>15 DEF Panel!Letters, DrawnAs
<1>16. CASE l = 16
  BY <1>16 DEF Panel!Letters, DrawnAs
<1>17. CASE l = 17
  BY <1>17 DEF Panel!Letters, DrawnAs
<1>18. CASE l = 18
  BY <1>18 DEF Panel!Letters, DrawnAs
<1>19. CASE l = 19
  BY <1>19 DEF Panel!Letters, DrawnAs
<1>20. CASE l = 20
  BY <1>20 DEF Panel!Letters, DrawnAs
<1>21. CASE l = 21
  BY <1>21 DEF Panel!Letters, DrawnAs
<1>22. CASE l = 22
  BY <1>22 DEF Panel!Letters, DrawnAs
<1>23. CASE l = 23
  BY <1>23 DEF Panel!Letters, DrawnAs
<1>24. CASE l = 24
  BY <1>24 DEF Panel!Letters, DrawnAs
<1>25. CASE l = 25
  BY <1>25 DEF Panel!Letters, DrawnAs
<1>26. CASE l = 26
  BY <1>26 DEF Panel!Letters, DrawnAs
<1> QED
  BY <1>1, <1>2, <1>3, <1>4, <1>5, <1>6, <1>7, <1>8, <1>9, <1>10, <1>11, <1>12, <1>13, <1>14, <1>15, <1>16, <1>17, <1>18, <1>19, <1>20, <1>21, <1>22, <1>23, <1>24, <1>25, <1>26

\* Two characters of one pattern are the same, or of a group drawn alike.
LEMMA OneOrAlike ==
  \A v : \A c, d \in DrawnAs(v) : c = d \/ \E group \in Panel!Alike : {c, d} \subseteq group
BY DEF DrawnAs, Panel!Alike

\* What the display at a position shows is the character that stands there.
LEMMA ShownAt ==
  ASSUME NEW p \in DOMAIN Panel!shown, system_on = 1
  PROVE  Panel!shown[p] = Panel!char_to_seg(Panel!Cell(p))
BY DEF Panel!shown, Panel!hex_output, Panel!Cell

\* Whatever was written to the memory, wherever the window stands and whatever its width:
\* a digit is drawn as usual, a letter is visible and its cases look alike, and
\* only the characters drawn alike are confused.
LEMMA WindowReadable == PanelReadable
<1>1. Panel!DigitsReadable
  <2> SUFFICES ASSUME NEW p \in DOMAIN Panel!shown, system_on = 1, Panel!Cell(p) \in Panel!Digit
               PROVE  Panel!LitSegments(Panel!shown[p]) = Panel!DigitDrawing[Panel!Cell(p) - 47]
    BY DEF Panel!DigitsReadable
  <2>1. Panel!shown[p] = Panel!Digits[Panel!Cell(p) - 47]
    BY ShownAt, CharactersShown
  <2>2. Panel!Cell(p) - 47 \in 1..10
    BY DEF Panel!Digit
  <2> QED
    BY <2>1, <2>2, DigitsDrawn
<1>2. Panel!LettersReadable
  <2> SUFFICES ASSUME NEW p \in DOMAIN Panel!shown, NEW q \in DOMAIN Panel!shown,
                      system_on = 1, Panel!Cell(p) \in Panel!Letter
               PROVE  /\ Panel!shown[p] # Panel!Dark
                      /\ Panel!Capital(Panel!Cell(q)) = Panel!Capital(Panel!Cell(p))
                           => Panel!shown[q] = Panel!shown[p]
    BY DEF Panel!LettersReadable
  <2> DEFINE k == Panel!Capital(Panel!Cell(p))
  <2>1. k \in 65..90 /\ Panel!shown[p] = Panel!Letters[k - 64]
    BY ShownAt, CharactersShown
  <2>2. Panel!shown[p] # Panel!Dark
    BY <2>1, LettersLit
  <2>3. ASSUME Panel!Capital(Panel!Cell(q)) = k
        PROVE  Panel!shown[q] = Panel!shown[p]
    <3>1. Panel!Cell(q) \in Panel!Letter
      BY <2>1, <2>3 DEF Panel!Capital, Panel!Letter
    <3> QED
      BY <2>1, <2>3, <3>1, ShownAt, CharactersShown
  <2> QED
    BY <2>2, <2>3
<1>3. ASSUME NEW c \in Panel!Digit \cup Panel!Letter
      PROVE  Panel!Capital(c) \in DrawnAs(Panel!char_to_seg(c))
  <2>1. CASE c \in Panel!Digit
    <3>1. c - 47 \in 1..10 /\ (c - 47) + 47 = c
      BY <2>1 DEF Panel!Digit
    <3> QED
      BY <2>1, <3>1, CharactersShown, DigitAmong
  <2>2. CASE c \in Panel!Letter
    <3> DEFINE k == Panel!Capital(c)
    <3>1. k \in 65..90 /\ Panel!char_to_seg(c) = Panel!Letters[k - 64]
      BY <2>2, CharactersShown
    <3>2. k - 64 \in 1..26 /\ (k - 64) + 64 = k
      BY <3>1
    <3>3. (k - 64) + 64 \in DrawnAs(Panel!Letters[k - 64])
      BY <3>2, LetterAmong
    <3> QED
      BY <3>1, <3>2, <3>3
  <2> QED
    BY <2>1, <2>2
<1>4. Panel!NoOthersConfused
  <2> SUFFICES ASSUME NEW p \in DOMAIN Panel!shown, NEW q \in DOMAIN Panel!shown, system_on = 1,
                      Panel!Cell(p) \in Panel!Digit \cup Panel!Letter,
                      Panel!Cell(q) \in Panel!Digit \cup Panel!Letter,
                      Panel!shown[p] = Panel!shown[q]
               PROVE  \/ Panel!Capital(Panel!Cell(p)) = Panel!Capital(Panel!Cell(q))
                      \/ \E group \in Panel!Alike :
                           {Panel!Capital(Panel!Cell(p)), Panel!Capital(Panel!Cell(q))} \subseteq group
    BY DEF Panel!NoOthersConfused
  <2>1. Panel!char_to_seg(Panel!Cell(p)) = Panel!char_to_seg(Panel!Cell(q))
    BY ShownAt
  <2> QED
    BY <1>3, <2>1, OneOrAlike
<1> QED
  BY <1>1, <1>2, <1>4 DEF PanelReadable, Panel!PanelReadable

-----------------------------------------------------------------------------
(* The two blocks, as the runs check them.                                   *)

\* A step of either block is one of the control block under observation, or
\* leaves it alone.
LEMMA PanelAside ==
  ASSUME [BlocksNext]_blocks
  PROVE  [NextA]_varsA
BY DEF BlocksNext, blocks

\* The invariant of the control block beside the display block.
BlocksInv == TypeOK /\ DwellBounded /\ ObserverInv

LEMMA BlocksInvariance == BlocksSpec => []BlocksInv
<1>1. BlocksInit => BlocksInv
  BY InitObserver, InitType, InitDwell DEF BlocksInit, BlocksInv
<1>2. BlocksInv /\ [BlocksNext]_blocks => BlocksInv'
  BY PanelAside, ObserverAside, StepType, StepDwell, StepObserver DEF BlocksInv
<1> QED
  BY <1>1, <1>2, PTL DEF BlocksSpec

\* With both blocks: the locks hold, the dwell is bounded and a press counts
\* once (bloco_controle.vhd:43-110).
THEOREM BlocksAreSafe == BlocksSpec => [](SpeedLocks /\ DwellBounded /\ ActsOncePerPress)
<1>1. BlocksInv => SpeedLocks /\ DwellBounded /\ ActsOncePerPress
  BY NotchLocked, ObserverOnce DEF BlocksInv
<1> QED
  BY <1>1, BlocksInvariance, PTL

\* Whatever was written to the memory, whatever its length, the width of the
\* window and the index: a digit of the text is drawn as usual, a letter is
\* visible, the same in its two cases, and only the characters that seven
\* segments draw alike are confused (bloco_operacional.vhd:31-120).
THEOREM PanelIsReadable == BlocksSpec => []PanelReadable
BY WindowReadable, PTL

\* The control block implements the marquee beside the display block too
\* (bloco_controle.vhd:43-110).
THEOREM BlocksScroll == BlocksSpec => ImplementsMarquee
<1>1. BlocksInit => Marquee!Init
  BY InitObserver, InitMarquee DEF BlocksInit
<1>2. BlocksInv /\ [BlocksNext]_blocks => [Marquee!Next]_(Marquee!vars)
  BY PanelAside, ObserverAside, StepMarquee DEF BlocksInv
<1> QED
  BY <1>1, <1>2, BlocksInvariance, PTL DEF BlocksSpec, ImplementsMarquee, Marquee!Spec

=============================================================================
