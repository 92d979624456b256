------------------------ MODULE BlocoControle_proofs ------------------------
(* What holds of the control block whatever the constants and the bus are.  *)
EXTENDS BlocoControle, TLAPS

\* An edge of the clock, whatever the bus carries, is a reset, a standby or a
\* run edge: the case split every invariance proof below starts from.
LEMMA ClockCases ==
  ASSUME Clock
  PROVE  /\ UNCHANGED ports
         /\ \/ ResetEdge
            \/ StandbyEdge
            \/ RunEdge(0, 0, 0, 0)
            \/ \E v \in SpeedWrites : RunEdge(1, v, 0, 0)
            \/ \E p \in Bit : RunEdge(0, 0, 1, p)
  BY DEF Clock, IdleCycle, WriteSpeed, WriteCtrl, RisingEdge

\* The divider keeps the counter inside the synthesised width and the index
\* inside the text (bloco_controle.vhd:94-106).
LEMMA ScrollType ==
  ASSUME TypeOK, Scroll
  PROVE  /\ speed_counter' \in 0..(CounterMod - 1)
         /\ scroll_idx' \in 0..(TextLen - 1)
<1>1. CASE is_paused = 1 /\ UNCHANGED <<speed_counter, scroll_idx>>
  BY <1>1 DEF TypeOK
<1>2. CASE /\ is_paused = 0 /\ speed_counter < speed_limit
           /\ speed_counter' = (speed_counter + 1) % CounterMod
           /\ UNCHANGED scroll_idx
  BY <1>2, ControlAssumption DEF TypeOK
<1>3. CASE /\ is_paused = 0 /\ speed_counter >= speed_limit
           /\ speed_counter' = 0
           /\ scroll_idx' = NextIdx
  BY <1>3, ControlAssumption DEF TypeOK, NextIdx
<1> QED
  BY <1>1, <1>2, <1>3 DEF Scroll

\* One run edge keeps every register in its type, whatever legal values the
\* bus presents (bloco_controle.vhd:60-108).
LEMMA RunEdgeType ==
  ASSUME TypeOK, UNCHANGED ports,
         NEW wr_speed_en \in Bit, NEW new_speed_val \in Int,
         NEW wr_ctrl_en \in Bit, NEW new_paused \in Bit,
         RunEdge(wr_speed_en, new_speed_val, wr_ctrl_en, new_paused)
  PROVE  TypeOK'
<1>1. speed_limit' \in Int
  BY ControlAssumption DEF TypeOK, RunEdge, NextLimit
<1>2. is_paused' \in Bit
  BY DEF TypeOK, RunEdge, NextPaused, Bit
<1>3. /\ speed_counter' \in 0..(CounterMod - 1)
      /\ scroll_idx' \in 0..(TextLen - 1)
  BY ScrollType DEF RunEdge
<1>4. btn_prev' \in [Button -> Bit]
  BY DEF TypeOK, RunEdge
<1> QED
  BY <1>1, <1>2, <1>3, <1>4 DEF TypeOK, ports

\* One step, of the clock or of the environment, keeps every register in its
\* type.
LEMMA StepType ==
  ASSUME TypeOK, [Next]_vars
  PROVE  TypeOK'
<1>1. CASE Clock
  <2>1. CASE ResetEdge
    BY <1>1, <2>1, ClockCases, ControlAssumption DEF ResetEdge, TypeOK, ports, Bit
  <2>2. CASE StandbyEdge
    BY <1>1, <2>2, ClockCases, ControlAssumption DEF StandbyEdge, TypeOK, ports
  <2>3. CASE RunEdge(0, 0, 0, 0)
    BY <1>1, <2>3, ClockCases, RunEdgeType DEF Bit
  <2>4. CASE \E v \in SpeedWrites : RunEdge(1, v, 0, 0)
    BY <1>1, <2>4, ClockCases, RunEdgeType, ControlAssumption DEF Bit
  <2>5. CASE \E p \in Bit : RunEdge(0, 0, 1, p)
    BY <1>1, <2>5, ClockCases, RunEdgeType DEF Bit
  <2> QED
    BY <1>1, <2>1, <2>2, <2>3, <2>4, <2>5, ClockCases
<1>2. CASE MoveReset
  BY <1>2 DEF MoveReset, TypeOK, regs, Bit
<1>3. CASE MoveSwitch
  BY <1>3 DEF MoveSwitch, TypeOK, regs, Bit
<1>4. CASE \E b \in Button : MoveButton(b)
  <2> PICK b \in Button : MoveButton(b)
    BY <1>4
  <2>1. buttons' \in [Button -> Bit]
    BY DEF MoveButton, TypeOK, Bit
  <2> QED
    BY <2>1 DEF MoveButton, TypeOK, regs
<1>5. CASE UNCHANGED vars
  BY <1>5 DEF vars, TypeOK
<1> QED
  BY <1>1, <1>2, <1>3, <1>4, <1>5 DEF Next

\* The registers start in their types.
LEMMA InitType == Init => TypeOK
BY ControlAssumption DEF Init, TypeOK, Released, Bit

\* Every register keeps its type: the index never leaves the text and the
\* counter never leaves its synthesised width (bloco_controle.vhd:31-37).
THEOREM TypeCorrect == Spec => []TypeOK
BY InitType, StepType, PTL DEF Spec

=============================================================================
