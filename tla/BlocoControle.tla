--------------------------- MODULE BlocoControle ---------------------------
(***************************************************************************)
(* The control block of the scroller (src/bloco_controle.vhd): one clocked *)
(* process over five registers.  A step is either a change of an external  *)
(* level (reset, SW 0, a KEY), which may happen at any time, or a rising   *)
(* edge of the clock, at which the process samples the levels and at most  *)
(* one write of the Avalon bus.                                            *)
(*                                                                         *)
(* Inside the VHDL process every right-hand side reads the values the      *)
(* signals had before the edge, and of several assignments to one signal   *)
(* the last one wins: NextLimit and NextPaused below are these chains.     *)
(***************************************************************************)
EXTENDS Integers

CONSTANTS
  TextLen,        \* positions of the text: scroll_idx ranges over 0..TextLen-1
  DEFAULT_SPEED,  \* speed_limit at power-up and after a reset
  Step,           \* what one press of Faster or Slower changes
  MinLimit,       \* Faster acts above it     ("Trava minima")
  MaxLimit,       \* Slower acts below it     ("Trava maxima")
  CounterTop,     \* declared top of speed_counter's range
  CounterMod,     \* 2^(width synthesised for that range)
  SpeedWrites     \* values the bus may write to the speed register

ASSUME ControlAssumption ==
  /\ TextLen \in Nat \ {0}
  /\ {DEFAULT_SPEED, MinLimit, MaxLimit} \subseteq Int
  /\ Step \in Nat \ {0}
  /\ CounterTop \in Nat
  /\ CounterMod \in Nat /\ CounterTop < CounterMod
  /\ SpeedWrites \subseteq Int

VARIABLES
  reset, switch_enable, buttons,                \* the input levels
  speed_counter, speed_limit, scroll_idx, is_paused, btn_prev

ports == <<reset, switch_enable, buttons>>
regs  == <<speed_counter, speed_limit, scroll_idx, is_paused, btn_prev>>
vars  == <<reset, switch_enable, buttons,
           speed_counter, speed_limit, scroll_idx, is_paused, btn_prev>>

Bit     == {0, 1}
Button  == 0..2                        \* 0 Pause/Play, 1 Faster, 2 Slower
Released == [b \in Button |-> 1]       \* the KEYs are active low

TypeOK ==
  /\ reset \in Bit /\ switch_enable \in Bit
  /\ buttons \in [Button -> Bit]
  /\ speed_counter \in 0..(CounterMod - 1)
  /\ speed_limit \in Int
  /\ scroll_idx \in 0..(TextLen - 1)
  /\ is_paused \in Bit
  /\ btn_prev \in [Button -> Bit]

\* Power-up: the registers' initial values; the levels may be anything.
Init ==
  /\ reset \in Bit /\ switch_enable \in Bit
  /\ buttons \in [Button -> Bit]
  /\ speed_counter = 0
  /\ speed_limit = DEFAULT_SPEED
  /\ scroll_idx = 0
  /\ is_paused = 0
  /\ btn_prev = Released

-----------------------------------------------------------------------------
(* The clocked process.  A definition whose name has a suffix (X_Suffix) is *)
(* a wrong version of X that nothing uses: the properties are tried on it.  *)

\* A falling edge of button b, as the process detects it.
Pressed(b) == buttons[b] = 0 /\ btn_prev[b] = 1

ResetEdge_KeepsCounter ==
  /\ reset = 1
  /\ scroll_idx' = 0
  /\ speed_limit' = DEFAULT_SPEED
  /\ is_paused' = 0
  /\ UNCHANGED <<speed_counter, btn_prev>>

ResetEdge_ForgetsButtons ==
  /\ reset = 1
  /\ speed_counter' = 0
  /\ scroll_idx' = 0
  /\ speed_limit' = DEFAULT_SPEED
  /\ is_paused' = 0
  /\ btn_prev' = Released

ResetEdge ==
  /\ reset = 1
  /\ speed_counter' = 0
  /\ scroll_idx' = 0
  /\ speed_limit' = DEFAULT_SPEED
  /\ is_paused' = 0
  /\ UNCHANGED btn_prev

StandbyEdge ==
  /\ reset = 0 /\ switch_enable = 0
  /\ speed_counter' = 0
  /\ UNCHANGED <<speed_limit, scroll_idx, is_paused, btn_prev>>

NextLimit_NoUpperLock(wr_speed_en, new_speed_val) ==
  IF Pressed(2) THEN speed_limit + Step
  ELSE IF Pressed(1) /\ speed_limit > MinLimit THEN speed_limit - Step
  ELSE IF wr_speed_en = 1 THEN new_speed_val
  ELSE speed_limit

\* The three assignments to speed_limit, the last one first.
NextLimit(wr_speed_en, new_speed_val) ==
  IF Pressed(2) /\ speed_limit < MaxLimit THEN speed_limit + Step
  ELSE IF Pressed(1) /\ speed_limit > MinLimit THEN speed_limit - Step
  ELSE IF wr_speed_en = 1 THEN new_speed_val
  ELSE speed_limit

NextPaused_SetOnly(wr_ctrl_en, new_paused) ==
  IF Pressed(0) THEN 1 - is_paused
  ELSE IF wr_ctrl_en = 1 /\ new_paused = 1 THEN 1
  ELSE is_paused

\* The two assignments to is_paused, the last one first.
NextPaused(wr_ctrl_en, new_paused) ==
  IF Pressed(0) THEN 1 - is_paused
  ELSE IF wr_ctrl_en = 1 THEN new_paused
  ELSE is_paused

NextIdx_NoWrap    == IF scroll_idx <= TextLen - 1 THEN scroll_idx + 1 ELSE 0
NextIdx_SkipsLast == IF scroll_idx < TextLen - 2 THEN scroll_idx + 1 ELSE 0

NextIdx == IF scroll_idx < TextLen - 1 THEN scroll_idx + 1 ELSE 0

Scroll_OneTooMany ==
  \/ /\ is_paused = 1
     /\ UNCHANGED <<speed_counter, scroll_idx>>
  \/ /\ is_paused = 0 /\ speed_counter <= speed_limit
     /\ speed_counter' = (speed_counter + 1) % CounterMod
     /\ UNCHANGED scroll_idx
  \/ /\ is_paused = 0 /\ speed_counter > speed_limit
     /\ speed_counter' = 0
     /\ scroll_idx' = NextIdx

Scroll_CountsWhilePaused ==
  \/ /\ is_paused = 1 \/ speed_counter < speed_limit
     /\ speed_counter' = (speed_counter + 1) % CounterMod
     /\ UNCHANGED scroll_idx
  \/ /\ is_paused = 0 /\ speed_counter >= speed_limit
     /\ speed_counter' = 0
     /\ scroll_idx' = NextIdx

\* Time passes only when not paused; the letter moves when it is up.
Scroll ==
  \/ /\ is_paused = 1
     /\ UNCHANGED <<speed_counter, scroll_idx>>
  \/ /\ is_paused = 0 /\ speed_counter < speed_limit
     /\ speed_counter' = (speed_counter + 1) % CounterMod
     /\ UNCHANGED scroll_idx
  \/ /\ is_paused = 0 /\ speed_counter >= speed_limit
     /\ speed_counter' = 0
     /\ scroll_idx' = NextIdx

RunEdge(wr_speed_en, new_speed_val, wr_ctrl_en, new_paused) ==
  /\ reset = 0 /\ switch_enable = 1
  /\ speed_limit' = NextLimit(wr_speed_en, new_speed_val)
  /\ is_paused' = NextPaused(wr_ctrl_en, new_paused)
  /\ btn_prev' = buttons
  /\ Scroll

RisingEdge(wr_speed_en, new_speed_val, wr_ctrl_en, new_paused) ==
  /\ \/ ResetEdge
     \/ StandbyEdge
     \/ RunEdge(wr_speed_en, new_speed_val, wr_ctrl_en, new_paused)
  /\ UNCHANGED ports

-----------------------------------------------------------------------------
(* The environment: the bus drives at most one of the two registers.        *)

IdleCycle     == RisingEdge(0, 0, 0, 0)
WriteSpeed(v) == RisingEdge(1, v, 0, 0)
WriteCtrl(p)  == RisingEdge(0, 0, 1, p)

Clock ==
  \/ IdleCycle
  \/ \E v \in SpeedWrites : WriteSpeed(v)
  \/ \E p \in Bit : WriteCtrl(p)

MoveReset ==
  /\ reset' = 1 - reset
  /\ UNCHANGED <<switch_enable, buttons, regs>>

MoveSwitch ==
  /\ switch_enable' = 1 - switch_enable
  /\ UNCHANGED <<reset, buttons, regs>>

MoveButton(b) ==
  /\ buttons' = [buttons EXCEPT ![b] = 1 - @]
  /\ UNCHANGED <<reset, switch_enable, regs>>

Next ==
  \/ Clock
  \/ MoveReset
  \/ MoveSwitch
  \/ \E b \in Button : MoveButton(b)

\* The clock never stops; nobody has to touch a KEY or the switch.
Spec == Init /\ [][Next]_vars /\ WF_vars(Clock)

=============================================================================
