------------------------------- MODULE Faixa -------------------------------
(***************************************************************************)
(* The control block when the bus writes any speed of the window that lies *)
(* less than one Step outside the two locks.  The locks are tests made     *)
(* before a press is applied, so a press may carry the limit past a lock,  *)
(* but by less than one Step: the limit never leaves the window, and the   *)
(* time counter never leaves its declared range.                           *)
(***************************************************************************)
EXTENDS BlocoControle

SpeedWindow == (MinLimit - Step + 1)..(MaxLimit + Step - 1)

ASSUME WindowAssumption ==
  /\ MinLimit <= MaxLimit
  /\ DEFAULT_SPEED \in SpeedWindow
  /\ SpeedWrites \subseteq SpeedWindow
  /\ MaxLimit + Step - 1 <= CounterTop

\* The buttons carry the limit past a lock by less than one Step, whatever the
\* mixture of presses, writes, standby and resets (bloco_controle.vhd:62-88).
LimitInWindow == speed_limit \in SpeedWindow

\* speed_counter stays in the range it is declared with, so that its increment
\* never wraps (bloco_controle.vhd:31 and 96).
CounterInRange == speed_counter \in 0..CounterTop

\* "Trava minima" and "Trava maxima" (bloco_controle.vhd:78 and 85): the limit
\* stays between the two locks.
SpeedLocks == MinLimit <= speed_limit /\ speed_limit <= MaxLimit

Showing == reset = 0 /\ switch_enable = 1 /\ is_paused = 0

\* Once nobody resets, switches off or pauses any more, the text keeps turning:
\* every letter is first in the window again and again, whatever the speed is
\* set to meanwhile (bloco_controle.vhd:94-106).
ScrollKeepsMoving ==
  <>[]Showing => \A i \in 0..(TextLen - 1) : []<>(scroll_idx = i)

=============================================================================
