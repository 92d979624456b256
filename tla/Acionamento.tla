---------------------------- MODULE Acionamento ----------------------------
(***************************************************************************)
(* The edge detectors of the buttons (bloco_controle.vhd:36-37, 72-91),    *)
(* watched from the outside: how often has the block acted on a KEY since  *)
(* the user's finger went down on it?  The detector's memory btn_prev is   *)
(* written only while the block operates, so that resets and standby may   *)
(* come between the press, its detection and the release.                  *)
(***************************************************************************)
EXTENDS BlocoControle

VARIABLE acted      \* per KEY, presses accepted while it has been held (cap 2)

varsA == <<vars, acted>>

Operating == reset = 0 /\ switch_enable = 1

TypeOKA == TypeOK /\ acted \in [Button -> 0..2]

InitA == Init /\ acted = [b \in Button |-> 0]

Count(b) ==
  IF Operating /\ Pressed(b) /\ acted[b] < 2 THEN acted[b] + 1 ELSE acted[b]

ClockA == Clock /\ acted' = [b \in Button |-> Count(b)]

LevelA == (MoveReset \/ MoveSwitch) /\ UNCHANGED acted

FingerA(b) == MoveButton(b) /\ acted' = [acted EXCEPT ![b] = 0]

NextA == ClockA \/ LevelA \/ \E b \in Button : FingerA(b)

SpecA == InitA /\ [][NextA]_varsA /\ WF_varsA(ClockA)

\* However long a KEY is held, and whatever resets and switching on and off
\* happen meanwhile, the block acts on it once at most: one press, one toggle,
\* one Step (bloco_controle.vhd:48-57 and 91).
ActsOncePerPress == \A b \in Button : acted[b] <= 1

\* Why: what the detector remembers of a KEY it has acted on is that it is down.
DetectorInv ==
  \A b \in Button : acted[b] > 0 => acted[b] = 1 /\ buttons[b] = 0 /\ btn_prev[b] = 0

=============================================================================
