------------------------------- MODULE Travas -------------------------------
(***************************************************************************)
(* The control block when every speed the bus writes lies a whole number   *)
(* of Steps above the lower lock, as the one of the program does           *)
(* (5 000 000 with a Step of 1 000 000).  Then the locks hold exactly, and *)
(* the block implements the marquee of Letreiro.                           *)
(***************************************************************************)
EXTENDS Faixa

Notches ==
  {n \in MinLimit..MaxLimit : \E k \in 0..(MaxLimit - MinLimit) : n = MinLimit + k * Step}

ASSUME NotchAssumption ==
  /\ MinLimit \in Nat
  /\ MaxLimit \in Notches
  /\ DEFAULT_SPEED \in Notches
  /\ SpeedWrites \subseteq Notches

LimitOnNotch == speed_limit \in Notches

\* The dwell the limit imposes, and what keeps it: the limit is on a notch
\* and the counter has not passed the upper lock.
DwellBounded == LimitOnNotch /\ speed_counter \in 0..MaxLimit

Marquee == INSTANCE Letreiro
  WITH MinDwell <- MinLimit, MaxDwell <- MaxLimit,
       idx <- scroll_idx, elapsed <- speed_counter

\* The block implements the marquee: no sequence of presses, writes, pauses,
\* standby and resets makes the text skip a letter, turn backwards, or leave a
\* letter before the shortest dwell or after the longest
\* (bloco_controle.vhd:43-110).
ImplementsMarquee == Marquee!Spec

=============================================================================
