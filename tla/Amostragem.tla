----------------------------- MODULE Amostragem -----------------------------
(***************************************************************************)
(* The buttons as the board wires them: the KEY pins go straight into the  *)
(* control block (hardware.vhd:74, scroller_avalon.vhd:76), with no        *)
(* synchroniser in front.  A level that moves as the clock rises reaches   *)
(* the register is_paused and the register btn_prev along different paths, *)
(* and each may catch the old or the new level.  Only KEY 1 (Pause/Play)   *)
(* moves like that here: one bit of state hangs on it.                     *)
(***************************************************************************)
EXTENDS Acionamento

\* The block as it behaves when its logic sees the levels in view.
Seen(view) == INSTANCE BlocoControle WITH buttons <- view

MovingEdge(seen, kept) ==
  LET view == [buttons EXCEPT ![0] = seen]
      hit  == IF Seen(view)!Pressed(0) THEN 1 ELSE 0
  IN  /\ Operating
      /\ buttons' = [buttons EXCEPT ![0] = 1 - @]
      /\ is_paused' = Seen(view)!NextPaused(0, 0)
      /\ speed_limit' = NextLimit(0, 0)
      /\ btn_prev' = [buttons EXCEPT ![0] = kept]
      /\ Scroll
      /\ UNCHANGED <<reset, switch_enable>>
      /\ acted' = [b \in Button |-> IF b # 0 THEN Count(b)
                                    ELSE IF buttons[0] = 1 THEN hit ELSE 0]

NextM == NextA \/ \E seen, kept \in Bit : MovingEdge(seen, kept)

SpecM == InitA /\ [][NextM]_varsA

=============================================================================
