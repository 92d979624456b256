----------------------------- MODULE Controle ------------------------------
(* The two blocks of the scroller, apart: the control block with its presses *)
(* counted, or the display block with every pair of characters; a behaviour  *)
(* runs the one chosen at the start and leaves the other in its initial      *)
(* state.                                                                    *)
EXTENDS Travas, Acionamento

CONSTANTS
  PanelLen, Window,       \* TextLen and Window of the display block
  PanelData, Addresses    \* words the bus writes to its memory, and where

ASSUME PanelAssumption ==
  /\ PanelLen \in Nat \ {0}
  /\ Window \in 1..PanelLen
  /\ PanelData \subseteq Nat

VARIABLES block, ram, start_index, system_on

panelVars == <<ram, start_index, system_on>>
blocks    == <<block, varsA, panelVars>>

Panel == INSTANCE Painel WITH TextLen <- PanelLen, Data <- PanelData

\* The block that rests has one initial state: reset and switch off, no KEY down.
BlocksInit ==
  /\ block \in {"control", "display"}
  /\ InitA
  /\ block = "display" => reset = 1 /\ switch_enable = 0 /\ buttons = Released
  /\ Panel!Init
  /\ block = "control" => system_on = 0

BlocksNext ==
  \/ block = "control" /\ NextA /\ UNCHANGED <<block, panelVars>>
  \/ block = "display" /\ Panel!Next /\ UNCHANGED <<block, varsA>>

BlocksSpec == BlocksInit /\ [][BlocksNext]_blocks

\* In the window a digit is drawn as usual, a letter is visible and the same in
\* its two cases, and only the characters that seven segments draw alike (H K X,
\* U V W, A M, I 1, O 0, S 5, Z 2, G 6) can be taken for one another
\* (bloco_operacional.vhd:31-88, 105-120).
PanelReadable == Panel!PanelReadable
=============================================================================
