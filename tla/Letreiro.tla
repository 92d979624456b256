------------------------------ MODULE Letreiro ------------------------------
(***************************************************************************)
(* What the scroller promises to somebody who watches it, with no clock    *)
(* divider, limit, button or bus in it: a text of TextLen letters turns    *)
(* under a window, one letter at a time and never backwards, and a letter  *)
(* that leaves has been first in the window for at least MinDwell ticks    *)
(* and never for more than MaxDwell.  The text may be rewound, and the     *)
(* dwell of the present letter may start again (the display was dark).     *)
(***************************************************************************)
EXTENDS Integers

CONSTANTS TextLen, MinDwell, MaxDwell

VARIABLES idx,      \* first letter in the window
          elapsed   \* ticks this letter has been first

vars == <<idx, elapsed>>

Init == idx = 0 /\ elapsed = 0

Tick ==
  /\ elapsed < MaxDwell
  /\ elapsed' = elapsed + 1
  /\ UNCHANGED idx

Advance ==
  /\ elapsed >= MinDwell
  /\ elapsed' = 0
  /\ idx' = (idx + 1) % TextLen

Restart ==
  /\ elapsed' = 0
  /\ UNCHANGED idx

Rewind ==
  /\ idx' = 0
  /\ elapsed' = 0

Next == Tick \/ Advance \/ Restart \/ Rewind

Spec == Init /\ [][Next]_vars

=============================================================================
