------------------------------- MODULE Painel -------------------------------
(***************************************************************************)
(* The display block on its own, with every character the bus can write,   *)
(* and the readings a person takes from it.                                *)
(***************************************************************************)
EXTENDS BlocoOperacional, FiniteSets

CONSTANTS
  Data,         \* words written to the memory
  Addresses     \* addresses they are written to (the bus has 0..63)

VARIABLES start_index, system_on

vars == <<ram, start_index, system_on>>

Init == InitRam /\ start_index = 0 /\ system_on \in {0, 1}

WriteText(a, w) == WriteEdge(1, a, w) /\ UNCHANGED <<start_index, system_on>>

\* What the control block does to the inputs of this one.
Turn   == start_index' \in 0..(TextLen - 1) /\ UNCHANGED <<ram, system_on>>
Switch == system_on' = 1 - system_on /\ UNCHANGED <<ram, start_index>>

Next == (\E a \in Addresses, w \in Data : WriteText(a, w)) \/ Turn \/ Switch

Spec == Init /\ [][Next]_vars

-----------------------------------------------------------------------------
shown == hex_output(start_index, system_on)
Cell(p) == ram[(start_index + p) % TextLen]

Digit  == 48..57
Letter == (65..90) \cup (97..122)
Capital(char) == IF char \in 97..122 THEN char - 32 ELSE char

\* Segments a..g are bits 0..6 of a pattern, lit when 0.
Weight == <<1, 2, 4, 8, 16, 32, 64>>
LitSegments(pattern) == {s \in 0..6 : (pattern \div Weight[s + 1]) % 2 = 0}

\* The usual drawing of the ten digits.
DigitDrawing ==
  << {0,1,2,3,4,5}, {1,2}, {0,1,3,4,6}, {0,1,2,3,6}, {1,2,5,6},
     {0,2,3,5,6}, {0,2,3,4,5,6}, {0,1,2}, 0..6, {0,1,2,3,5,6} >>

\* Wherever a digit of the text stands in the window, the display there lights
\* the segments a reader expects of it (bloco_operacional.vhd:43-53, 110-115).
DigitsReadable ==
  \A p \in DOMAIN shown :
    system_on = 1 /\ Cell(p) \in Digit => LitSegments(shown[p]) = DigitDrawing[Cell(p) - 47]

\* A letter is never invisible, and its two cases look alike wherever they stand
\* (bloco_operacional.vhd:37-40, 54-80).
LettersReadable ==
  \A p, q \in DOMAIN shown :
    system_on = 1 /\ Cell(p) \in Letter
      => /\ shown[p] # Dark
         /\ Capital(Cell(q)) = Capital(Cell(p)) => shown[q] = shown[p]

\* The characters the table draws alike: 0 O, 1 I, 2 Z, 5 S, 6 G, A M, H K X
\* and U V W. Seven segments leave a reader these in doubt, and no others.
Alike == { {48, 79}, {49, 73}, {50, 90}, {53, 83}, {54, 71}, {65, 77},
           {72, 75, 88}, {85, 86, 87} }

\* Two digits or letters of the window that look the same are the same
\* character, or belong to one of the groups above (bloco_operacional.vhd:42-80).
NoOthersConfused ==
  \A p, q \in DOMAIN shown :
    system_on = 1 /\ {Cell(p), Cell(q)} \subseteq Digit \cup Letter /\ shown[p] = shown[q]
      => \/ Capital(Cell(p)) = Capital(Cell(q))
         \/ \E group \in Alike : {Capital(Cell(p)), Capital(Cell(q))} \subseteq group

\* A digit is drawn as usual, a letter is visible and the same in its two cases,
\* and no characters are confused but those that seven segments draw alike.
PanelReadable == DigitsReadable /\ LettersReadable /\ NoOthersConfused

=============================================================================
