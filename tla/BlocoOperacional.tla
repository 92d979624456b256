-------------------------- MODULE BlocoOperacional --------------------------
(***************************************************************************)
(* The display block (src/bloco_operacional.vhd): the text memory, written *)
(* at a rising edge, and the combinational path from it to the displays.   *)
(* A segment pattern is its seven bits gfedcba, 0 lit, as in the VHDL.     *)
(* X_Suffix is a wrong version of X, on which the properties are tried.    *)
(***************************************************************************)
EXTENDS Integers, Sequences

CONSTANTS
  TextLen,      \* positions of the memory (32)
  Window        \* displays (6), the first one leftmost (HEX5); Window <= TextLen

VARIABLE ram

Byte  == 0..255
Space == 32
Dark  == \b1111111

Digits ==
  << \b1000000, \b1111001, \b0100100, \b0110000, \b0011001,    \* 0 1 2 3 4
     \b0010010, \b0000010, \b1111000, \b0000000, \b0010000 >>  \* 5 6 7 8 9

Letters ==
  << \b0001000, \b0000011, \b1000110, \b0100001, \b0000110,    \* A B C D E
     \b0001110, \b0000010, \b0001001, \b1111001, \b1100001,    \* F G H I J
     \b0001001, \b1000111, \b0001000, \b0101011, \b1000000,    \* K L M N O
     \b0001100, \b0011000, \b0101111, \b0010010, \b0000111,    \* P Q R S T
     \b1000001, \b1000001, \b1000001, \b0001001, \b0010001,    \* U V W X Y
     \b0100100 >>                                              \* Z

Upper_LessThan(char) == IF char >= 97 /\ char < 122 THEN char - 32 ELSE char

\* a..z are drawn as A..Z.
Upper(char) == IF char >= 97 /\ char <= 122 THEN char - 32 ELSE char

char_to_seg(char) ==
  LET char_int == Upper(char)
  IN  CASE char_int \in 48..57 -> Digits[char_int - 47]
        [] char_int \in 65..90 -> Letters[char_int - 64]
        [] char_int = 45       -> \b0111111
        [] char_int = 95       -> \b1110111
        [] OTHER               -> Dark

-----------------------------------------------------------------------------
InitRam == ram = [k \in 0..(TextLen - 1) |-> Space]

\* The write port; neither the reset nor the switch takes part in it.
WriteEdge(wr_en, wr_addr, wr_data) ==
  ram' = IF wr_en = 1 /\ wr_addr < TextLen
           THEN [ram EXCEPT ![wr_addr] = wr_data % 256]
           ELSE ram

hex_output_Mirrored(start_index, system_on) ==
  [p \in 0..(Window - 1) |->
     IF system_on = 1
       THEN char_to_seg(ram[(start_index + Window - 1 - p) % TextLen]) ELSE Dark]

\* What the displays show, left to right.
hex_output(start_index, system_on) ==
  [p \in 0..(Window - 1) |->
     IF system_on = 1 THEN char_to_seg(ram[(start_index + p) % TextLen]) ELSE Dark]

=============================================================================
