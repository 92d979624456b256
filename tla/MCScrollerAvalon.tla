-------------------------- MODULE MCScrollerAvalon --------------------------
(* Four positions and three displays; the letter A at three of them, and on   *)
(* the first one also a word whose low byte is a digit; a speed, both pauses  *)
(* (the 2 has bit 0 clear), and a write nobody decodes.                       *)
EXTENDS ScrollerAvalon

MCBusWrites ==
  ({0, 2, 3} \X {65}) \cup {<<0, 256 + 49>>, <<4, 1>>, <<4, 2>>, <<5, 1>>, <<6, 3>>}
=============================================================================
