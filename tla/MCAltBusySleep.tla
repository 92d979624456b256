--------------------------- MODULE MCAltBusySleep ---------------------------
(* Words of 10 bits: Chunk is 102 for a Factor of 5.                         *)
EXTENDS AltBusySleep
\* Every delay of up to two big loops.
MCAll == 0..306
=============================================================================
