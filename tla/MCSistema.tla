----------------------------- MODULE MCSistema -----------------------------
(* Three characters; one printed before the configuration and three after,  *)
(* on a FIFO of two, so that the second printf needs a host.                 *)
EXTENDS Sistema
MCFrase == [k \in 0..2 |-> <<85, 70, 0>>[k + 1]]
=============================================================================
