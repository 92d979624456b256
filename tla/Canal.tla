------------------------------- MODULE Canal -------------------------------
(***************************************************************************)
(* What a console promises to the program that prints on it: a bounded     *)
(* queue between the processor and the host.  Characters are delivered in  *)
(* the order of the text, none lost and none twice; only a reset discards  *)
(* those that are under way, and the text then starts again.               *)
(***************************************************************************)
EXTENDS Naturals, Sequences

CONSTANTS
  Depth,      \* capacity of the queue
  Text        \* what the program prints, a sequence of characters

VARIABLES queue, delivered

vars == <<queue, delivered>>

Init == queue = <<>> /\ delivered = <<>>

\* The next character of the text is the one after those already accepted.
Accepted == Len(delivered) + Len(queue)
Put      == Accepted < Len(Text) /\ Len(queue) < Depth
Take     == queue # <<>>

Write ==
  /\ Put
  /\ queue' = Append(queue, Text[Accepted + 1])
  /\ UNCHANGED delivered

Read ==
  /\ Take
  /\ delivered' = Append(delivered, Head(queue))
  /\ queue' = Tail(queue)

WriteRead ==
  /\ Put /\ Take
  /\ delivered' = Append(delivered, Head(queue))
  /\ queue' = Append(Tail(queue), Text[Accepted + 1])

Discard == queue' = <<>> /\ delivered' = <<>>

Next == Write \/ Read \/ WriteRead \/ Discard

Spec == Init /\ [][Next]_vars

=============================================================================
