----------------------------- MODULE MCConsole -----------------------------
(* A small instance of Consoles: the text is a sequence, which a .cfg cannot *)
(* write.                                                                   *)
EXTENDS Consoles

\* A text that fills the FIFO of three twice, and one character more.
MCText == <<1, 2, 3, 4, 5, 6, 7>>

=============================================================================
