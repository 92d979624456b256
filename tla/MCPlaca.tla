------------------------------ MODULE MCPlaca ------------------------------
(* The parts of the board support package on small instances.              *)
EXTENDS Placa

\* Delays of at most one big loop that leave something after it.
MCCovered == (0..203) \ {102}
\* The zip file system, a file on it and a path no file system has.
MCFileSystem == {<<"rozipfs">>}
MCFileName   == {<<"rozipfs", "a">>, <<"b">>}
MCOpenMode   == {"RDONLY", "RDWR"}
MCFcntlArg   == {{}, {"NONBLOCK", "EXCL"}}
\* Every text that is echoed whole, cut, or has a NUL or a Ctrl-D anywhere.
MCTexts == UNION {[1..n -> {"a", "eot", "nul"}] : n \in 0..4}
\* The sections of the program as the linker laid them out (display.objdump:22-30).
MCLayout ==
  [exceptions |-> [vma |-> 32800, lma |-> 32800, size |-> 0],
   rodata     |-> [vma |-> 34616, lma |-> 34616, size |-> 320],
   rwdata     |-> [vma |-> 34936, lma |-> 35036, size |-> 100],
   bss        |-> [vma |-> 35136, lma |-> 35136, size |-> 16]]

=============================================================================
