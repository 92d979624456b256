------------------------------ MODULE Arranque ------------------------------
(***************************************************************************)
(* From reset to main and to the end: crt0.S, alt_load, alt_main,          *)
(* alt_irq_init, alt_sys_init, constructors and destructors, _exit.  A     *)
(* reset comes at any moment, and memory keeps what it holds: what the     *)
(* program changed must be set anew from the images the linker left.       *)
(***************************************************************************)
EXTENDS Integers, Sequences

CONSTANTS BtLayout,     \* section |-> [vma, lma, size], as the linker laid them out
          BtCtors,      \* entries of __CTOR_LIST__ and of __DTOR_LIST__
          BtOptions     \* sets of build options, of "direct", "no_cpp", "no_clean_exit", "no_exit"

ASSUME BtAssumption == /\ BtCtors \in Nat
                       /\ {"rwdata", "exceptions", "rodata", "bss"} \subseteq DOMAIN BtLayout

VARIABLES bt_at,       \* the place of the boot
          bt_with,     \* the options of this build
          bt_mem,      \* "fresh", "old" or "bad", for the image and the run copy of each section
          bt_irq,      \* [pie, ienable: lines enabled]
          bt_inits,    \* drivers initialised
          bt_ran       \* constructors, main and destructors run since the reset

btVars == <<bt_at, bt_with, bt_mem, bt_irq, bt_inits, bt_ran>>

BtLoaded == <<"rwdata", "exceptions", "rodata">>
BtDrivers == <<"timer_0", "jtag_uart_0", "spi_0", "sysid_qsys_0", "uart_0">>
BtLined == {"timer_0", "jtag_uart_0", "uart_0"}        \* those that register an interrupt
BtCopies == {"image", "run"} \X DOMAIN BtLayout

BtPlace(c) == LET s == BtLayout[c[2]] IN IF c[1] = "run" THEN s.vma ELSE s.lma
BtOverlap(c, d) ==
  LET sc == BtLayout[c[2]].size  sd == BtLayout[d[2]].size
  IN  sc > 0 /\ sd > 0 /\ BtPlace(c) < BtPlace(d) + sd /\ BtPlace(d) < BtPlace(c) + sc
BtSame(c, d) == BtPlace(c) = BtPlace(d) /\ c[2] = d[2]

(* Writing a copy damages whatever else lies in its place. *)
BtWrite(c, value) ==
  bt_mem' = [d \in BtCopies |->
               IF BtSame(c, d) THEN value ELSE IF BtOverlap(c, d) THEN "bad" ELSE bt_mem[d]]

BtGo(from, to) == bt_at = from /\ bt_at' = to

-----------------------------------------------------------------------------
(* crt0.S: the BSS is cleared first, then alt_load copies each section     *)
(* whose image is not where it runs.                                       *)

BtClearBss ==
  /\ BtGo(<<"_start">>, <<"alt_load", 1>>)
  /\ BtWrite(<<"run", "bss">>, "fresh")
  /\ UNCHANGED <<bt_with, bt_irq, bt_inits, bt_ran>>

alt_load_section(s) ==
  IF BtPlace(<<"run", s>>) = BtPlace(<<"image", s>>) THEN UNCHANGED bt_mem
  ELSE BtWrite(<<"run", s>>, bt_mem[<<"image", s>>])

alt_load ==
  /\ \E i \in DOMAIN BtLoaded :
       /\ BtGo(<<"alt_load", i>>, IF i < Len(BtLoaded) THEN <<"alt_load", i + 1>> ELSE <<"alt_main">>)
       /\ alt_load_section(BtLoaded[i])
  /\ UNCHANGED <<bt_with, bt_irq, bt_inits, bt_ran>>

(* alt_main: every line is disabled and then interrupts are enabled.       *)
alt_irq_init ==
  /\ BtGo(<<"alt_main">>, <<"alt_sys_init", 1>>)
  /\ bt_irq' = [pie |-> TRUE, ienable |-> {}]
  /\ UNCHANGED <<bt_with, bt_mem, bt_inits, bt_ran>>

alt_sys_init ==
  /\ \E i \in DOMAIN BtDrivers :
       /\ BtGo(<<"alt_sys_init", i>>, IF i < Len(BtDrivers) THEN <<"alt_sys_init", i + 1>> ELSE <<"streams">>)
       /\ bt_inits' = Append(bt_inits, BtDrivers[i])
       /\ bt_irq' = [bt_irq EXCEPT !.ienable = @ \cup ({BtDrivers[i]} \cap BtLined)]
  /\ UNCHANGED <<bt_with, bt_mem, bt_ran>>

BtStreams ==
  /\ BtGo(<<"streams">>, IF "no_cpp" \in bt_with \/ BtCtors = 0 THEN <<"main">> ELSE <<"_do_ctors", BtCtors>>)
  /\ bt_ran' = IF "direct" \in bt_with THEN bt_ran ELSE Append(bt_ran, <<"alt_io_redirect">>)
  /\ UNCHANGED <<bt_with, bt_mem, bt_irq, bt_inits>>

(* Both lists are run from their last entry to their first.                *)
BtList(name, next) ==
  /\ \E i \in 1 .. BtCtors : /\ BtGo(<<name, i>>, IF i > 1 THEN <<name, i - 1>> ELSE next)
                             /\ bt_ran' = Append(bt_ran, <<name, i>>)
  /\ UNCHANGED <<bt_with, bt_mem, bt_irq, bt_inits>>

_do_ctors == BtList("_do_ctors", <<"main">>)

(* main changes its data; it returns or it does not. What is entered with  *)
(* atexit runs in exit.                                                    *)
BtMain ==
  /\ bt_at = <<"main">>
  /\ bt_mem' = [bt_mem EXCEPT ![<<"run", "rwdata">>] = "old", ![<<"run", "bss">>] = "old"]
  /\ bt_at' \in {<<"main">>,
       IF "no_exit" \in bt_with THEN <<"crt0_loop">>
       ELSE IF {"no_cpp", "no_clean_exit"} \cap bt_with # {} \/ BtCtors = 0 THEN <<"_exit">>
       ELSE <<"_do_dtors", BtCtors>>}
  /\ bt_ran' = IF bt_at' = <<"main">> THEN bt_ran
               ELSE bt_ran \o (IF "no_exit" \in bt_with THEN <<>> ELSE << <<"close">> >>)
  /\ UNCHANGED <<bt_with, bt_irq, bt_inits>>

_do_dtors == BtList("_do_dtors", <<"_exit">>)

ALT_EXIT ==
  /\ BtGo(<<"_exit">>, <<"spin">>)
  /\ UNCHANGED <<bt_with, bt_mem, bt_irq, bt_inits, bt_ran>>

(* KEY 0. The registers of the processor are reset, memory is not.         *)
BtReset ==
  /\ bt_at' = <<"_start">> /\ bt_irq' = [pie |-> FALSE, ienable |-> {}]
  /\ bt_inits' = <<>> /\ bt_ran' = <<>>
  /\ UNCHANGED <<bt_with, bt_mem>>

(* The first start, after the board is configured.                         *)
BtInit ==
  /\ bt_at = <<"_start">> /\ bt_with \in BtOptions
  /\ bt_mem = [c \in BtCopies |-> IF c[1] = "image" \/ BtPlace(c) = BtPlace(<<"image", c[2]>>)
                                  THEN "fresh" ELSE "bad"]
  /\ bt_irq = [pie |-> FALSE, ienable |-> {}] /\ bt_inits = <<>> /\ bt_ran = <<>>

BtNext ==
  \/ BtClearBss \/ alt_load \/ alt_irq_init \/ alt_sys_init \/ BtStreams
  \/ _do_ctors \/ BtMain \/ _do_dtors \/ ALT_EXIT \/ BtReset

BtSpec == BtInit /\ [][BtNext]_btVars

-----------------------------------------------------------------------------
(* Interrupts are open only from alt_irq_init on, and only on lines whose  *)
(* driver is initialised.                                                  *)
BtTypeOK ==
  /\ \A c \in BtCopies : bt_mem[c] \in {"fresh", "old", "bad"}
  /\ bt_irq.ienable \subseteq {bt_inits[i] : i \in DOMAIN bt_inits} \cap BtLined
  /\ bt_irq.ienable # {} => bt_irq.pie

(* From alt_load on until main begins, after whatever resets in the middle of whatever   *)
(* step, every section has the values it was compiled with and the images  *)
(* are intact: clearing the BSS and copying damage neither each other nor  *)
(* the images, and nothing of the run before is left.                      *)
StartsAfresh ==
  bt_at[1] \in {"alt_main", "alt_sys_init", "streams", "_do_ctors"}
     => \A s \in DOMAIN BtLayout :
          bt_mem[<<"run", s>>] = "fresh" /\ (s # "bss" => bt_mem[<<"image", s>>] = "fresh")

(* What was constructed before main is destroyed after it, each entry      *)
(* once, in the same order the code has for both, last entry first, and    *)
(* never without it; the standard output is closed first.                  *)
BtTurns(name) == {i \in DOMAIN bt_ran : bt_ran[i][1] = name}
BtEntries(name) == {bt_ran[i][2] : i \in BtTurns(name)}
BtLastFirst(name) == \A i, j \in BtTurns(name) : i < j => bt_ran[i][2] > bt_ran[j][2]
DestroysAsConstructed ==
  bt_at = <<"spin">> =>
    /\ <<"close">> \in {bt_ran[i] : i \in DOMAIN bt_ran}
    /\ BtLastFirst("_do_ctors") /\ BtLastFirst("_do_dtors")
    /\ BtEntries("_do_dtors") # {} => BtEntries("_do_dtors") = BtEntries("_do_ctors")
    /\ BtEntries("_do_ctors") # {} /\ "no_clean_exit" \notin bt_with =>
         BtEntries("_do_ctors") = 1 .. BtCtors /\ BtEntries("_do_dtors") = 1 .. BtCtors
=============================================================================
