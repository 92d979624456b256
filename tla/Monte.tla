------------------------------- MODULE Monte -------------------------------
(***************************************************************************)
(* The heap and the stack limit: ALT_SBRK (HAL/src/alt_sbrk.c) with the    *)
(* inlines of HAL/inc/sys/alt_stack.h, against a program whose stack grows *)
(* down towards the heap. Built with ALT_STACK_CHECK, and then with        *)
(* ALT_EXCEPTION_STACK too, so that exceptions switch stacks and may call  *)
(* sbrk; or without both, as public.mk:242-247 leaves this program.        *)
(* Addresses are bytes; the exception stack lies above the memory.         *)
(***************************************************************************)
EXTENDS Integers

CONSTANTS HpLimit,       \* __alt_heap_limit; the stack starts there
          HpIncrements,  \* what sbrk is called with
          HpWord         \* alignment: 4 bytes in the code

ASSUME HpAssumption == HpLimit \in Nat /\ HpIncrements \subseteq Nat /\ HpWord \in Nat \ {0}

VARIABLES hp_check,    \* whether it is built with ALT_STACK_CHECK
          heap_end,    \* heap_end of sbrk
          hp_et,       \* the stack limit register
          hp_old,      \* alt_exception_old_stack_limit; HpNull outside of exceptions
          hp_sp,       \* the stack pointer of the program
          hp_stop,     \* "none", or why alt_report_stack_overflow was called
          hp_blocks    \* history: what sbrk returned, <<first, size>>

hpVars == <<hp_check, heap_end, hp_et, hp_old, hp_sp, hp_stop, hp_blocks>>

HpNull == -1
HpException == hp_old # HpNull
HpExceptionLimit == HpLimit + 1       \* __alt_exception_stack_limit
HpRoundUp(a) == ((a + HpWord - 1) \div HpWord) * HpWord
HpPointer == IF HpException THEN HpExceptionLimit + HpWord ELSE hp_sp

(* The whole of sbrk runs with interrupts disabled. A limit that was at     *)
(* the heap's end moves along with it.                                      *)
ALT_SBRK_NoCheck(incr) ==
  LET start == HpRoundUp(heap_end)
      end   == start + incr
  IN  IF end > HpLimit THEN heap_end' = start /\ UNCHANGED <<hp_et, hp_old, hp_stop, hp_blocks>>
      ELSE /\ heap_end' = end
           /\ hp_blocks' = hp_blocks \cup {<<start, incr>>}
           /\ hp_et' = IF hp_check /\ hp_et = start THEN end ELSE hp_et
           /\ hp_old' = IF hp_check /\ hp_old = start THEN end ELSE hp_old
           /\ hp_stop' = IF hp_check /\ hp_old = start /\ hp_old <= end THEN "old_limit" ELSE "none"
ALT_SBRK(incr) ==
  LET start    == HpRoundUp(heap_end)
      end      == start + incr
      at(limit) == hp_check /\ limit = start
  IN  IF end > HpLimit THEN heap_end' = start /\ UNCHANGED <<hp_et, hp_old, hp_stop, hp_blocks>>
      ELSE /\ heap_end' = end
           /\ hp_blocks' = hp_blocks \cup {<<start, incr>>}
           /\ hp_et' = IF at(hp_et) THEN end ELSE hp_et
           /\ hp_old' = IF at(hp_old) THEN end ELSE hp_old
           /\ hp_stop' = IF at(hp_et) /\ HpPointer <= end THEN "stack"
                         ELSE IF at(hp_old) /\ hp_old <= end THEN "old_limit" ELSE "none"

HpGrow == (\E incr \in HpIncrements : ALT_SBRK(incr)) /\ UNCHANGED <<hp_check, hp_sp>>

(* The program calls and returns; with -fstack-limit-register=et what the  *)
(* compiler inserts compares the new stack pointer with et and reports an  *)
(* overflow below it.                                                      *)
HpPush ==
  /\ ~HpException /\ hp_sp > 0
  /\ hp_sp' = hp_sp - HpWord
  /\ hp_stop' = IF hp_check /\ hp_sp' < hp_et THEN "stack" ELSE "none"
  /\ UNCHANGED <<hp_check, heap_end, hp_et, hp_old, hp_blocks>>

HpPop ==
  /\ ~HpException /\ hp_sp < HpLimit
  /\ hp_sp' = hp_sp + HpWord
  /\ UNCHANGED <<hp_check, heap_end, hp_et, hp_old, hp_stop, hp_blocks>>

(* An exception saves the limit and takes that of its own stack; its end   *)
(* restores it. Without the check there is no limit to save.               *)
HpEnter ==
  /\ hp_check /\ ~HpException
  /\ hp_old' = hp_et /\ hp_et' = HpExceptionLimit
  /\ UNCHANGED <<hp_check, heap_end, hp_sp, hp_stop, hp_blocks>>

HpLeave ==
  /\ HpException
  /\ hp_et' = hp_old /\ hp_old' = HpNull
  /\ UNCHANGED <<hp_check, heap_end, hp_sp, hp_stop, hp_blocks>>

HpInit ==
  /\ hp_check \in BOOLEAN
  /\ heap_end = 0 /\ hp_et = 0 /\ hp_old = HpNull /\ hp_sp = HpLimit
  /\ hp_stop = "none" /\ hp_blocks = {}

HpNext == hp_stop = "none" /\ (HpGrow \/ HpPush \/ HpPop \/ HpEnter \/ HpLeave)

HpSpec == HpInit /\ [][HpNext]_hpVars

-----------------------------------------------------------------------------
(* The heap stays between its start and its limit.                         *)
HpTypeOK ==
  /\ hp_check \in BOOLEAN
  /\ heap_end \in 0 .. HpRoundUp(HpLimit) /\ hp_sp \in -HpWord .. HpLimit

(* The blocks sbrk gave out are aligned, within the memory of the heap, and *)
(* never overlap; with ALT_STACK_CHECK, as long as no overflow was reported *)
(* none of them reaches into the live stack, whatever exceptions came and   *)
(* went meanwhile. Without it nothing keeps the stack out of the heap.      *)
HeapApartFromStack ==
  /\ \A x \in hp_blocks : x[1] % HpWord = 0 /\ x[1] + x[2] <= HpLimit
  /\ \A x, y \in hp_blocks : x # y /\ x[2] > 0 /\ y[2] > 0 =>
                               x[1] + x[2] <= y[1] \/ y[1] + y[2] <= x[1]
  /\ hp_check /\ hp_stop = "none" => \A x \in hp_blocks : x[1] + x[2] <= hp_sp

(* The limit follows the heap: alt_sbrk.c:103, "If we are still using the   *)
(* default stack then adjust the stack limit to note this".                *)
LimitFollowsHeap == hp_check /\ hp_stop = "none" /\ ~HpException => hp_et = heap_end

(* An overflow is reported only where the stack has met the heap:          *)
(* alt_sbrk.c:117, "If we are executing from the exception stack then      *)
(* compare against the stack we switched away from as well".               *)
OverflowMeansOverflow == hp_stop # "none" => hp_sp <= heap_end

(* "This simple implementation does not perform any bounds checking. Memory *)
(* will be allocated, even if the request region colides with the stack or  *)
(* overflows the available physical memory" (alt_sbrk.c:46-48): a request   *)
(* extends the heap. Line 88 refuses one beyond __alt_heap_limit.           *)
NeverRefuses ==
  [][\A incr \in HpIncrements : ALT_SBRK(incr) => heap_end' = HpRoundUp(heap_end) + incr]_hpVars
=============================================================================
