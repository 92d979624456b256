------------------------------- MODULE Cache -------------------------------
(***************************************************************************)
(* The cache operations of the board support package (in HAL/src: dcache,  *)
(* icache, uncached and remap), on a Nios II with caches and the bypass    *)
(* bit; on one without, as this board's, all are empty.                    *)
(*                                                                         *)
(* Of a byte only the age of its copies is kept: whether memory, and the   *)
(* cache if it holds the line, have what the program stored last.          *)
(***************************************************************************)
EXTENDS Integers

CONSTANTS CcBytes,      \* bytes of memory that hold data
          CcText,       \* bytes of memory that hold instructions
          CcLine,       \* NIOS2_DCACHE_LINE_SIZE and NIOS2_ICACHE_LINE_SIZE
          CcICache      \* NIOS2_ICACHE_SIZE

ASSUME CcAssumption ==
  /\ CcLine \in {2, 4, 8, 16, 32}
  /\ CcBytes \in Nat \ {0} /\ CcBytes % CcLine = 0
  /\ CcText \in Nat \ {0}
  /\ CcICache \in Nat \ {0} /\ CcICache % CcLine = 0

VARIABLES cc_mem,      \* bytes of which memory has the last value
          cc_cached,   \* lines the data cache holds
          cc_fresh,    \* bytes of which the data cache has the last value
          cc_dirty,    \* lines of the data cache to be written back
          cc_blocks,   \* blocks of the program: [from, to, uncached]; used bytes are from..to-1
          cc_flushed,  \* history: bytes flushed and not stored to since
          cc_code      \* history: <<places of the instruction cache whose lines were stored
                       \* to, those of them that still hold an old line>>

ccVars == <<cc_mem, cc_cached, cc_fresh, cc_dirty, cc_blocks, cc_flushed, cc_code>>

CcLineOf(b) == b \div CcLine
CcIn(lines) == {b \in 0 .. CcBytes - 1 : CcLineOf(b) \in lines}
CcRange(block) == block.from .. block.to - 1

-----------------------------------------------------------------------------
(* The loop all flushes share: from start to end in steps of a line, and   *)
(* one more line if start is not aligned.                                  *)
CcTouched(start, len) ==
  LET steps == {k \in 0 .. len : k * CcLine < len}
      i(k)  == start + k * CcLine
      past  == CHOOSE k \in 0 .. len : k \notin steps /\ \A j \in 0 .. k - 1 : j \in steps
  IN  {CcLineOf(i(k)) : k \in steps}
        \cup (IF start % CcLine # 0 THEN {CcLineOf(i(past))} ELSE {})

(* A line leaves the data cache, written back if it is dirty.              *)
CcWriteBack(lines) ==
  LET back == CcIn(lines \cap cc_dirty)
  IN  /\ cc_mem' = (cc_mem \ back) \cup (cc_fresh \cap back)
      /\ cc_cached' = cc_cached \ lines /\ cc_dirty' = cc_dirty \ lines
      /\ cc_fresh' = cc_fresh \ CcIn(lines)

alt_dcache_flush(start, len) == CcWriteBack(CcTouched(start, len))
alt_dcache_flush_all == CcWriteBack(0 .. CcLineOf(CcBytes - 1))

(* initda: the lines are dropped as they are. What memory holds becomes    *)
(* what the program last stored.                                           *)
alt_dcache_flush_no_writeback(start, len) ==
  LET lines == CcTouched(start, len)
  IN  /\ cc_mem' = cc_mem \cup start .. start + len - 1
      /\ cc_cached' = cc_cached \ lines /\ cc_dirty' = cc_dirty \ lines
      /\ cc_fresh' = cc_fresh \ CcIn(lines)

(* flushi ignores the tag: a length of the whole cache reaches every line. *)
alt_icache_flush(start, len) ==
  {l % (CcICache \div CcLine) : l \in CcTouched(start, IF len > CcICache THEN CcICache ELSE len)}

-----------------------------------------------------------------------------
(* The program.                                                            *)

CcUsed == UNION {CcRange(bl) : bl \in cc_blocks}
CcFree(from, to) == to <= CcBytes /\ \A b \in from .. to - 1 : b \notin CcUsed

CcMalloc ==
  /\ \E from \in 0 .. CcBytes - 1, size \in 1 .. CcLine + 1 :
       /\ CcFree(from, from + size)
       /\ cc_blocks' = cc_blocks \cup {[from |-> from, to |-> from + size, uncached |-> FALSE]}
  /\ UNCHANGED <<cc_mem, cc_cached, cc_fresh, cc_dirty, cc_flushed, cc_code>>

(* Rounded up to whole lines, aligned to a line, and flushed.              *)
alt_uncached_malloc ==
  /\ \E line \in 0 .. CcLineOf(CcBytes - 1), size \in 1 .. CcLine + 1 :
       LET from    == line * CcLine
           aligned == ((size + CcLine - 1) \div CcLine) * CcLine
       IN  /\ CcFree(from, from + aligned)
           /\ cc_blocks' = cc_blocks \cup {[from |-> from, to |-> from + aligned, uncached |-> TRUE]}
           /\ alt_dcache_flush(from, aligned)
  /\ UNCHANGED <<cc_flushed, cc_code>>

(* free, alt_uncached_free: the bypass bit is cleared and free called.     *)
CcRelease ==
  /\ \E bl \in cc_blocks : cc_blocks' = cc_blocks \ {bl}
  /\ UNCHANGED <<cc_mem, cc_cached, cc_fresh, cc_dirty, cc_flushed, cc_code>>

(* alt_remap_cached: the same block, from now on without the bypass bit.   *)
alt_remap_cached ==
  /\ \E bl \in cc_blocks :
       bl.uncached /\ cc_blocks' = (cc_blocks \ {bl}) \cup {[bl EXCEPT !.uncached = FALSE]}
  /\ UNCHANGED <<cc_mem, cc_cached, cc_fresh, cc_dirty, cc_flushed, cc_code>>

(* A store; a cached one brings its line in first.                         *)
CcStore ==
  /\ \E bl \in cc_blocks : \E b \in CcRange(bl) :
       LET l     == CcLineOf(b)
           there == IF l \in cc_cached THEN cc_fresh \cap CcIn({l}) ELSE cc_mem \cap CcIn({l})
       IN  /\ cc_flushed' = cc_flushed \ {b}
           /\ IF bl.uncached
              THEN /\ cc_mem' = cc_mem \cup {b} /\ cc_fresh' = cc_fresh \ {b}
                   /\ UNCHANGED <<cc_cached, cc_dirty>>
              ELSE /\ cc_mem' = cc_mem \ {b}
                   /\ cc_fresh' = (cc_fresh \ CcIn({l})) \cup there \cup {b}
                   /\ cc_cached' = cc_cached \cup {l} /\ cc_dirty' = cc_dirty \cup {l}
  /\ UNCHANGED <<cc_blocks, cc_code>>

(* The cache takes a line, or gives one up, when it likes.                 *)
CcFill ==
  /\ \E l \in 0 .. CcLineOf(CcBytes - 1) :
       /\ l \notin cc_cached /\ \E bl \in cc_blocks : ~bl.uncached /\ CcRange(bl) \cap CcIn({l}) # {}
       /\ cc_cached' = cc_cached \cup {l}
       /\ cc_fresh' = cc_fresh \cup (cc_mem \cap CcIn({l}))
  /\ UNCHANGED <<cc_mem, cc_dirty, cc_blocks, cc_flushed, cc_code>>

CcEvict ==
  /\ \E l \in cc_cached : CcWriteBack({l})
  /\ UNCHANGED <<cc_blocks, cc_flushed, cc_code>>

CcFlush ==
  /\ \/ \E bl \in cc_blocks : /\ alt_dcache_flush(bl.from, bl.to - bl.from)
                              /\ cc_flushed' = cc_flushed \cup CcRange(bl)
     \/ alt_dcache_flush_all /\ cc_flushed' = CcUsed
  /\ UNCHANGED <<cc_blocks, cc_code>>

(* Only for blocks of whole lines: see the README for the others.          *)
CcDiscard ==
  /\ \E bl \in cc_blocks :
       /\ bl.from % CcLine = 0 /\ bl.to % CcLine = 0
       /\ alt_dcache_flush_no_writeback(bl.from, bl.to - bl.from)
  /\ UNCHANGED <<cc_blocks, cc_flushed, cc_code>>

(* Instructions are stored, then flushed: every line that was stored to    *)
(* has its place in the instruction cache emptied.                         *)
CcCode ==
  /\ \E start \in 0 .. CcText - 1, len \in 1 .. CcText :
       /\ start + len <= CcText
       /\ LET stored == {CcLineOf(b) % (CcICache \div CcLine) : b \in start .. start + len - 1}
          IN  cc_code' = <<stored, stored \ alt_icache_flush(start, len)>>
  /\ UNCHANGED <<cc_mem, cc_cached, cc_fresh, cc_dirty, cc_blocks, cc_flushed>>

CcInit ==
  /\ cc_mem = 0 .. CcBytes - 1 /\ cc_cached = {} /\ cc_fresh = {} /\ cc_dirty = {}
  /\ cc_blocks = {} /\ cc_flushed = {} /\ cc_code = <<{}, {}>>

CcNext ==
  \/ CcMalloc \/ alt_uncached_malloc \/ CcRelease \/ alt_remap_cached
  \/ CcStore \/ CcFill \/ CcEvict \/ CcFlush \/ CcDiscard
  \/ cc_blocks = {} /\ CcCode

CcSpec == CcInit /\ [][CcNext]_ccVars

-----------------------------------------------------------------------------
(* Dirty lines are in the cache, and blocks do not overlap.                *)
CcTypeOK ==
  /\ cc_dirty \subseteq cc_cached /\ cc_fresh \subseteq CcIn(cc_cached)
  /\ cc_mem \subseteq 0 .. CcBytes - 1 /\ CcUsed \subseteq 0 .. CcBytes - 1

(* Whichever way a block is accessed, through the cache or around it, a    *)
(* read returns what was stored last, however lines come and go and        *)
(* whatever lies beside it: the rounding and alignment of                  *)
(* alt_uncached_malloc, and the flush that goes before.                    *)
ReadsLastStore ==
  \A bl \in cc_blocks : \A b \in CcRange(bl) :
    IF bl.uncached THEN b \in cc_mem
    ELSE IF CcLineOf(b) \in cc_cached THEN b \in cc_fresh ELSE b \in cc_mem

(* What was flushed and not stored to since is in memory, every byte of    *)
(* it, wherever the block starts and ends.                                 *)
FlushReachesMemory == cc_flushed \cap CcUsed \subseteq cc_mem

(* After alt_icache_flush no line of the region is left stale, also when   *)
(* the region is larger than the cache.                                    *)
CodeIsFetched == cc_code[2] = {}
=============================================================================
