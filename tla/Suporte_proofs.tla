--------------------------- MODULE Suporte_proofs ---------------------------
(* The board support package below the program: the cache and the memory     *)
(* behind it agree, heap and stack stay apart, the program starts with its   *)
(* sections as they were compiled and ends as it began, the descriptors are  *)
(* of what was opened, the log keeps its lines, what is printed is the       *)
(* number given, and written, and the profile counts every call.             *)
EXTENDS Cache, Monte, Arranque, Descritores, Registro, Impressao, Perfil, SequenceTheorems, FiniteSetTheorems, WellFoundedInduction, TLAPS

-----------------------------------------------------------------------------
(* The cache (alt_dcache_flush.c, alt_icache_flush.c, alt_uncached_malloc.c *)
(* and alt_remap_cached.c).                                                *)

LineSizes == {2, 4, 8, 16, 32}

\* A line by its first and last byte.
LEMMA LineOfByte ==
  ASSUME NEW L \in LineSizes, NEW b \in Nat
  PROVE  /\ b \div L \in Nat /\ b % L \in 0..(L - 1)
         /\ (b \div L) * L <= b /\ b < (b \div L) * L + L /\ (b % L = 0 => b = (b \div L) * L)
<1>1. CASE L = 2
  BY <1>1
<1>2. CASE L = 4
  BY <1>2
<1>3. CASE L = 8
  BY <1>3
<1>4. CASE L = 16
  BY <1>4
<1>5. CASE L = 32
  BY <1>5
<1> QED
  BY <1>1, <1>2, <1>3, <1>4, <1>5 DEF LineSizes

\* So many lines on.
LEMMA LinesOn ==
  ASSUME NEW L \in LineSizes, NEW a \in Nat, NEW k \in Nat
  PROVE  /\ k * L \in Nat /\ (a + k * L) \div L = a \div L + k /\ (k + 1) * L = k * L + L
         /\ (k * L) % L = 0 /\ k <= k * L
<1>1. CASE L = 2
  BY <1>1
<1>2. CASE L = 4
  BY <1>2
<1>3. CASE L = 8
  BY <1>3
<1>4. CASE L = 16
  BY <1>4
<1>5. CASE L = 32
  BY <1>5
<1> QED
  BY <1>1, <1>2, <1>3, <1>4, <1>5 DEF LineSizes

\* A byte some way on lies in the line so many on, or in the next.
LEMMA Carry ==
  ASSUME NEW L \in LineSizes, NEW a \in Nat, NEW d \in Nat, NEW p \in Nat, NEW q \in Nat, NEW s \in Nat,
         p * L <= a, a < p * L + L, q * L <= d, d < q * L + L, s * L <= a + d, a + d < s * L + L
  PROVE  s = p + q \/ (s = p + q + 1 /\ a # p * L)
<1>1. CASE L = 2
  BY <1>1
<1>2. CASE L = 4
  BY <1>2
<1>3. CASE L = 8
  BY <1>3
<1>4. CASE L = 16
  BY <1>4
<1>5. CASE L = 32
  BY <1>5
<1> QED
  BY <1>1, <1>2, <1>3, <1>4, <1>5 DEF LineSizes

\* The sum of an address and a length lies in the line of their quotients' sum, or in
\* the next if the address is not aligned; the quotients are by a constant, so that
\* the solver finds them.
LEMMA ByteOn ==
  ASSUME NEW L \in LineSizes, NEW a \in Nat, NEW d \in Nat
  PROVE  \/ (a + d) \div L = a \div L + d \div L
         \/ (a + d) \div L = a \div L + d \div L + 1 /\ a % L # 0
<1>1. PICK p \in Nat : p = a \div L /\ p * L <= a /\ a < p * L + L
  BY LineOfByte
<1>2. PICK q \in Nat : q = d \div L /\ q * L <= d /\ d < q * L + L
  BY LineOfByte
<1>3. PICK e \in Nat : e = a + d
  OBVIOUS
<1>4. PICK s \in Nat : s = e \div L /\ s * L <= e /\ e < s * L + L
  BY LineOfByte
<1>5. s = p + q \/ (s = p + q + 1 /\ a # p * L)
  <2>1. /\ p * L <= a /\ a < p * L + L /\ q * L <= d /\ d < q * L + L
        /\ s * L <= a + d /\ a + d < s * L + L
    BY <1>1, <1>2, <1>3, <1>4
  <2> QED
    BY <2>1, Carry
<1>6. s = p + q \/ (s = p + q + 1 /\ a % L # 0)
  <2>1. a % L = 0 => a = p * L
    BY <1>1, LineOfByte
  <2> QED
    BY <1>5, <2>1
<1> QED
  BY <1>1, <1>2, <1>3, <1>4, <1>6

\* What lies in a run of whole lines with some byte lies there with all of its line.
LEMMA WholeRun ==
  ASSUME NEW L \in LineSizes, NEW p \in Nat, NEW q \in Nat, NEW l \in Nat, NEW b \in Nat, NEW c \in Nat,
         p * L <= b, b < q * L, l * L <= b, b < l * L + L, l * L <= c, c < l * L + L
  PROVE  p * L <= c /\ c < q * L
<1>1. CASE L = 2
  BY <1>1
<1>2. CASE L = 4
  BY <1>2
<1>3. CASE L = 8
  BY <1>3
<1>4. CASE L = 16
  BY <1>4
<1>5. CASE L = 32
  BY <1>5
<1> QED
  BY <1>1, <1>2, <1>3, <1>4, <1>5 DEF LineSizes

OnLine(b) == b % CcLine = 0
LineTurn(k) == k * CcLine

\* What the proofs use of the division into lines, with the quotient and the rest out
\* of sight (alt_dcache_flush.c:50-67).
LEMMA LineFacts ==
  /\ CcLine \in LineSizes /\ CcLine \in Nat \ {0}
  /\ \A b \in Nat : CcLineOf(b) \in Nat
  /\ \A k \in Nat : LineTurn(k) \in Nat /\ k <= LineTurn(k) /\ OnLine(LineTurn(k))
  /\ \A j, k \in Nat : j <= k => LineTurn(j) <= LineTurn(k)
  /\ \A a, k \in Nat : CcLineOf(a + LineTurn(k)) = CcLineOf(a) + k
  /\ \A a, d \in Nat : \/ CcLineOf(a + d) = CcLineOf(a) + CcLineOf(d)
                       \/ CcLineOf(a + d) = CcLineOf(a) + CcLineOf(d) + 1 /\ ~OnLine(a)
  /\ \A d \in Nat : LineTurn(CcLineOf(d)) <= d
<1>1. CcLine \in LineSizes
  BY CcAssumption DEF LineSizes
<1>2. CcLine \in Nat \ {0}
  BY <1>1 DEF LineSizes
<1>3. \A b \in Nat : CcLineOf(b) \in Nat /\ LineTurn(CcLineOf(b)) <= b
  BY <1>1, LineOfByte DEF CcLineOf, LineTurn
<1>4. \A k \in Nat : LineTurn(k) \in Nat /\ k <= LineTurn(k) /\ OnLine(LineTurn(k))
  BY <1>1, LinesOn DEF OnLine, LineTurn
<1>5. \A a, k \in Nat : CcLineOf(a + LineTurn(k)) = CcLineOf(a) + k
  BY <1>1, LinesOn DEF CcLineOf, LineTurn
<1>6. \A a, d \in Nat : \/ CcLineOf(a + d) = CcLineOf(a) + CcLineOf(d)
                        \/ CcLineOf(a + d) = CcLineOf(a) + CcLineOf(d) + 1 /\ ~OnLine(a)
  <2> SUFFICES ASSUME NEW a \in Nat, NEW d \in Nat
               PROVE  \/ CcLineOf(a + d) = CcLineOf(a) + CcLineOf(d)
                      \/ CcLineOf(a + d) = CcLineOf(a) + CcLineOf(d) + 1 /\ ~OnLine(a)
    OBVIOUS
  <2>1. \/ (a + d) \div CcLine = a \div CcLine + d \div CcLine
        \/ (a + d) \div CcLine = a \div CcLine + d \div CcLine + 1 /\ a % CcLine # 0
    BY <1>1, ByteOn
  <2> QED
    BY <2>1, Zenon DEF CcLineOf, OnLine
<1>7. \A j, k \in Nat : j <= k => LineTurn(j) <= LineTurn(k)
  <2>1. \A j, k, c \in Nat : j <= k => j * c <= k * c
    OBVIOUS
  <2> QED
    BY <1>2, <2>1 DEF LineTurn
<1> QED
  BY <1>1, <1>2, <1>3, <1>4, <1>5, <1>6, <1>7

\* A region that begins and ends on a line holds all of a line if it holds a byte of
\* it (alt_dcache_flush_no_writeback.c:49-71).
LEMMA WholeLines ==
  ASSUME NEW from \in Nat, NEW to \in Nat, OnLine(from), OnLine(to),
         NEW b \in from .. to - 1, NEW c \in Nat, CcLineOf(c) = CcLineOf(b)
  PROVE  c \in from .. to - 1
<1>0. CcLine \in LineSizes /\ b \in Nat
  BY LineFacts
<1>1. PICK p \in Nat : from = p * CcLine
  BY <1>0, LineOfByte DEF OnLine
<1>2. PICK q \in Nat : to = q * CcLine
  BY <1>0, LineOfByte DEF OnLine
<1>3. PICK l \in Nat : l = CcLineOf(b)
  BY <1>0, LineOfByte DEF CcLineOf
<1>4. /\ l * CcLine <= b /\ b < l * CcLine + CcLine
      /\ l * CcLine <= c /\ c < l * CcLine + CcLine
  BY <1>0, <1>3, LineOfByte DEF CcLineOf
<1>5. p * CcLine <= b /\ b < q * CcLine
  BY <1>1, <1>2
<1>6. p * CcLine <= c /\ c < q * CcLine
  BY <1>0, <1>4, <1>5, WholeRun
<1> QED
  BY <1>1, <1>2, <1>6

-----------------------------------------------------------------------------
\* The loop of a flush, by its turns: the first that is not made is past.
LEMMA TouchedTurns ==
  ASSUME NEW start \in Nat, NEW len \in Nat
  PROVE  /\ \A k \in Nat : LineTurn(k) < len => CcLineOf(start) + k \in CcTouched(start, len)
         /\ \A k \in Nat :
              ~OnLine(start) /\ ~(LineTurn(k) < len) /\ (\A j \in 0..(k - 1) : LineTurn(j) < len)
                => CcLineOf(start) + k \in CcTouched(start, len)
         /\ \A l \in CcTouched(start, len) :
              OnLine(start) => \E k \in Nat : LineTurn(k) < len /\ l = CcLineOf(start) + k
<1> DEFINE steps == {k \in 0..len : LineTurn(k) < len}
           past == CHOOSE k \in 0..len : k \notin steps /\ \A j \in 0..(k - 1) : j \in steps
<1>1. CcTouched(start, len) =
        {CcLineOf(start + LineTurn(k)) : k \in steps}
          \cup (IF ~OnLine(start) THEN {CcLineOf(start + LineTurn(past))} ELSE {})
  BY DEF CcTouched, OnLine, LineTurn
<1>2. \A k \in Nat : LineTurn(k) < len => k \in steps
  BY LineFacts
<1>3. ASSUME NEW k \in Nat, \A j \in 0..(k - 1) : LineTurn(j) < len, ~(LineTurn(k) < len)
      PROVE  past = k
  <2>1. k \in 0..len
    <3>1. k = 0 \/ LineTurn(k - 1) < len
      BY <1>3
    <3>2. k # 0 => k - 1 \in Nat /\ k - 1 <= LineTurn(k - 1)
      BY LineFacts
    <3>3. k # 0 => LineTurn(k - 1) \in Nat
      BY <3>2, LineFacts
    <3> QED
      BY <3>1, <3>2, <3>3
  <2>2. k \notin steps /\ \A j \in 0..(k - 1) : j \in steps
    BY <1>2, <1>3
  <2>3. past \in 0..len /\ past \notin steps /\ \A j \in 0..(past - 1) : j \in steps
    BY <2>1, <2>2
  <2> HIDE DEF past, steps
  <2>4. ~(past < k) /\ ~(k < past)
    BY <2>1, <2>2, <2>3
  <2> QED
    BY <2>1, <2>3, <2>4
<1> HIDE DEF past
<1>4. \A k \in Nat : LineTurn(k) < len => CcLineOf(start) + k \in CcTouched(start, len)
  BY <1>1, <1>2, LineFacts
<1>5. \A k \in Nat :
        ~OnLine(start) /\ ~(LineTurn(k) < len) /\ (\A j \in 0..(k - 1) : LineTurn(j) < len)
          => CcLineOf(start) + k \in CcTouched(start, len)
  BY <1>1, <1>3, LineFacts
<1>6. \A l \in CcTouched(start, len) :
        OnLine(start) => \E k \in Nat : LineTurn(k) < len /\ l = CcLineOf(start) + k
  BY <1>1, LineFacts
<1> QED
  BY <1>4, <1>5, <1>6

\* Every byte of the region has its line flushed, wherever the region begins and ends.
LEMMA TouchedCovers ==
  ASSUME NEW start \in Nat, NEW len \in Nat, NEW b \in start .. start + len - 1
  PROVE  CcLineOf(b) \in CcTouched(start, len)
<1>1. PICK d \in Nat : b = start + d /\ d < len
  <2>1. b - start \in Nat /\ b = start + (b - start) /\ b - start < len
    OBVIOUS
  <2> QED
    BY <2>1
<1>2. PICK q \in Nat : q = CcLineOf(d) /\ LineTurn(q) <= d
  BY LineFacts
<1>3. LineTurn(q) < len
  BY <1>1, <1>2, LineFacts
<1>4. CASE CcLineOf(b) = CcLineOf(start) + q
  BY <1>3, <1>4, TouchedTurns
<1>5. CASE CcLineOf(b) = CcLineOf(start) + q + 1 /\ ~OnLine(start)
  <2>1. CASE LineTurn(q + 1) < len
    <3>1. CcLineOf(start) + (q + 1) \in CcTouched(start, len)
      BY <2>1, TouchedTurns
    <3>2. CcLineOf(start) + (q + 1) = CcLineOf(start) + q + 1
      BY LineFacts
    <3> QED
      BY <1>5, <3>1, <3>2
  <2>2. CASE ~(LineTurn(q + 1) < len)
    <3>1. \A j \in 0..((q + 1) - 1) : LineTurn(j) < len
      <4> SUFFICES ASSUME NEW j \in 0..q
                   PROVE  LineTurn(j) < len
        OBVIOUS
      <4>1. LineTurn(j) <= LineTurn(q)
        BY LineFacts
      <4> QED
        BY <1>3, <4>1, LineFacts
    <3>2. CcLineOf(start) + (q + 1) \in CcTouched(start, len)
      BY <1>5, <2>2, <3>1, TouchedTurns
    <3>3. CcLineOf(start) + (q + 1) = CcLineOf(start) + q + 1
      BY LineFacts
    <3> QED
      BY <1>5, <3>2, <3>3
  <2> QED
    BY <2>1, <2>2
<1> QED
  BY <1>1, <1>2, <1>4, <1>5, LineFacts

\* Of a region of whole lines nothing else is flushed.
LEMMA TouchedWhole ==
  ASSUME NEW from \in Nat, NEW to \in Nat, OnLine(from), OnLine(to), from <= to,
         NEW l \in CcTouched(from, to - from), NEW c \in Nat, CcLineOf(c) = l
  PROVE  c \in from .. to - 1
<1>1. PICK n \in Nat : n = to - from
  OBVIOUS
<1>2. PICK k \in Nat : LineTurn(k) < n /\ l = CcLineOf(from) + k
  BY <1>1, TouchedTurns
<1>3. PICK b \in Nat : b = from + LineTurn(k)
  BY LineFacts
<1>4. LineTurn(k) \in Nat /\ CcLineOf(b) = CcLineOf(from) + k
  <2>1. LineTurn(k) \in Nat /\ CcLineOf(from + k * CcLine) = CcLineOf(from) + k
    BY LineFacts DEF LineTurn
  <2> QED
    BY <1>3, <2>1 DEF LineTurn
<1>5. b \in from .. to - 1 /\ CcLineOf(b) = l
  BY <1>1, <1>2, <1>3, <1>4
<1> QED
  BY <1>5, WholeLines

-----------------------------------------------------------------------------
\* A whole number of turns of the cache leads to the same place.
LEMMA SamePlace ==
  ASSUME NEW x \in Nat, NEW q \in Nat, NEW n \in Nat \ {0}
  PROVE  (x + q * n) % n = x % n
<1>1. PICK p \in Nat, r \in 0..(n - 1) : x % n = r /\ x = n * p + r
  <2>1. \E p \in Nat, r \in 0..(n - 1) : x \div n = p /\ x % n = r /\ x = n * p + r
    OBVIOUS
  <2> QED
    BY <2>1
<1>2. PICK t \in Nat : t = p + q
  OBVIOUS
<1>3. x + q * n = t * n + r
  <2>1. \A a, b \in Nat : (a + b) * n = n * a + b * n
    OBVIOUS
  <2>2. t * n = n * p + q * n
    BY <1>2, <2>1
  <2>3. q * n \in Nat /\ n * p \in Nat
    OBVIOUS
  <2> QED
    BY <1>1, <2>2, <2>3
<1>4. \A a \in Nat, b \in Nat : b < n => (a * n + b) % n = b
  OBVIOUS
<1>5. (t * n + r) % n = r
  BY <1>4
<1> QED
  BY <1>1, <1>3, <1>5

\* The instruction cache has a whole number of places, at least one
\* (alt_icache_flush.c:42-50).
LEMMA CachePlaces ==
  /\ CcICache \div CcLine \in Nat \ {0} /\ LineTurn(CcICache \div CcLine) = CcICache
  /\ \A k \in Nat : k < CcICache \div CcLine => LineTurn(k) < CcICache
<1>1. CcLine \in LineSizes /\ CcICache \in Nat \ {0} /\ CcICache % CcLine = 0
  BY LineFacts, CcAssumption
<1>2. PICK n \in Nat : n = CcICache \div CcLine /\ CcICache = n * CcLine
  BY <1>1, LineOfByte
<1>3. n # 0
  BY <1>1, <1>2, LineFacts
<1>4. ASSUME NEW k \in Nat, k < n PROVE LineTurn(k) < LineTurn(n)
  <2>1. (k + 1) * CcLine = k * CcLine + CcLine
    BY <1>1, LinesOn
  <2>2. LineTurn(k + 1) <= LineTurn(n)
    BY <1>4, LineFacts
  <2>3. LineTurn(k + 1) = LineTurn(k) + CcLine
    BY <2>1 DEF LineTurn
  <2> QED
    BY <2>2, <2>3, LineFacts
<1> QED
  BY <1>2, <1>3, <1>4 DEF LineTurn

\* A number is so many times another and a rest.
LEMMA LineQuotient ==
  ASSUME NEW a \in Nat, NEW c \in Nat \ {0}
  PROVE  \E q \in Nat, k \in 0..(c - 1) : a = c * q + k
<1>1. \E q \in Nat, k \in 0..(c - 1) : a \div c = q /\ a % c = k /\ a = c * q + k
  OBVIOUS
<1> QED
  BY <1>1

\* Every line stored to has its place emptied, also of a region larger than the cache.
LEMMA CodeReached ==
  ASSUME NEW start \in Nat, NEW len \in Nat, NEW b \in start .. start + len - 1
  PROVE  CcLineOf(b) % (CcICache \div CcLine) \in alt_icache_flush(start, len)
<1> DEFINE n == CcICache \div CcLine
           most == IF len > CcICache THEN CcICache ELSE len
<1>1. \A l \in CcTouched(start, most) : l % n \in alt_icache_flush(start, len)
  BY DEF alt_icache_flush
<1>2. n \in Nat \ {0} /\ \A k \in Nat : k < n => LineTurn(k) < CcICache
  BY CachePlaces
<1> HIDE DEF n
<1>3. CASE len <= CcICache
  <2>1. CcLineOf(b) \in CcTouched(start, len) /\ most = len
    BY <1>3, TouchedCovers, CcAssumption
  <2> HIDE DEF most
  <2> QED
    BY <1>1, <2>1 DEF n
<1>4. CASE len > CcICache
  <2>1. PICK m \in Nat : CcLineOf(b) = CcLineOf(start) + m
    <3>1. PICK d \in Nat : b = start + d
      <4>1. b - start \in Nat /\ b = start + (b - start)
        OBVIOUS
      <4> QED
        BY <4>1
    <3>2. \/ CcLineOf(b) = CcLineOf(start) + CcLineOf(d)
          \/ CcLineOf(b) = CcLineOf(start) + (CcLineOf(d) + 1)
      BY <3>1, LineFacts
    <3>3. CcLineOf(d) \in Nat
      BY LineFacts
    <3> QED
      BY <3>2, <3>3
  <2>2. PICK q \in Nat, k \in 0..(n - 1) : m = n * q + k
    BY <1>2, LineQuotient
  <2>3. PICK x \in Nat : x = CcLineOf(start) + k
    BY <1>2, LineFacts
  <2>4. x \in CcTouched(start, most)
    <3>1. LineTurn(k) < CcICache /\ most = CcICache
      BY <1>2, <1>4
    <3> HIDE DEF most
    <3> QED
      BY <1>2, <2>3, <3>1, TouchedTurns, CcAssumption
  <2> HIDE DEF most
  <2>5. CcLineOf(b) = x + q * n
    <3>1. q * n = n * q /\ q * n \in Nat
      BY <1>2
    <3> QED
      BY <1>2, <2>1, <2>2, <2>3, <3>1, LineFacts
  <2>6. CcLineOf(b) % n = x % n
    <3>1. (x + q * n) % n = x % n
      BY <1>2, SamePlace
    <3> QED
      BY <2>5, <3>1, Zenon
  <2> QED
    BY <1>1, <2>4, <2>6 DEF n
<1> QED
  BY <1>3, <1>4, CcAssumption

-----------------------------------------------------------------------------
CcBytesSet == 0 .. CcBytes - 1
CcBlock == [from : Nat, to : Nat, uncached : BOOLEAN]

\* Cached lines are fresh, clean ones are in memory, and the lines of a block that is
\* accessed around the cache are its own and not in the cache.
CcInv ==
  /\ cc_dirty \subseteq cc_cached /\ cc_fresh \subseteq CcIn(cc_cached)
  /\ cc_mem \subseteq CcBytesSet
  /\ \A b \in CcBytesSet : CcLineOf(b) \in cc_cached => b \in cc_fresh
  /\ \A b \in CcBytesSet : CcLineOf(b) \notin cc_dirty => b \in cc_mem
  /\ cc_blocks \subseteq CcBlock
  /\ \A x \in cc_blocks : x.from < x.to /\ x.to <= CcBytes
  /\ \A x, y \in cc_blocks : x # y => CcRange(x) \cap CcRange(y) = {}
  /\ \A x \in cc_blocks : x.uncached =>
       /\ OnLine(x.from) /\ OnLine(x.to)
       /\ \A b \in CcRange(x) : CcLineOf(b) \notin cc_cached
  /\ cc_flushed \subseteq cc_mem
  /\ cc_code[2] = {}

\* The invariant implies the properties that the runs check.
LEMMA CcMeans ==
  ASSUME CcInv
  PROVE  CcTypeOK /\ ReadsLastStore /\ FlushReachesMemory /\ CodeIsFetched
<1>0. CcBytes \in Nat
  BY CcAssumption
<1>1. \A x \in cc_blocks : CcRange(x) \subseteq CcBytesSet
  BY <1>0 DEF CcInv, CcBlock, CcRange, CcBytesSet
<1>2. CcTypeOK
  BY <1>1 DEF CcInv, CcTypeOK, CcUsed, CcBytesSet
<1>3. ReadsLastStore
  <2> SUFFICES ASSUME NEW x \in cc_blocks, NEW b \in CcRange(x)
               PROVE  IF x.uncached THEN b \in cc_mem
                      ELSE IF CcLineOf(b) \in cc_cached THEN b \in cc_fresh ELSE b \in cc_mem
    BY DEF ReadsLastStore
  <2>1. b \in CcBytesSet
    BY <1>1
  <2>2. CcLineOf(b) \notin cc_cached => b \in cc_mem
    BY <2>1 DEF CcInv
  <2>3. CcLineOf(b) \in cc_cached => b \in cc_fresh
    BY <2>1 DEF CcInv
  <2>4. x.uncached => CcLineOf(b) \notin cc_cached
    BY DEF CcInv
  <2> QED
    BY <2>2, <2>3, <2>4, Zenon
<1>4. FlushReachesMemory /\ CodeIsFetched
  BY DEF CcInv, FlushReachesMemory, CodeIsFetched
<1> QED
  BY <1>2, <1>3, <1>4

\* Memory holds what was stored and the cache holds nothing when the program begins.
LEMMA CcStarts ==
  ASSUME CcInit
  PROVE  CcInv
BY DEF CcInit, CcInv, CcIn, CcBytesSet

\* Lines leave the cache.
LEMMA WriteBackKeeps ==
  ASSUME CcInv, NEW lines, CcWriteBack(lines)
  PROVE  /\ cc_dirty' \subseteq cc_cached' /\ cc_fresh' \subseteq CcIn(cc_cached')
         /\ cc_cached' = cc_cached \ lines /\ cc_mem \subseteq cc_mem' /\ cc_mem' \subseteq CcBytesSet
         /\ \A b \in CcBytesSet : CcLineOf(b) \in cc_cached' => b \in cc_fresh'
         /\ \A b \in CcBytesSet : CcLineOf(b) \notin cc_dirty' => b \in cc_mem'
         /\ \A b \in CcBytesSet : CcLineOf(b) \in lines => b \in cc_mem'
<1> DEFINE back == CcIn(lines \cap cc_dirty)
<1>1. /\ cc_mem' = (cc_mem \ back) \cup (cc_fresh \cap back)
      /\ cc_cached' = cc_cached \ lines /\ cc_dirty' = cc_dirty \ lines
      /\ cc_fresh' = cc_fresh \ CcIn(lines)
  BY DEF CcWriteBack
<1>3. \A b : b \in back <=> b \in CcBytesSet /\ CcLineOf(b) \in lines /\ CcLineOf(b) \in cc_dirty
  BY DEF CcIn, CcBytesSet
<1>4. \A b, S : b \in CcIn(S) <=> b \in CcBytesSet /\ CcLineOf(b) \in S
  BY DEF CcIn, CcBytesSet
<1>2. \A b \in back : b \in cc_fresh /\ b \in CcBytesSet
  <2> HIDE DEF back
  <2> QED
    BY <1>3 DEF CcInv
<1> HIDE DEF back
<1>5. cc_mem \subseteq cc_mem' /\ cc_mem' \subseteq CcBytesSet
  BY <1>1, <1>2 DEF CcInv
<1>6. cc_dirty' \subseteq cc_cached' /\ cc_fresh' \subseteq CcIn(cc_cached')
  BY <1>1, <1>4 DEF CcInv
<1>7. \A b \in CcBytesSet : CcLineOf(b) \in cc_cached' => b \in cc_fresh'
  BY <1>1, <1>4 DEF CcInv
<1>8. \A b \in CcBytesSet : CcLineOf(b) \notin cc_dirty \/ CcLineOf(b) \in lines => b \in cc_mem'
  BY <1>1, <1>2, <1>3 DEF CcInv
<1> QED
  BY <1>1, <1>5, <1>6, <1>7, <1>8

\* Blocks and the lines of those accessed around the cache.
BlocksOK(blocks, cached) ==
  /\ blocks \subseteq CcBlock
  /\ \A x \in blocks : x.from < x.to /\ x.to <= CcBytes
  /\ \A x, y \in blocks : x # y => CcRange(x) \cap CcRange(y) = {}
  /\ \A x \in blocks : x.uncached => OnLine(x.from) /\ OnLine(x.to)
  /\ \A x \in blocks : x.uncached => \A b \in CcRange(x) : CcLineOf(b) \notin cached

BytesOK(mem, cached, fresh, dirty) ==
  /\ dirty \subseteq cached /\ fresh \subseteq CcIn(cached)
  /\ mem \subseteq CcBytesSet
  /\ \A b \in CcBytesSet : CcLineOf(b) \in cached => b \in fresh
  /\ \A b \in CcBytesSet : CcLineOf(b) \notin dirty => b \in mem

\* The invariant by its parts, each of which few actions touch.
LEMMA CcParts ==
  CcInv <=> /\ BytesOK(cc_mem, cc_cached, cc_fresh, cc_dirty) /\ BlocksOK(cc_blocks, cc_cached)
            /\ cc_flushed \subseteq cc_mem /\ cc_code[2] = {}
BY DEF CcInv, BytesOK, BlocksOK

\* The same of the next state.
LEMMA CcPartsNext ==
  CcInv' <=> /\ BytesOK(cc_mem', cc_cached', cc_fresh', cc_dirty') /\ BlocksOK(cc_blocks', cc_cached')
             /\ cc_flushed' \subseteq cc_mem' /\ cc_code'[2] = {}
BY DEF CcInv, BytesOK, BlocksOK

\* A block's bytes; the blocks but one; a block more; lines that leave the cache.
LEMMA BlockFacts ==
  ASSUME CcInv, NEW x \in cc_blocks
  PROVE  /\ x.from \in Nat /\ x.to \in Nat /\ x.from < x.to /\ x.uncached \in BOOLEAN
         /\ CcRange(x) \subseteq CcBytesSet /\ CcBytesSet \subseteq Nat
         /\ x.from + (x.to - x.from) - 1 = x.to - 1 /\ x.to - x.from \in Nat
BY CcAssumption DEF CcInv, CcBlock, CcRange, CcBytesSet

\* Lines that leave the cache leave the blocks in order.
LEMMA FewerLines ==
  ASSUME NEW blocks, NEW cached, NEW less, less \subseteq cached, BlocksOK(blocks, cached)
  PROVE  BlocksOK(blocks, less)
BY DEF BlocksOK

\* So do blocks that are freed (alt_uncached_free.c:39-53).
LEMMA FewerBlocks ==
  ASSUME NEW blocks, NEW cached, NEW few, few \subseteq blocks, BlocksOK(blocks, cached)
  PROVE  BlocksOK(few, cached)
BY DEF BlocksOK

\* A block more is in order if it is apart from the others, and, accessed around the
\* cache, made of whole lines of which the cache holds none
\* (alt_uncached_malloc.c:41-77).
LEMMA OneMoreBlock ==
  ASSUME NEW blocks, NEW cached, BlocksOK(blocks, cached), NEW x \in CcBlock,
         x.from < x.to, x.to <= CcBytes,
         \A y \in blocks : CcRange(x) \cap CcRange(y) = {},
         x.uncached => OnLine(x.from) /\ OnLine(x.to),
         x.uncached => \A b \in CcRange(x) : CcLineOf(b) \notin cached
  PROVE  BlocksOK(blocks \cup {x}, cached)
BY DEF BlocksOK

\* What malloc may return overlaps no block in use.
LEMMA FreeIsApart ==
  ASSUME NEW from \in Nat, NEW to \in Nat, CcFree(from, to)
  PROVE  to <= CcBytes /\ \A y \in cc_blocks : (from .. to - 1) \cap CcRange(y) = {}
BY DEF CcFree, CcUsed

\* A block of malloc is accessed through the cache: its bytes are as they were.
LEMMA MallocKeeps ==
  ASSUME CcInv, CcMalloc
  PROVE  CcInv'
<1>1. PICK from \in 0 .. CcBytes - 1, size \in 1 .. CcLine + 1 :
        /\ CcFree(from, from + size)
        /\ cc_blocks' = cc_blocks \cup {[from |-> from, to |-> from + size, uncached |-> FALSE]}
  BY DEF CcMalloc
<1>2. UNCHANGED <<cc_mem, cc_cached, cc_fresh, cc_dirty, cc_flushed, cc_code>>
  BY DEF CcMalloc
<1> DEFINE x == [from |-> from, to |-> from + size, uncached |-> FALSE]
<1>3. from \in Nat /\ from + size \in Nat /\ from < from + size
  BY CcAssumption, LineFacts
<1>4. /\ x \in CcBlock /\ x.from < x.to /\ x.to <= CcBytes /\ x.uncached = FALSE
      /\ \A y \in cc_blocks : CcRange(x) \cap CcRange(y) = {}
  BY <1>1, <1>3, FreeIsApart DEF CcBlock, CcRange
<1> HIDE DEF x
<1>5. BlocksOK(cc_blocks \cup {x}, cc_cached)
  BY <1>4, CcParts, OneMoreBlock
<1> QED
  BY <1>1, <1>2, <1>5, CcParts, CcPartsNext DEF x

\* The flush of alt_uncached_malloc puts in memory what the program will read there,
\* and empties the lines of the block (alt_uncached_malloc.c:62-76).
LEMMA UncachedMallocKeeps ==
  ASSUME CcInv, alt_uncached_malloc
  PROVE  CcInv'
<1>1. PICK line \in 0 .. CcLineOf(CcBytes - 1), size \in 1 .. CcLine + 1 :
        LET from    == line * CcLine
            aligned == ((size + CcLine - 1) \div CcLine) * CcLine
        IN  /\ CcFree(from, from + aligned)
            /\ cc_blocks' = cc_blocks \cup {[from |-> from, to |-> from + aligned, uncached |-> TRUE]}
            /\ alt_dcache_flush(from, aligned)
  BY DEF alt_uncached_malloc
<1>2. UNCHANGED <<cc_flushed, cc_code>>
  BY DEF alt_uncached_malloc
<1>3. CcLine \in LineSizes /\ CcLine \in Nat \ {0} /\ line \in Nat /\ size \in Nat \ {0}
  BY LineFacts, CcAssumption
<1>4. PICK k \in Nat : k = (size + CcLine - 1) \div CcLine /\ k # 0
  <2>1. PICK s \in Nat : s = size - 1
    BY <1>3
  <2>2. size + CcLine - 1 = s + 1 * CcLine
    BY <1>3, <2>1
  <2>3. \A a, i \in Nat : CcLineOf(a + i * CcLine) = CcLineOf(a) + i
    BY LineFacts DEF LineTurn
  <2>4. CcLineOf(s + 1 * CcLine) = CcLineOf(s) + 1 /\ CcLineOf(s) \in Nat
    BY <2>1, <2>3, LineFacts
  <2>5. (size + CcLine - 1) \div CcLine = CcLineOf(s + 1 * CcLine)
    BY <2>2, Zenon DEF CcLineOf
  <2> QED
    BY <2>4, <2>5
<1>5. PICK from \in Nat, n \in Nat :
        from = line * CcLine /\ n = k * CcLine /\ n > 0 /\ OnLine(from) /\ OnLine(from + n)
  <2>1. LineTurn(line) \in Nat /\ LineTurn(k) \in Nat /\ k <= LineTurn(k)
    BY <1>3, <1>4, LineFacts
  <2>2. PICK m \in Nat : m = line + k
    BY <1>3, <1>4
  <2>3. LineTurn(m) = LineTurn(line) + LineTurn(k)
    <3>1. \A a, b \in Nat : (a + b) * CcLine = a * CcLine + b * CcLine
      BY <1>3
    <3> QED
      BY <1>3, <1>4, <2>2, <3>1 DEF LineTurn
  <2>4. OnLine(LineTurn(line)) /\ OnLine(LineTurn(m))
    BY <1>3, <2>2, LineFacts
  <2> QED
    BY <1>4, <2>1, <2>3, <2>4 DEF LineTurn
<1> DEFINE x == [from |-> from, to |-> from + n, uncached |-> TRUE]
<1>6. /\ CcFree(from, from + n) /\ cc_blocks' = cc_blocks \cup {x}
      /\ CcWriteBack(CcTouched(from, n))
  BY <1>1, <1>4, <1>5 DEF alt_dcache_flush
<1>7. /\ x \in CcBlock /\ x.from < x.to /\ x.to <= CcBytes /\ x.uncached = TRUE
      /\ OnLine(x.from) /\ OnLine(x.to) /\ CcRange(x) = from .. from + n - 1
      /\ \A y \in cc_blocks : CcRange(x) \cap CcRange(y) = {}
  BY <1>5, <1>6, FreeIsApart DEF CcBlock, CcRange
<1>8. /\ BytesOK(cc_mem', cc_cached', cc_fresh', cc_dirty') /\ cc_mem \subseteq cc_mem'
      /\ cc_cached' = cc_cached \ CcTouched(from, n)
  BY <1>6, WriteBackKeeps DEF BytesOK
<1> HIDE DEF x
<1>9. \A b \in CcRange(x) : CcLineOf(b) \notin cc_cached'
  BY <1>7, <1>8, TouchedCovers
<1>10. BlocksOK(cc_blocks, cc_cached')
  BY <1>8, CcParts, FewerLines
<1>11. BlocksOK(cc_blocks \cup {x}, cc_cached')
  BY <1>7, <1>9, <1>10, OneMoreBlock
<1> QED
  BY <1>2, <1>6, <1>8, <1>11, CcParts, CcPartsNext

\* free and alt_uncached_free keep the invariant (alt_uncached_free.c:39-53).
LEMMA ReleaseKeeps ==
  ASSUME CcInv, CcRelease
  PROVE  CcInv'
<1>1. /\ cc_blocks' \subseteq cc_blocks
      /\ UNCHANGED <<cc_mem, cc_cached, cc_fresh, cc_dirty, cc_flushed, cc_code>>
  BY DEF CcRelease
<1> QED
  BY <1>1, CcParts, CcPartsNext, FewerBlocks

\* A block that is accessed through the cache again has none of its lines in it, and
\* its bytes in memory (alt_remap_cached.c:40-55).
LEMMA RemapKeeps ==
  ASSUME CcInv, alt_remap_cached
  PROVE  CcInv'
<1>1. PICK x \in cc_blocks :
        x.uncached /\ cc_blocks' = (cc_blocks \ {x}) \cup {[x EXCEPT !.uncached = FALSE]}
  BY DEF alt_remap_cached
<1>2. UNCHANGED <<cc_mem, cc_cached, cc_fresh, cc_dirty, cc_flushed, cc_code>>
  BY DEF alt_remap_cached
<1> DEFINE y == [x EXCEPT !.uncached = FALSE]
<1>3. /\ y \in CcBlock /\ y.from = x.from /\ y.to = x.to /\ y.uncached = FALSE
  BY CcParts DEF CcBlock, BlocksOK
<1> HIDE DEF y
<1>4. /\ y.from < y.to /\ y.to <= CcBytes /\ CcRange(y) = CcRange(x)
      /\ \A z \in cc_blocks \ {x} : CcRange(y) \cap CcRange(z) = {}
  BY <1>3, CcParts DEF BlocksOK, CcRange
<1>5. BlocksOK(cc_blocks \ {x}, cc_cached)
  BY CcParts, FewerBlocks
<1>6. BlocksOK((cc_blocks \ {x}) \cup {y}, cc_cached)
  BY <1>3, <1>4, <1>5, OneMoreBlock
<1> QED
  BY <1>1, <1>2, <1>6, CcParts, CcPartsNext DEF y

\* The line of a byte of a cached block holds no byte of a block accessed around the cache.
LEMMA LineApart ==
  ASSUME CcInv, NEW x \in cc_blocks, ~x.uncached, NEW b \in CcRange(x),
         NEW y \in cc_blocks, y.uncached, NEW c \in CcRange(y)
  PROVE  CcLineOf(c) # CcLineOf(b)
<1>1. /\ y.from \in Nat /\ y.to \in Nat /\ OnLine(y.from) /\ OnLine(y.to)
      /\ b \in Nat /\ CcRange(y) = y.from .. y.to - 1
  BY BlockFacts DEF CcInv, CcRange
<1>2. x # y /\ CcRange(x) \cap CcRange(y) = {}
  BY DEF CcInv
<1>3. CcLineOf(c) = CcLineOf(b) => b \in CcRange(y)
  <2> HAVE CcLineOf(b) = CcLineOf(c)
  <2> QED
    BY <1>1, WholeLines
<1> QED
  BY <1>2, <1>3

\* A line more in the cache, of a block that is accessed through it.
LEMMA OneMoreLine ==
  ASSUME CcInv, NEW x \in cc_blocks, ~x.uncached, NEW b \in CcRange(x)
  PROVE  BlocksOK(cc_blocks, cc_cached \cup {CcLineOf(b)})
BY CcParts, LineApart DEF BlocksOK

\* A store through the cache brings the line in, one around it finds the line out of
\* it; either way one copy is the last, and the others are known to be old.
LEMMA StoreKeeps ==
  ASSUME CcInv, CcStore
  PROVE  CcInv'
<1>0. PICK x \in cc_blocks : \E b \in CcRange(x) :
        LET l     == CcLineOf(b)
            there == IF l \in cc_cached THEN cc_fresh \cap CcIn({l}) ELSE cc_mem \cap CcIn({l})
        IN  /\ cc_flushed' = cc_flushed \ {b}
            /\ IF x.uncached
               THEN /\ cc_mem' = cc_mem \cup {b} /\ cc_fresh' = cc_fresh \ {b}
                    /\ UNCHANGED <<cc_cached, cc_dirty>>
               ELSE /\ cc_mem' = cc_mem \ {b}
                    /\ cc_fresh' = (cc_fresh \ CcIn({l})) \cup there \cup {b}
                    /\ cc_cached' = cc_cached \cup {l} /\ cc_dirty' = cc_dirty \cup {l}
  BY DEF CcStore
<1>1. PICK b \in CcRange(x) :
        LET l     == CcLineOf(b)
            there == IF l \in cc_cached THEN cc_fresh \cap CcIn({l}) ELSE cc_mem \cap CcIn({l})
        IN  /\ cc_flushed' = cc_flushed \ {b}
            /\ IF x.uncached
               THEN /\ cc_mem' = cc_mem \cup {b} /\ cc_fresh' = cc_fresh \ {b}
                    /\ UNCHANGED <<cc_cached, cc_dirty>>
               ELSE /\ cc_mem' = cc_mem \ {b}
                    /\ cc_fresh' = (cc_fresh \ CcIn({l})) \cup there \cup {b}
                    /\ cc_cached' = cc_cached \cup {l} /\ cc_dirty' = cc_dirty \cup {l}
  BY <1>0
<1>2. UNCHANGED <<cc_blocks, cc_code>> /\ cc_flushed' = cc_flushed \ {b}
  BY <1>1 DEF CcStore
<1>3. PICK l : l = CcLineOf(b)
  OBVIOUS
<1>4. b \in CcBytesSet /\ x.uncached \in BOOLEAN
  BY BlockFacts
<1>5. \A c, S : c \in CcIn(S) <=> c \in CcBytesSet /\ CcLineOf(c) \in S
  BY DEF CcIn, CcBytesSet
<1>6. CASE x.uncached
  <2>1. /\ cc_mem' = cc_mem \cup {b} /\ cc_fresh' = cc_fresh \ {b}
        /\ cc_cached' = cc_cached /\ cc_dirty' = cc_dirty
    BY <1>1, <1>6
  <2>2. CcLineOf(b) \notin cc_cached
    BY <1>6 DEF CcInv
  <2>3. cc_fresh' = cc_fresh
    BY <1>5, <2>1, <2>2 DEF CcInv
  <2>4. BytesOK(cc_mem', cc_cached', cc_fresh', cc_dirty')
    BY <1>4, <2>1, <2>3, CcParts DEF BytesOK
  <2>5. cc_flushed' \subseteq cc_mem'
    BY <1>2, <2>1 DEF CcInv
  <2> QED
    BY <1>2, <2>1, <2>4, <2>5, CcParts, CcPartsNext
<1>7. CASE ~x.uncached
  <2> DEFINE there == IF l \in cc_cached THEN cc_fresh \cap CcIn({l}) ELSE cc_mem \cap CcIn({l})
  <2>1. /\ cc_mem' = cc_mem \ {b} /\ cc_fresh' = (cc_fresh \ CcIn({l})) \cup there \cup {b}
        /\ cc_cached' = cc_cached \cup {l} /\ cc_dirty' = cc_dirty \cup {l}
    BY <1>1, <1>3, <1>7
  <2>2. there = CcIn({l})
    <3>1. l \in cc_cached => cc_fresh \cap CcIn({l}) = CcIn({l})
      BY <1>5 DEF CcInv
    <3>2. l \notin cc_cached => cc_mem \cap CcIn({l}) = CcIn({l})
      BY <1>5 DEF CcInv
    <3> QED
      BY <3>1, <3>2
  <2> HIDE DEF there
  <2>3. \A c : c \in cc_fresh' <=> c \in cc_fresh \/ (c \in CcBytesSet /\ CcLineOf(c) = l)
    BY <1>3, <1>4, <1>5, <2>1, <2>2
  <2>4. /\ cc_dirty' \subseteq cc_cached' /\ cc_fresh' \subseteq CcIn(cc_cached')
        /\ \A c \in CcBytesSet : CcLineOf(c) \in cc_cached' => c \in cc_fresh'
    BY <1>5, <2>1, <2>3 DEF CcInv
  <2>5. /\ cc_mem' \subseteq CcBytesSet
        /\ \A c \in CcBytesSet : CcLineOf(c) \notin cc_dirty' => c \in cc_mem'
    BY <1>3, <2>1 DEF CcInv
  <2>6. BytesOK(cc_mem', cc_cached', cc_fresh', cc_dirty')
    BY <2>4, <2>5 DEF BytesOK
  <2>7. BlocksOK(cc_blocks, cc_cached')
    BY <1>3, <1>7, <2>1, OneMoreLine
  <2>8. cc_flushed' \subseteq cc_mem'
    BY <1>2, <2>1 DEF CcInv
  <2> QED
    BY <1>2, <2>6, <2>7, <2>8, CcParts, CcPartsNext
<1> QED
  BY <1>4, <1>6, <1>7

\* A line that the cache takes in is what memory has.
LEMMA FillKeeps ==
  ASSUME CcInv, CcFill
  PROVE  CcInv'
<1>1. PICK l \in 0 .. CcLineOf(CcBytes - 1) :
        /\ l \notin cc_cached /\ \E x \in cc_blocks : ~x.uncached /\ CcRange(x) \cap CcIn({l}) # {}
        /\ cc_cached' = cc_cached \cup {l}
        /\ cc_fresh' = cc_fresh \cup (cc_mem \cap CcIn({l}))
  BY DEF CcFill
<1>2. UNCHANGED <<cc_mem, cc_dirty, cc_blocks, cc_flushed, cc_code>>
  BY DEF CcFill
<1>3. \A c, S : c \in CcIn(S) <=> c \in CcBytesSet /\ CcLineOf(c) \in S
  BY DEF CcIn, CcBytesSet
<1>0. PICK x \in cc_blocks : ~x.uncached /\ CcRange(x) \cap CcIn({l}) # {}
  BY <1>1
<1>4. PICK b \in CcRange(x) : CcLineOf(b) = l
  BY <1>0, <1>3
<1>5. BlocksOK(cc_blocks, cc_cached')
  BY <1>0, <1>1, <1>4, OneMoreLine
<1>6. \A c \in CcBytesSet : CcLineOf(c) = l => c \in cc_mem
  BY <1>1 DEF CcInv
<1>7. BytesOK(cc_mem, cc_cached', cc_fresh', cc_dirty)
  BY <1>1, <1>3, <1>6, CcParts DEF BytesOK
<1> QED
  BY <1>2, <1>5, <1>7, CcParts, CcPartsNext

\* A line that the cache gives up is written back if it is dirty.
LEMMA EvictKeeps ==
  ASSUME CcInv, CcEvict
  PROVE  CcInv'
<1>1. PICK l \in cc_cached : CcWriteBack({l})
  BY DEF CcEvict
<1>2. UNCHANGED <<cc_blocks, cc_flushed, cc_code>>
  BY DEF CcEvict
<1>3. /\ BytesOK(cc_mem', cc_cached', cc_fresh', cc_dirty') /\ cc_mem \subseteq cc_mem'
      /\ cc_cached' \subseteq cc_cached
  BY <1>1, WriteBackKeeps DEF BytesOK
<1> QED
  BY <1>2, <1>3, CcParts, CcPartsNext, FewerLines

\* The lines of a flush of all are those of all bytes.
LEMMA AllLines ==
  ASSUME NEW b \in CcBytesSet
  PROVE  CcLineOf(b) \in 0 .. CcLineOf(CcBytes - 1)
<1>1. CcBytes - 1 \in Nat /\ b \in Nat
  BY CcAssumption DEF CcBytesSet
<1>2. PICK d \in Nat : CcBytes - 1 = b + d
  <2>1. (CcBytes - 1) - b \in Nat /\ CcBytes - 1 = b + ((CcBytes - 1) - b)
    BY <1>1 DEF CcBytesSet
  <2> QED
    BY <2>1
<1>3. CcLineOf(b) \in Nat /\ CcLineOf(d) \in Nat
  BY <1>1, LineFacts
<1>4. CcLineOf(b + d) \in Nat /\ CcLineOf(b) <= CcLineOf(b + d)
  <2>1. \/ CcLineOf(b + d) = CcLineOf(b) + CcLineOf(d)
        \/ CcLineOf(b + d) = CcLineOf(b) + CcLineOf(d) + 1
    BY <1>1, LineFacts
  <2> QED
    BY <1>3, <2>1
<1> QED
  BY <1>2, <1>3, <1>4

\* alt_dcache_flush and alt_dcache_flush_all put every byte of the region in memory
\* (alt_dcache_flush.c:46-70, alt_dcache_flush_all.c:41-51).
LEMMA FlushKeeps ==
  ASSUME CcInv, CcFlush
  PROVE  CcInv'
<1>1. PICK lines, flushed :
        /\ CcWriteBack(lines) /\ cc_flushed' = flushed
        /\ \A b \in flushed : b \in cc_flushed \/ (b \in CcBytesSet /\ CcLineOf(b) \in lines)
  <2>1. CASE \E x \in cc_blocks : /\ alt_dcache_flush(x.from, x.to - x.from)
                                  /\ cc_flushed' = cc_flushed \cup CcRange(x)
    <3>1. PICK x \in cc_blocks : /\ alt_dcache_flush(x.from, x.to - x.from)
                                 /\ cc_flushed' = cc_flushed \cup CcRange(x)
      BY <2>1
    <3>2. PICK from \in Nat, n \in Nat : from = x.from /\ n = x.to - x.from /\ x.to = from + n
      <4>1. /\ x.from \in Nat /\ x.to - x.from \in Nat /\ x.to = x.from + (x.to - x.from)
        BY BlockFacts
      <4> QED
        BY <4>1
    <3>3. \A b \in CcRange(x) : b \in CcBytesSet /\ CcLineOf(b) \in CcTouched(from, n)
      <4>1. CcRange(x) = from .. from + n - 1 /\ CcRange(x) \subseteq CcBytesSet
        BY <3>2, BlockFacts DEF CcRange
      <4> QED
        BY <4>1, TouchedCovers
    <3>4. CcWriteBack(CcTouched(from, n))
      BY <3>1, <3>2 DEF alt_dcache_flush
    <3> QED
      BY <3>1, <3>3, <3>4
  <2>2. CASE alt_dcache_flush_all /\ cc_flushed' = CcUsed
    <3>1. CcWriteBack(0 .. CcLineOf(CcBytes - 1))
      BY <2>2 DEF alt_dcache_flush_all
    <3>2. \A b \in CcUsed : b \in CcBytesSet
      BY BlockFacts DEF CcUsed
    <3> QED
      BY <2>2, <3>1, <3>2, AllLines
  <2> QED
    BY <2>1, <2>2 DEF CcFlush
<1>2. UNCHANGED <<cc_blocks, cc_code>>
  BY DEF CcFlush
<1>3. /\ BytesOK(cc_mem', cc_cached', cc_fresh', cc_dirty') /\ cc_mem \subseteq cc_mem'
      /\ cc_cached' \subseteq cc_cached
  BY <1>1, WriteBackKeeps DEF BytesOK
<1>4. \A b \in CcBytesSet : CcLineOf(b) \in lines => b \in cc_mem'
  BY <1>1, WriteBackKeeps
<1>5. cc_flushed' \subseteq cc_mem'
  BY <1>1, <1>3, <1>4 DEF CcInv
<1> QED
  BY <1>2, <1>3, <1>5, CcParts, CcPartsNext, FewerLines

\* Dropping whole lines loses nothing of another block
\* (alt_dcache_flush_no_writeback.c:49-71).
LEMMA DiscardKeeps ==
  ASSUME CcInv, CcDiscard
  PROVE  CcInv'
<1>1. PICK x \in cc_blocks :
        /\ x.from % CcLine = 0 /\ x.to % CcLine = 0
        /\ alt_dcache_flush_no_writeback(x.from, x.to - x.from)
  BY DEF CcDiscard
<1>2. UNCHANGED <<cc_blocks, cc_flushed, cc_code>>
  BY DEF CcDiscard
<1>3. PICK from \in Nat, to \in Nat, n \in Nat :
        from = x.from /\ to = x.to /\ from < to /\ n = to - from /\ from + n - 1 = to - 1
  BY BlockFacts
<1>4. OnLine(from) /\ OnLine(to)
  BY <1>1, <1>3 DEF OnLine
<1>5. from .. to - 1 \subseteq CcBytesSet
  BY <1>3, BlockFacts DEF CcRange
<1>6. PICK lines : lines = CcTouched(from, n)
  OBVIOUS
<1>7. /\ cc_mem' = cc_mem \cup from .. to - 1
      /\ cc_cached' = cc_cached \ lines /\ cc_dirty' = cc_dirty \ lines
      /\ cc_fresh' = cc_fresh \ CcIn(lines)
  BY <1>1, <1>3, <1>6 DEF alt_dcache_flush_no_writeback
<1>8. \A c \in CcBytesSet : CcLineOf(c) \in lines => c \in from .. to - 1
  <2>1. CcBytesSet \subseteq Nat /\ from <= to /\ lines = CcTouched(from, to - from)
    BY <1>3, <1>6, BlockFacts
  <2> QED
    BY <1>4, <2>1, TouchedWhole
<1>9. \A c, S : c \in CcIn(S) <=> c \in CcBytesSet /\ CcLineOf(c) \in S
  BY DEF CcIn, CcBytesSet
<1>10. BytesOK(cc_mem', cc_cached', cc_fresh', cc_dirty')
  <2>1. cc_mem' \subseteq CcBytesSet
    BY <1>5, <1>7, CcParts DEF BytesOK
  <2>2. cc_dirty' \subseteq cc_cached' /\ cc_fresh' \subseteq CcIn(cc_cached')
    BY <1>7, <1>9, CcParts DEF BytesOK
  <2>3. \A b \in CcBytesSet : CcLineOf(b) \in cc_cached' => b \in cc_fresh'
    BY <1>7, <1>9, CcParts DEF BytesOK
  <2>4. \A b \in CcBytesSet : CcLineOf(b) \notin cc_dirty' => b \in cc_mem'
    BY <1>7, <1>8, CcParts DEF BytesOK
  <2> QED
    BY <2>1, <2>2, <2>3, <2>4 DEF BytesOK
<1>11. cc_cached' \subseteq cc_cached /\ cc_mem \subseteq cc_mem'
  BY <1>7
<1> QED
  BY <1>2, <1>10, <1>11, CcParts, CcPartsNext, FewerLines

\* Storing and flushing instructions leaves no stale line (alt_icache_flush.c:42-84).
LEMMA CodeKeeps ==
  ASSUME CcInv, CcCode
  PROVE  CcInv'
<1>1. PICK start \in 0 .. CcText - 1, len \in 1 .. CcText :
        LET stored == {CcLineOf(b) % (CcICache \div CcLine) : b \in start .. start + len - 1}
        IN  cc_code' = <<stored, stored \ alt_icache_flush(start, len)>>
  BY DEF CcCode
<1>2. UNCHANGED <<cc_mem, cc_cached, cc_fresh, cc_dirty, cc_blocks, cc_flushed>>
  BY DEF CcCode
<1>3. start \in Nat /\ len \in Nat
  BY CcAssumption
<1>4. \A b \in start .. start + len - 1 :
        CcLineOf(b) % (CcICache \div CcLine) \in alt_icache_flush(start, len)
  BY <1>3, CodeReached
<1>5. cc_code'[2] = {}
  BY <1>1, <1>4
<1> QED
  BY <1>2, <1>5, CcParts, CcPartsNext

\* Every step of the program and of the cache keeps the invariant.
LEMMA CcKept ==
  ASSUME CcInv, [CcNext]_ccVars
  PROVE  CcInv'
<1>1. CASE UNCHANGED ccVars
  BY <1>1, CcParts, CcPartsNext DEF ccVars
<1>2. CASE CcNext
  BY <1>2, MallocKeeps, UncachedMallocKeeps, ReleaseKeeps, RemapKeeps, StoreKeeps, FillKeeps,
     EvictKeeps, FlushKeeps, DiscardKeeps, CodeKeeps DEF CcNext
<1> QED
  BY <1>1, <1>2

\* For every memory, line and cache size: whatever the program allocates, stores,
\* flushes and remaps, and whatever the cache does, a read returns what was stored
\* last, what was flushed is in memory, and no stale instruction is left
\* (alt_dcache_flush.c:46-70, alt_icache_flush.c:42-84, alt_uncached_malloc.c:41-77,
\* alt_remap_cached.c:40-55).
THEOREM CacheIsCoherent ==
  CcSpec => [](CcTypeOK /\ ReadsLastStore /\ FlushReachesMemory /\ CodeIsFetched)
<1>1. CcInit => CcInv
  BY CcStarts
<1>2. CcInv /\ [CcNext]_ccVars => CcInv'
  BY CcKept
<1>3. CcInv => CcTypeOK /\ ReadsLastStore /\ FlushReachesMemory /\ CodeIsFetched
  BY CcMeans
<1> QED
  BY <1>1, <1>2, <1>3, PTL DEF CcSpec

-----------------------------------------------------------------------------
(* The heap and the stack limit (alt_sbrk.c, alt_stack.h).                 *)

\* What has no rest is a multiple.
LEMMA WholeWords ==
  ASSUME NEW a \in Nat, NEW b \in Nat \ {0}, a % b = 0
  PROVE  \E q \in Nat : a = q * b
<1>1. \E q \in Nat, r \in 0..(b - 1) : a \div b = q /\ a % b = r /\ a = b * q + r
  OBVIOUS
<1>2. \A q \in Nat : b * q = q * b /\ q * b \in Nat
  OBVIOUS
<1>3. PICK q \in Nat : a = b * q + 0
  BY <1>1
<1> QED
  BY <1>2, <1>3

\* A multiple has no rest.
LEMMA Multiple ==
  ASSUME NEW q \in Nat, NEW b \in Nat \ {0}
  PROVE  (q * b) % b = 0
<1>1. \A r \in Nat : r < b => (q * b + r) % b = r
  OBVIOUS
<1>2. q * b \in Nat
  OBVIOUS
<1> QED
  BY <1>1, <1>2

\* Whole words and whole words are whole words.
LEMMA SumWhole ==
  ASSUME NEW a \in Nat, NEW c \in Nat, NEW b \in Nat \ {0}, a % b = 0, c % b = 0
  PROVE  (a + c) % b = 0
<1>1. PICK p \in Nat : a = p * b
  BY WholeWords
<1>2. PICK q \in Nat : c = q * b
  BY WholeWords
<1>3. a + c = (p + q) * b
  BY <1>1, <1>2
<1>4. PICK n \in Nat : n = p + q
  OBVIOUS
<1>5. (n * b) % b = 0
  BY Multiple
<1> QED
  BY <1>3, <1>4, <1>5

Aligned(a) == a % HpWord = 0

\* The rounding of alt_sbrk leaves a break of whole words alone (alt_sbrk.c:76).
LEMMA RoundsWhole ==
  ASSUME NEW a \in Nat, a % HpWord = 0
  PROVE  HpRoundUp(a) = a
<1>1. HpWord \in Nat \ {0}
  BY HpAssumption
<1>2. PICK q \in Nat : a = q * HpWord
  BY <1>1, WholeWords
<1>3. ASSUME NEW b \in Nat \ {0}
      PROVE  (q * b + b - 1) \div b = q
  OBVIOUS
<1>4. (a + HpWord - 1) \div HpWord = q
  BY <1>1, <1>2, <1>3
<1> QED
  BY <1>2, <1>4 DEF HpRoundUp

\* What the proof uses of alignment: zero is aligned, sums of aligned numbers are,
\* and rounding leaves them alone (alt_sbrk.c:76).
LEMMA AlignedFacts ==
  /\ Aligned(0)
  /\ \A a, b \in Nat : Aligned(a) /\ Aligned(b) => Aligned(a + b)
  /\ \A a \in Nat : Aligned(a) => HpRoundUp(a) = a
<1>1. HpWord \in Nat \ {0}
  BY HpAssumption
<1>2. Aligned(0)
  BY <1>1 DEF Aligned
<1>3. ASSUME NEW a \in Nat, NEW b \in Nat, Aligned(a), Aligned(b)
      PROVE  Aligned(a + b)
  BY <1>1, <1>3, SumWhole DEF Aligned
<1>4. ASSUME NEW a \in Nat, Aligned(a)
      PROVE  HpRoundUp(a) = a
  BY <1>4, RoundsWhole DEF Aligned
<1> QED
  BY <1>2, <1>3, <1>4

\* malloc grows the heap by whole words only (sbrk's caller, _malloc_r of newlib).
AlignedIncrements == \A incr \in HpIncrements : Aligned(incr)

\* So many words.
HpWords(k) == k * HpWord

\* The stack begins at the limit and moves by whole words.
HpOnStack == \E k \in Nat : HpLimit = hp_sp + HpWords(k)

\* A push is a word more, a pop one less; with none the stack is at the limit.
LEMMA WordsOfStack ==
  /\ HpWords(0) = 0
  /\ \A k \in Nat : HpWords(k) \in Nat /\ HpWords(k + 1) = HpWords(k) + HpWord
<1>1. HpWord \in Nat
  BY HpAssumption
<1> QED
  BY <1>1 DEF HpWords

\* A program that pushes and pops keeps its stack at whole words below the limit.
LEMMA StackMoves ==
  ASSUME HpOnStack, hp_sp \in Int, -HpWord < hp_sp,
         \/ hp_sp' = hp_sp
         \/ hp_sp > 0 /\ hp_sp' = hp_sp - HpWord
         \/ hp_sp < HpLimit /\ hp_sp' = hp_sp + HpWord
  PROVE  HpOnStack' /\ hp_sp' \in Int /\ -HpWord < hp_sp'
<1>1. HpWord \in Nat \ {0} /\ HpLimit \in Nat
  BY HpAssumption
<1>2. PICK k \in Nat : HpLimit = hp_sp + HpWords(k)
  BY DEF HpOnStack
<1>3. CASE hp_sp' = hp_sp
  BY <1>3 DEF HpOnStack
<1>4. CASE hp_sp > 0 /\ hp_sp' = hp_sp - HpWord
  <2>1. HpLimit = hp_sp' + HpWords(k + 1)
    BY <1>1, <1>2, <1>4, WordsOfStack
  <2> QED
    BY <1>1, <1>4, <2>1 DEF HpOnStack
<1>5. CASE hp_sp < HpLimit /\ hp_sp' = hp_sp + HpWord
  <2>1. k # 0
    BY <1>2, <1>5, WordsOfStack
  <2>2. PICK j \in Nat : k = j + 1
    BY <2>1
  <2>3. HpWords(k) = HpWords(j) + HpWord /\ HpWords(j) \in Nat
    BY <2>2, WordsOfStack
  <2>4. HpLimit = hp_sp' + HpWords(j)
    BY <1>1, <1>2, <1>5, <2>3
  <2> QED
    BY <1>1, <1>5, <2>4 DEF HpOnStack
<1> QED
  BY <1>3, <1>4, <1>5

HpInv ==
  /\ hp_check \in BOOLEAN
  /\ heap_end \in Nat /\ heap_end <= HpLimit /\ Aligned(heap_end)
  /\ hp_old \in Nat \cup {HpNull}
  /\ hp_sp \in Int /\ -HpWord < hp_sp /\ HpOnStack
  /\ hp_blocks \subseteq Nat \X Nat
  /\ hp_check /\ hp_stop = "none" =>
       /\ hp_sp >= heap_end
       /\ IF HpException THEN hp_et = HpExceptionLimit /\ hp_old = heap_end ELSE hp_et = heap_end
  /\ \A x \in hp_blocks : Aligned(x[1]) /\ x[1] + x[2] <= heap_end
  /\ \A x, y \in hp_blocks : x # y /\ x[2] > 0 /\ y[2] > 0 =>
                               x[1] + x[2] <= y[1] \/ y[1] + y[2] <= x[1]

\* Every call of sbrk, push, pop, check and exception keeps that the break is whole
\* words, below the stack, and noted in the stack limit (alt_sbrk.c:68-136,
\* alt_stack.h:61-95).
LEMMA HpKept ==
  ASSUME AlignedIncrements, HpInv, [HpNext]_hpVars
  PROVE  HpInv'
<1>0. HpLimit \in Nat /\ HpIncrements \subseteq Nat /\ HpWord \in Nat \ {0}
  BY HpAssumption
<1>1. CASE UNCHANGED hpVars
  BY <1>1 DEF hpVars, HpInv, HpException, HpOnStack
<1>2. CASE hp_stop = "none" /\ HpGrow
  <2>1. PICK incr \in HpIncrements : ALT_SBRK(incr)
    BY <1>2 DEF HpGrow
  <2>2. heap_end \in Nat /\ HpRoundUp(heap_end) = heap_end
    BY AlignedFacts DEF HpInv
  <2>3. incr \in Nat /\ Aligned(incr) /\ UNCHANGED <<hp_check, hp_sp>> /\ hp_stop = "none"
    BY <1>0, <1>2 DEF HpGrow, AlignedIncrements
  <2>4. CASE heap_end + incr > HpLimit
    <3>1. heap_end' = heap_end /\ UNCHANGED <<hp_et, hp_old, hp_stop, hp_blocks>>
      BY <2>1, <2>2, <2>4 DEF ALT_SBRK
    <3> QED
      BY <2>3, <3>1 DEF HpInv, HpException, HpOnStack
  <2>5. CASE ~(heap_end + incr > HpLimit)
    <3>1. PICK end \in Nat : end = heap_end + incr
      BY <2>2, <2>3
    <3>2. /\ heap_end' = end
          /\ hp_blocks' = hp_blocks \cup {<<heap_end, incr>>}
          /\ hp_et' = IF hp_check /\ hp_et = heap_end THEN end ELSE hp_et
          /\ hp_old' = IF hp_check /\ hp_old = heap_end THEN end ELSE hp_old
          /\ hp_stop' = IF hp_check /\ hp_et = heap_end /\ HpPointer <= end THEN "stack"
                        ELSE IF hp_check /\ hp_old = heap_end /\ hp_old <= end THEN "old_limit"
                             ELSE "none"
      BY <2>1, <2>2, <2>5, <3>1 DEF ALT_SBRK
    <3>3. Aligned(end) /\ end <= HpLimit /\ heap_end <= end
      BY <1>0, <2>2, <2>3, <2>5, <3>1, AlignedFacts DEF HpInv
    <3>4. hp_check /\ hp_stop' = "none" => ~HpException /\ hp_et = heap_end /\ hp_sp > end /\ hp_old' = hp_old
      BY <1>0, <2>2, <2>3, <3>1, <3>2 DEF HpInv, HpPointer, HpException, HpNull
    <3>5. hp_old' \in Nat \cup {HpNull}
      BY <3>2 DEF HpInv
    <3>6. \A x \in hp_blocks' : x \in Nat \X Nat /\ Aligned(x[1]) /\ x[1] + x[2] <= end
      BY <2>2, <2>3, <3>1, <3>2, <3>3 DEF HpInv
    <3>7. \A x, y \in hp_blocks' : x # y /\ x[2] > 0 /\ y[2] > 0 =>
                                    x[1] + x[2] <= y[1] \/ y[1] + y[2] <= x[1]
      BY <2>2, <2>3, <3>1, <3>2 DEF HpInv
    <3> QED
      BY <2>3, <3>2, <3>3, <3>4, <3>5, <3>6, <3>7 DEF HpInv, HpException, HpOnStack
  <2> QED
    BY <2>4, <2>5
<1>3. CASE hp_stop = "none" /\ HpPush
  <2>1. HpOnStack' /\ hp_sp' \in Int /\ -HpWord < hp_sp'
    BY <1>3, StackMoves DEF HpPush, HpInv
  <2> QED
    BY <1>0, <1>3, <2>1 DEF HpPush, HpInv, HpException
<1>4. CASE hp_stop = "none" /\ HpPop
  <2>1. HpOnStack' /\ hp_sp' \in Int /\ -HpWord < hp_sp'
    BY <1>4, StackMoves DEF HpPop, HpInv
  <2> QED
    BY <1>0, <1>4, <2>1 DEF HpPop, HpInv, HpException
<1>5. CASE hp_stop = "none" /\ HpEnter
  BY <1>0, <1>5 DEF HpEnter, HpInv, HpException, HpNull, HpOnStack
<1>6. CASE hp_stop = "none" /\ HpLeave
  BY <1>0, <1>6 DEF HpLeave, HpInv, HpException, HpNull, HpOnStack
<1> QED
  BY <1>1, <1>2, <1>3, <1>4, <1>5, <1>6 DEF HpNext

\* The heap begins at the end of the program, on a word, with an empty stack above it
\* (alt_sbrk.c:57-64).
LEMMA HpStarts ==
  ASSUME HpInit
  PROVE  HpInv
<1>1. HpLimit \in Nat /\ HpWord \in Nat \ {0} 
  BY HpAssumption
<1>2. HpInit => HpOnStack
  <2>1. HpInit => HpLimit = hp_sp + HpWords(0)
    BY <1>1, WordsOfStack DEF HpInit
  <2> QED
    BY <2>1 DEF HpOnStack
<1> QED
  BY <1>1, <1>2, AlignedFacts DEF HpInit, HpInv, HpException, HpNull

\* Rounding up makes no address smaller (alt_sbrk.c:76).
LEMMA RoundsUp ==
  ASSUME NEW a \in Nat
  PROVE  a <= HpRoundUp(a) /\ HpRoundUp(a) \in Nat
<1>1. HpWord \in Nat \ {0}
  BY HpAssumption
<1>2. PICK w \in Nat \ {0} : w = HpWord
  BY <1>1
<1>3. PICK b \in Nat : b = a + w - 1
  BY <1>2
<1>4. PICK q \in Nat, r \in 0..(w - 1) : b \div w = q /\ b = w * q + r
  OBVIOUS
<1>5. PICK p \in Nat : p = q * w /\ p = w * q
  OBVIOUS
<1>6. HpRoundUp(a) = p
  BY <1>2, <1>3, <1>4, <1>5 DEF HpRoundUp
<1>7. b = p + r
  BY <1>4, <1>5
<1> HIDE <1>4, <1>5
<1> QED
  BY <1>2, <1>3, <1>6, <1>7

\* The invariant implies the properties that the runs check.
LEMMA HpMeans ==
  ASSUME HpInv
  PROVE  HpTypeOK /\ HeapApartFromStack /\ LimitFollowsHeap
<1>1. HpLimit \in Nat /\ HpWord \in Nat \ {0}
  BY HpAssumption
<1>2. /\ hp_check \in BOOLEAN /\ heap_end \in Nat /\ heap_end <= HpLimit
      /\ hp_sp \in Int /\ -HpWord < hp_sp
  BY DEF HpInv
<1>3. HpTypeOK
  <2>1. hp_sp <= HpLimit
    <3>1. PICK k \in Nat : HpLimit = hp_sp + HpWords(k)
      BY DEF HpInv, HpOnStack
    <3> QED
      BY <1>1, <1>2, <3>1, WordsOfStack
  <2>2. HpLimit <= HpRoundUp(HpLimit) /\ HpRoundUp(HpLimit) \in Nat
    BY <1>1, RoundsUp
  <2>3. heap_end \in 0 .. HpRoundUp(HpLimit)
    BY <1>1, <1>2, <2>2
  <2>4. hp_sp \in -HpWord .. HpLimit
    BY <1>1, <1>2, <2>1
  <2> QED
    BY <1>2, <2>3, <2>4 DEF HpTypeOK
<1>4. HeapApartFromStack
  <2>1. ASSUME NEW x \in hp_blocks
        PROVE  /\ x[1] % HpWord = 0 /\ x[1] + x[2] <= HpLimit
               /\ hp_check /\ hp_stop = "none" => x[1] + x[2] <= hp_sp
    <3>1. x[1] \in Nat /\ x[2] \in Nat /\ x[1] % HpWord = 0 /\ x[1] + x[2] <= heap_end
      BY DEF HpInv, Aligned
    <3>2. hp_check /\ hp_stop = "none" => hp_sp >= heap_end
      BY DEF HpInv
    <3> QED
      BY <1>1, <1>2, <3>1, <3>2
  <2>2. \A x, y \in hp_blocks : x # y /\ x[2] > 0 /\ y[2] > 0 =>
                                 x[1] + x[2] <= y[1] \/ y[1] + y[2] <= x[1]
    BY DEF HpInv
  <2> QED
    BY <2>1, <2>2 DEF HeapApartFromStack
<1>5. LimitFollowsHeap
  BY DEF HpInv, LimitFollowsHeap
<1> QED
  BY <1>3, <1>4, <1>5

\* For every size of the memory: a heap that grows by whole words stays in its memory
\* and, built with ALT_STACK_CHECK, never grows into the stack, and the limit that the
\* stack is checked against is the end of the heap (alt_sbrk.c:68-136,
\* alt_stack.h:61-95). With other increments the last fails (README, section 3).
THEOREM HeapAndStackApart ==
  ASSUME AlignedIncrements
  PROVE  HpSpec => [](HpTypeOK /\ HeapApartFromStack /\ LimitFollowsHeap)
<1>1. HpInit => HpInv
  BY HpStarts
<1>2. HpInv /\ [HpNext]_hpVars => HpInv'
  BY HpKept
<1>3. HpInv => HpTypeOK /\ HeapApartFromStack /\ LimitFollowsHeap
  BY HpMeans
<1> QED
  BY <1>1, <1>2, <1>3, PTL DEF HpSpec

-----------------------------------------------------------------------------
(* Start-up and exit (crt0.S, alt_load.c, alt_main.c, alt_exit.c).         *)

Loadable == DOMAIN BtLayout
Loads == {"rwdata", "exceptions", "rodata"}

\* The linker lays nothing over anything, copies what the program changes, and leaves
\* where it is what the start does not copy.
LaidOut ==
  /\ \A c, d \in BtCopies : ~BtSame(c, d) => ~BtOverlap(c, d)
  /\ BtPlace(<<"run", "rwdata">>) # BtPlace(<<"image", "rwdata">>)
  /\ \A s \in Loadable \ (Loads \cup {"bss"}) : BtPlace(<<"run", s>>) = BtPlace(<<"image", s>>)

BtEvent == {<<"close">>, <<"alt_io_redirect">>} \cup ({"_do_ctors", "_do_dtors"} \X (1 .. BtCtors))

BtPlaces ==
  {<<"_start">>, <<"alt_main">>, <<"streams">>, <<"main">>, <<"crt0_loop">>, <<"_exit">>, <<"spin">>}
    \cup ({"alt_load"} \X (1..3)) \cup ({"alt_sys_init"} \X (1..5))
    \cup ({"_do_ctors", "_do_dtors"} \X (1 .. BtCtors))

Run(s) == <<"run", s>>
Img(s) == <<"image", s>>
Stage(at) == at[1]
TurnOf(at) == at[2]
EntryName(e) == e[1]
Values == {"fresh", "old", "bad"}

\* The images are never touched, nor is what runs where its image is; each section is
\* fresh from the step of the start that makes it so.
LoadOK(at, mem) ==
  /\ mem \in [BtCopies -> Values]
  /\ \A s \in Loadable \ {"bss"} : mem[Img(s)] = "fresh"
  /\ \A s \in Loadable \ {"rwdata", "bss"} :
       BtPlace(Run(s)) = BtPlace(Img(s)) => mem[Run(s)] = "fresh"
  /\ Stage(at) \in {"alt_load", "alt_main", "alt_sys_init", "streams", "_do_ctors"} => mem[Run("bss")] = "fresh"
  /\ Stage(at) = "alt_load" => \A j \in 1..3 : j < TurnOf(at) => mem[Run(BtLoaded[j])] = "fresh"
  /\ Stage(at) \in {"alt_main", "alt_sys_init", "streams", "_do_ctors"} =>
       \A s \in Loadable : mem[Run(s)] = "fresh"

-----------------------------------------------------------------------------
\* The parts of a place of the start-up and of an event.
LEMMA Stages ==
  /\ \A x : Stage(<<x>>) = x
  /\ \A x, i : Stage(<<x, i>>) = x /\ TurnOf(<<x, i>>) = i
  /\ \A x : EntryName(<<x>>) = x
  /\ \A x, i : EntryName(<<x, i>>) = x
BY DEF Stage, TurnOf, EntryName

\* The copies of a section in memory and in the image, which share a place or not
\* (linker.x:213-266).
LEMMA Copies ==
  /\ {"rwdata", "exceptions", "rodata", "bss"} \subseteq Loadable
  /\ \A s \in Loadable : Run(s) \in BtCopies /\ Img(s) \in BtCopies
  /\ \A s, t : Run(s) # Img(t) /\ (Run(s) = Run(t) => s = t)
  /\ \A s, t : BtSame(Run(s), Run(t)) <=> s = t
  /\ \A s, t : BtSame(Run(s), Img(t)) <=> s = t /\ BtPlace(Run(s)) = BtPlace(Img(s))
  /\ \A c \in BtCopies : \E s \in Loadable : c = Run(s) \/ c = Img(s)
<1>1. {"rwdata", "exceptions", "rodata", "bss"} \subseteq Loadable
  BY BtAssumption DEF Loadable
<1>2. /\ \A s \in Loadable : Run(s) \in BtCopies /\ Img(s) \in BtCopies
      /\ \A s, t : Run(s) # Img(t) /\ (Run(s) = Run(t) => s = t)
      /\ \A c \in BtCopies : \E s \in Loadable : c = Run(s) \/ c = Img(s)
  BY DEF BtCopies, Run, Img, Loadable
<1>3. \A s, t : BtSame(Run(s), Run(t)) <=> s = t
  BY DEF BtSame, Run
<1>4. \A s, t : BtSame(Run(s), Img(t)) <=> s = t /\ BtPlace(Run(s)) = BtPlace(Img(s))
  BY DEF BtSame, Run, Img
<1> QED
  BY <1>1, <1>2, <1>3, <1>4

\* Nothing else lies where a copy is written.
LEMMA RunWritten ==
  ASSUME LaidOut, NEW s \in Loadable, NEW value \in Values, bt_mem \in [BtCopies -> Values],
         BtWrite(Run(s), value)
  PROVE  /\ bt_mem' \in [BtCopies -> Values]
         /\ \A t \in Loadable : bt_mem'[Run(t)] = IF s = t THEN value ELSE bt_mem[Run(t)]
         /\ \A t \in Loadable : bt_mem'[Img(t)] =
              IF s = t /\ BtPlace(Run(s)) = BtPlace(Img(s)) THEN value ELSE bt_mem[Img(t)]
<1>1. Run(s) \in BtCopies
  BY Copies
<1>2. bt_mem' = [d \in BtCopies |->
                   IF BtSame(Run(s), d) THEN value ELSE IF BtOverlap(Run(s), d) THEN "bad" ELSE bt_mem[d]]
  BY DEF BtWrite
<1>3. \A d \in BtCopies : bt_mem'[d] = IF BtSame(Run(s), d) THEN value ELSE bt_mem[d]
  BY <1>1, <1>2 DEF LaidOut
<1>4. bt_mem' \in [BtCopies -> Values]
  BY <1>2, <1>3
<1> QED
  BY <1>3, <1>4, Copies

\* alt_load copies three sections in this order (alt_load.c:69-91).
LEMMA Loads3 ==
  /\ DOMAIN BtLoaded = 1..3 /\ Len(BtLoaded) = 3
  /\ BtLoaded[1] = "rwdata" /\ BtLoaded[2] = "exceptions" /\ BtLoaded[3] = "rodata"
  /\ \A i \in 1..3 : BtLoaded[i] \in Loads
BY DEF BtLoaded, Loads

\* crt0 clears bss and touches nothing else (crt0.S:434-460).
LEMMA ClearBssLoads ==
  ASSUME LaidOut, LoadOK(bt_at, bt_mem), BtClearBss
  PROVE  LoadOK(bt_at', bt_mem')
<1>1. bt_at' = <<"alt_load", 1>> /\ BtWrite(Run("bss"), "fresh")
  BY DEF BtClearBss, BtGo, Run
<1>2. Stage(bt_at') = "alt_load" /\ TurnOf(bt_at') = 1
  BY <1>1, Stages
<1>3. "bss" \in Loadable /\ "fresh" \in Values
  BY Copies DEF Values
<1>4. /\ bt_mem' \in [BtCopies -> Values]
      /\ \A t \in Loadable : bt_mem'[Run(t)] = IF "bss" = t THEN "fresh" ELSE bt_mem[Run(t)]
      /\ \A t \in Loadable : t # "bss" => bt_mem'[Img(t)] = bt_mem[Img(t)]
  <2>1. bt_mem \in [BtCopies -> Values]
    BY DEF LoadOK
  <2> QED
    BY <1>1, <1>3, <2>1, RunWritten
<1> QED
  BY <1>2, <1>3, <1>4 DEF LoadOK

\* alt_load copies a section unless it runs where its image is, and touches nothing
\* else (alt_load.c:67-99, alt_load.h:67-78).
LEMMA SectionLoads ==
  ASSUME LaidOut, LoadOK(bt_at, bt_mem), alt_load
  PROVE  LoadOK(bt_at', bt_mem')
<1>1. PICK i \in 1..3 :
        /\ bt_at = <<"alt_load", i>>
        /\ bt_at' = IF i < 3 THEN <<"alt_load", i + 1>> ELSE <<"alt_main">>
        /\ alt_load_section(BtLoaded[i])
  BY Loads3 DEF alt_load, BtGo
<1>2. PICK s \in Loads : s = BtLoaded[i] /\ s \in Loadable /\ s # "bss"
  BY <1>1, Loads3, Copies DEF Loads
<1>3. /\ Stage(bt_at) = "alt_load" /\ TurnOf(bt_at) = i
      /\ i < 3 => Stage(bt_at') = "alt_load" /\ TurnOf(bt_at') = i + 1
      /\ ~(i < 3) => Stage(bt_at') = "alt_main"
  BY <1>1, Stages
<1>4. /\ bt_mem' \in [BtCopies -> Values]
      /\ \A t \in Loadable : bt_mem'[Run(t)] = IF s = t THEN "fresh" ELSE bt_mem[Run(t)]
      /\ \A t \in Loadable : bt_mem'[Img(t)] = bt_mem[Img(t)]
  <2>1. bt_mem \in [BtCopies -> Values] /\ bt_mem[Img(s)] = "fresh" /\ "fresh" \in Values
    BY <1>2 DEF LoadOK, Values
  <2>2. CASE BtPlace(Run(s)) = BtPlace(Img(s))
    <3>1. bt_mem' = bt_mem
      BY <1>1, <1>2, <2>2 DEF alt_load_section, Run, Img
    <3>2. s # "rwdata"
      BY <2>2 DEF LaidOut, Run, Img
    <3>3. bt_mem[Run(s)] = "fresh"
      BY <1>2, <2>2, <3>2 DEF LoadOK
    <3> QED
      BY <2>1, <3>1, <3>3
  <2>3. CASE BtPlace(Run(s)) # BtPlace(Img(s))
    <3>1. BtWrite(Run(s), "fresh")
      BY <1>1, <1>2, <2>1, <2>3 DEF alt_load_section, Run, Img
    <3> QED
      BY <1>2, <2>1, <2>3, <3>1, RunWritten
  <2> QED
    BY <2>2, <2>3
<1>5. bt_mem'[Run("bss")] = "fresh"
  BY <1>2, <1>3, <1>4, Copies DEF LoadOK
<1>6. \A j \in 1..3 : j <= i => bt_mem'[Run(BtLoaded[j])] = "fresh"
  <2>1. \A j \in 1..3 : BtLoaded[j] \in Loadable
    BY Loads3, Copies DEF Loads
  <2> QED
    BY <1>2, <1>3, <1>4, <2>1 DEF LoadOK
<1>7. ~(i < 3) => \A t \in Loadable : bt_mem'[Run(t)] = "fresh"
  <2> SUFFICES ASSUME i = 3, NEW t \in Loadable PROVE bt_mem'[Run(t)] = "fresh"
    OBVIOUS
  <2>1. CASE t \in Loads
    BY <1>6, <2>1, Loads3 DEF Loads
  <2>2. CASE t \notin Loads \cup {"bss"}
    <3>1. BtPlace(Run(t)) = BtPlace(Img(t)) /\ t \notin {"rwdata", "bss"} /\ t # s
      BY <1>2, <2>2 DEF LaidOut, Run, Img, Loads
    <3> QED
      BY <1>4, <3>1 DEF LoadOK
  <2> QED
    BY <1>5, <2>1, <2>2
<1>8. \A t \in Loadable \ {"rwdata", "bss"} :
        BtPlace(Run(t)) = BtPlace(Img(t)) => bt_mem'[Run(t)] = "fresh"
  BY <1>4 DEF LoadOK
<1>9. \A t \in Loadable \ {"bss"} : bt_mem'[Img(t)] = "fresh"
  BY <1>4 DEF LoadOK
<1> QED
  BY <1>3, <1>4, <1>5, <1>6, <1>7, <1>8, <1>9 DEF LoadOK

\* Where the start goes on without memory.
LEMMA NoLoads ==
  ASSUME LoadOK(bt_at, bt_mem), bt_mem' = bt_mem,
         Stage(bt_at') \in {"alt_main", "alt_sys_init", "streams", "_do_ctors"} =>
           Stage(bt_at) \in {"alt_main", "alt_sys_init", "streams", "_do_ctors"},
         Stage(bt_at') # "alt_load"
  PROVE  LoadOK(bt_at', bt_mem')
BY Copies DEF LoadOK

\* Until main all sections stay as they were compiled; main may store to what is its
\* own (alt_main.c:123-160).
LEMMA MainLoads ==
  ASSUME LoadOK(bt_at, bt_mem), BtMain
  PROVE  LoadOK(bt_at', bt_mem')
<1>1. /\ bt_mem' = [bt_mem EXCEPT ![Run("rwdata")] = "old", ![Run("bss")] = "old"]
      /\ \/ bt_at' = <<"main">> \/ bt_at' = <<"crt0_loop">> \/ bt_at' = <<"_exit">>
         \/ bt_at' = <<"_do_dtors", BtCtors>>
  BY DEF BtMain, Run
<1>2. Stage(bt_at') \in {"main", "crt0_loop", "_exit", "_do_dtors"}
  BY <1>1, Stages
<1>3. /\ bt_mem' \in [BtCopies -> Values]
      /\ \A t \in Loadable : bt_mem'[Img(t)] = bt_mem[Img(t)]
      /\ \A t \in Loadable : t \notin {"rwdata", "bss"} => bt_mem'[Run(t)] = bt_mem[Run(t)]
  <2>1. bt_mem \in [BtCopies -> Values] /\ "old" \in Values
    BY DEF LoadOK, Values
  <2>2. \A c \in BtCopies : c # Run("rwdata") /\ c # Run("bss") => bt_mem'[c] = bt_mem[c]
    BY <1>1, <2>1
  <2>3. bt_mem' \in [BtCopies -> Values]
    BY <1>1, <2>1
  <2> QED
    BY <2>2, <2>3, Copies
<1> QED
  BY <1>2, <1>3 DEF LoadOK

\* Before the first start the images are what the compiler made, the rest anything
\* (linker.x:213-266).
LEMMA FirstLoads ==
  ASSUME LaidOut, BtInit
  PROVE  LoadOK(bt_at, bt_mem)
<1>1. /\ bt_mem = [c \in BtCopies |-> IF c[1] = "image" \/ BtPlace(c) = BtPlace(<<"image", c[2]>>)
                                      THEN "fresh" ELSE "bad"]
      /\ bt_at = <<"_start">>
  BY DEF BtInit
<1>2. Stage(bt_at) = "_start"
  BY <1>1, Stages
<1>3. bt_mem \in [BtCopies -> Values]
  BY <1>1 DEF Values
<1>4. \A s \in Loadable : bt_mem[Img(s)] = "fresh"
  BY <1>1, Copies DEF Img
<1>5. \A s \in Loadable : BtPlace(Run(s)) = BtPlace(Img(s)) => bt_mem[Run(s)] = "fresh"
  BY <1>1, Copies DEF Img, Run
<1> QED
  BY <1>2, <1>3, <1>4, <1>5 DEF LoadOK

-----------------------------------------------------------------------------
\* A list has been run from its last entry down to this one.
Turns(ran, name) == {i \in DOMAIN ran : EntryName(ran[i]) = name}
RanTo(ran, name, k) ==
  /\ {TurnOf(ran[i]) : i \in Turns(ran, name)} = k .. BtCtors
  /\ \A i, j \in Turns(ran, name) : i < j => TurnOf(ran[i]) > TurnOf(ran[j])
Closed(ran) == <<"close">> \in {ran[i] : i \in DOMAIN ran}
First(skipped) == IF skipped THEN BtCtors + 1 ELSE 1

\* What has been run, by the place of the boot.
RanOK(at, with, ran) ==
  /\ at \in BtPlaces
  /\ ran \in Seq(BtEvent)
  /\ Stage(at) \in {"_start", "alt_load", "alt_main", "alt_sys_init", "streams"} =>
       RanTo(ran, "_do_ctors", BtCtors + 1) /\ RanTo(ran, "_do_dtors", BtCtors + 1)
  /\ Stage(at) = "_do_ctors" =>
       /\ "no_cpp" \notin with
       /\ RanTo(ran, "_do_ctors", TurnOf(at) + 1) /\ RanTo(ran, "_do_dtors", BtCtors + 1)
  /\ Stage(at) = "main" =>
       RanTo(ran, "_do_ctors", First("no_cpp" \in with)) /\ RanTo(ran, "_do_dtors", BtCtors + 1)
  /\ Stage(at) = "_do_dtors" =>
       /\ {"no_cpp", "no_clean_exit"} \cap with = {} /\ Closed(ran)
       /\ RanTo(ran, "_do_ctors", 1) /\ RanTo(ran, "_do_dtors", TurnOf(at) + 1)
  /\ Stage(at) \in {"_exit", "spin"} =>
       /\ Closed(ran) /\ RanTo(ran, "_do_ctors", First("no_cpp" \in with))
       /\ RanTo(ran, "_do_dtors", First({"no_cpp", "no_clean_exit"} \cap with # {}))

\* An event more is the last, and closing the files is the last but ALT_EXIT's loop
\* (alt_exit.c:52-71).
LEMMA OneMore ==
  ASSUME NEW ran \in Seq(BtEvent), NEW e \in BtEvent
  PROVE  /\ Append(ran, e) \in Seq(BtEvent)
         /\ DOMAIN Append(ran, e) = DOMAIN ran \cup {Len(ran) + 1}
         /\ \A i \in DOMAIN ran : Append(ran, e)[i] = ran[i] /\ i \in Nat /\ i < Len(ran) + 1
         /\ Append(ran, e)[Len(ran) + 1] = e /\ Len(ran) + 1 \notin DOMAIN ran
         /\ Closed(ran) \/ e = <<"close">> => Closed(Append(ran, e))
<1>1. /\ Append(ran, e) \in Seq(BtEvent) /\ Len(ran) \in Nat /\ DOMAIN ran = 1 .. Len(ran)
      /\ Len(Append(ran, e)) = Len(ran) + 1
      /\ \A i \in 1 .. Len(ran) : Append(ran, e)[i] = ran[i]
      /\ Append(ran, e)[Len(ran) + 1] = e
  BY AppendProperties, LenProperties
<1>2. DOMAIN Append(ran, e) = 1 .. Len(ran) + 1
  BY <1>1, LenProperties
<1> QED
  BY <1>1, <1>2 DEF Closed

\* An event of another table does not change what a table has run.
LEMMA OtherRun ==
  ASSUME NEW ran \in Seq(BtEvent), NEW e \in BtEvent, NEW name, EntryName(e) # name, NEW k
  PROVE  RanTo(ran, name, k) => RanTo(Append(ran, e), name, k)
<1>1. Turns(Append(ran, e), name) = Turns(ran, name)
  BY OneMore DEF Turns
<1>2. \A i \in Turns(ran, name) : Append(ran, e)[i] = ran[i]
  BY OneMore DEF Turns
<1> QED
  BY <1>1, <1>2, Zenon DEF RanTo

\* The tables are run from their last entry down, one at a time
\* (alt_do_ctors.c:58-64, alt_do_dtors.c:58-64).
LEMMA EntryRun ==
  ASSUME NEW ran \in Seq(BtEvent), NEW name, NEW k \in 1 .. BtCtors, <<name, k>> \in BtEvent,
         RanTo(ran, name, k + 1)
  PROVE  RanTo(Append(ran, <<name, k>>), name, k)
<1> DEFINE e == <<name, k>>
           n == Len(ran) + 1
<1>1. EntryName(e) = name /\ TurnOf(e) = k
  BY Stages
<1>2. BtCtors \in Nat
  BY BtAssumption
<1> HIDE DEF e
<1>3. /\ Turns(Append(ran, e), name) = Turns(ran, name) \cup {n}
      /\ \A i \in Turns(ran, name) : Append(ran, e)[i] = ran[i] /\ i \in Nat /\ i < n
      /\ Append(ran, e)[n] = e /\ n \in Nat
  <2>1. e \in BtEvent /\ Len(ran) \in Nat
    BY LenProperties DEF e
  <2> QED
    BY <1>1, <2>1, OneMore DEF Turns
<1> HIDE DEF n
<1>4. PICK more, T : more = Append(ran, e) /\ T = Turns(ran, name)
  OBVIOUS
<1>5. /\ Turns(more, name) = T \cup {n} /\ n \in Nat /\ TurnOf(more[n]) = k
      /\ \A i \in T : more[i] = ran[i] /\ i \in Nat /\ i < n
  BY <1>1, <1>3, <1>4
<1>6. /\ {TurnOf(ran[i]) : i \in T} = (k + 1) .. BtCtors
      /\ \A i, j \in T : i < j => TurnOf(ran[i]) > TurnOf(ran[j])
  BY <1>4, Zenon DEF RanTo
<1>7. \A i \in T : TurnOf(ran[i]) \in (k + 1) .. BtCtors
  BY <1>6
<1>8. {TurnOf(more[i]) : i \in Turns(more, name)} = k .. BtCtors
  <2>1. {TurnOf(more[i]) : i \in Turns(more, name)} = {TurnOf(ran[i]) : i \in T} \cup {k}
    BY <1>5
  <2>2. ((k + 1) .. BtCtors) \cup {k} = k .. BtCtors
    BY <1>2
  <2> QED
    BY <1>6, <2>1, <2>2, Zenon
<1>9. \A i, j \in Turns(more, name) : i < j => TurnOf(more[i]) > TurnOf(more[j])
  <2> SUFFICES ASSUME NEW i \in T \cup {n}, NEW j \in T \cup {n}, i < j
               PROVE  TurnOf(more[i]) > TurnOf(more[j])
    BY <1>5
  <2>1. i \in T /\ more[i] = ran[i]
    BY <1>5
  <2>2. CASE j \in T
    BY <1>5, <1>6, <2>1, <2>2
  <2>3. CASE j = n
    <3>1. TurnOf(ran[i]) \in (k + 1) .. BtCtors
      BY <1>7, <2>1
    <3> QED
      BY <1>2, <1>5, <2>1, <2>3, <3>1
  <2> QED
    BY <2>2, <2>3
<1> QED
  BY <1>4, <1>8, <1>9, Zenon DEF RanTo, e

\* A reset forgets what was run.
LEMMA NothingRun ==
  /\ <<>> \in Seq(BtEvent)
  /\ \A name : RanTo(<<>>, name, BtCtors + 1)
BY BtAssumption DEF RanTo, Turns

\* The events of the start-up are the closing of files, the redirection of stdio and
\* an entry of a table each.
LEMMA Events ==
  /\ <<"close">> \in BtEvent /\ <<"alt_io_redirect">> \in BtEvent
  /\ \A k \in 1 .. BtCtors : <<"_do_ctors", k>> \in BtEvent /\ <<"_do_dtors", k>> \in BtEvent
BY DEF BtEvent

\* The places of the start-up.
LEMMA PlacesOfBoot ==
  /\ \A x \in {"_start", "alt_main", "streams", "main", "crt0_loop", "_exit", "spin"} : <<x>> \in BtPlaces
  /\ \A i \in 1..3 : <<"alt_load", i>> \in BtPlaces
  /\ \A i \in 1..5 : <<"alt_sys_init", i>> \in BtPlaces
  /\ \A i \in 1 .. BtCtors : <<"_do_ctors", i>> \in BtPlaces /\ <<"_do_dtors", i>> \in BtPlaces
BY DEF BtPlaces

\* The steps before the constructors run nothing.
LEMMA EarlyRuns ==
  ASSUME RanOK(bt_at, bt_with, bt_ran), bt_with' = bt_with, bt_ran' = bt_ran,
         bt_at' \in BtPlaces,
         Stage(bt_at) \in {"_start", "alt_load", "alt_main", "alt_sys_init"},
         Stage(bt_at') \in {"alt_load", "alt_main", "alt_sys_init", "streams"}
  PROVE  RanOK(bt_at', bt_with', bt_ran')
BY DEF RanOK

\* stdio is redirected once, before the constructors (alt_main.c:105-121).
LEMMA StreamsRun ==
  ASSUME RanOK(bt_at, bt_with, bt_ran), BtStreams
  PROVE  RanOK(bt_at', bt_with', bt_ran') /\ Stage(bt_at) = "streams" /\ Stage(bt_at') \in {"main", "_do_ctors"}
<1>1. /\ bt_at = <<"streams">> /\ bt_with' = bt_with
      /\ bt_at' = IF "no_cpp" \in bt_with \/ BtCtors = 0 THEN <<"main">> ELSE <<"_do_ctors", BtCtors>>
      /\ bt_ran' = IF "direct" \in bt_with THEN bt_ran ELSE Append(bt_ran, <<"alt_io_redirect">>)
  BY DEF BtStreams, BtGo
<1>2. Stage(bt_at) = "streams"
  BY <1>1, Stages
<1>3. /\ bt_ran' \in Seq(BtEvent) /\ RanTo(bt_ran', "_do_ctors", BtCtors + 1)
      /\ RanTo(bt_ran', "_do_dtors", BtCtors + 1)
  <2>1. /\ bt_ran \in Seq(BtEvent) /\ RanTo(bt_ran, "_do_ctors", BtCtors + 1)
        /\ RanTo(bt_ran, "_do_dtors", BtCtors + 1)
    BY <1>2 DEF RanOK
  <2>2. EntryName(<<"alt_io_redirect">>) = "alt_io_redirect"
    BY Stages
  <2> QED
    BY <1>1, <2>1, <2>2, Events, OneMore, OtherRun
<1>4. BtCtors \in Nat
  BY BtAssumption
<1>5. CASE "no_cpp" \in bt_with \/ BtCtors = 0
  <2>1. bt_at' = <<"main">> /\ Stage(bt_at') = "main" /\ bt_at' \in BtPlaces
    BY <1>1, <1>5, Stages, PlacesOfBoot
  <2>2. First("no_cpp" \in bt_with) = BtCtors + 1
    BY <1>5, <1>4 DEF First
  <2> QED
    BY <1>1, <1>2, <1>3, <2>1, <2>2 DEF RanOK
<1>6. CASE ~("no_cpp" \in bt_with \/ BtCtors = 0)
  <2>1. /\ bt_at' = <<"_do_ctors", BtCtors>> /\ Stage(bt_at') = "_do_ctors" /\ TurnOf(bt_at') = BtCtors
        /\ bt_at' \in BtPlaces
    <3>1. BtCtors \in 1 .. BtCtors
      BY <1>4, <1>6
    <3>2. bt_at' = <<"_do_ctors", BtCtors>>
      BY <1>1, <1>6
    <3> QED
      BY <3>1, <3>2, Stages, PlacesOfBoot
  <2> QED
    BY <1>1, <1>2, <1>3, <1>6, <2>1 DEF RanOK
<1> QED
  BY <1>5, <1>6

\* One constructor is called, the next of its table (alt_do_ctors.c:58-64).
LEMMA CtorsRun ==
  ASSUME RanOK(bt_at, bt_with, bt_ran), _do_ctors
  PROVE  RanOK(bt_at', bt_with', bt_ran') /\ Stage(bt_at) = "_do_ctors" /\ Stage(bt_at') \in {"main", "_do_ctors"}
<1>1. PICK i \in 1 .. BtCtors :
        /\ bt_at = <<"_do_ctors", i>> /\ bt_at' = IF i > 1 THEN <<"_do_ctors", i - 1>> ELSE <<"main">>
        /\ bt_ran' = Append(bt_ran, <<"_do_ctors", i>>)
  BY DEF _do_ctors, BtList, BtGo
<1>2. bt_with' = bt_with
  BY DEF _do_ctors, BtList
<1>3. Stage(bt_at) = "_do_ctors" /\ TurnOf(bt_at) = i
  BY <1>1, Stages
<1>4. /\ bt_ran \in Seq(BtEvent) /\ "no_cpp" \notin bt_with /\ RanTo(bt_ran, "_do_ctors", i + 1)
      /\ RanTo(bt_ran, "_do_dtors", BtCtors + 1)
  BY <1>3 DEF RanOK
<1>5. /\ bt_ran' \in Seq(BtEvent) /\ RanTo(bt_ran', "_do_ctors", i)
      /\ RanTo(bt_ran', "_do_dtors", BtCtors + 1)
  <2>1. EntryName(<<"_do_ctors", i>>) = "_do_ctors" /\ <<"_do_ctors", i>> \in BtEvent
    BY Stages, Events
  <2> QED
    BY <1>1, <1>4, <2>1, OneMore, OtherRun, EntryRun
<1>6. BtCtors \in Nat
  BY BtAssumption
<1>7. CASE i > 1
  <2>1. i - 1 \in 1 .. BtCtors /\ i - 1 + 1 = i
    BY <1>6, <1>7
  <2>2. bt_at' = <<"_do_ctors", i - 1>> /\ Stage(bt_at') = "_do_ctors" /\ TurnOf(bt_at') = i - 1
        /\ bt_at' \in BtPlaces
    BY <1>1, <1>7, <2>1, Stages, PlacesOfBoot
  <2> QED
    BY <1>2, <1>3, <1>4, <1>5, <2>1, <2>2 DEF RanOK
<1>8. CASE i = 1
  <2>1. bt_at' = <<"main">> /\ Stage(bt_at') = "main" /\ bt_at' \in BtPlaces
    BY <1>1, <1>8, Stages, PlacesOfBoot
  <2>2. First("no_cpp" \in bt_with) = 1
    BY <1>4 DEF First
  <2> QED
    BY <1>2, <1>3, <1>5, <1>8, <2>1, <2>2 DEF RanOK
<1> QED
  BY <1>7, <1>8

\* main runs after the constructors and returns to the destructors or the end
\* (alt_main.c:123-160).
LEMMA MainRuns ==
  ASSUME RanOK(bt_at, bt_with, bt_ran), BtMain
  PROVE  RanOK(bt_at', bt_with', bt_ran')
<1>1. /\ bt_at = <<"main">> /\ bt_with' = bt_with
      /\ bt_at' \in {<<"main">>,
           IF "no_exit" \in bt_with THEN <<"crt0_loop">>
           ELSE IF {"no_cpp", "no_clean_exit"} \cap bt_with # {} \/ BtCtors = 0 THEN <<"_exit">>
           ELSE <<"_do_dtors", BtCtors>>}
      /\ bt_ran' = IF bt_at' = <<"main">> THEN bt_ran
                   ELSE bt_ran \o (IF "no_exit" \in bt_with THEN <<>> ELSE << <<"close">> >>)
  BY DEF BtMain
<1>2. Stage(bt_at) = "main"
  BY <1>1, Stages
<1>3. /\ bt_ran \in Seq(BtEvent) /\ RanTo(bt_ran, "_do_ctors", First("no_cpp" \in bt_with))
      /\ RanTo(bt_ran, "_do_dtors", BtCtors + 1)
  BY <1>2 DEF RanOK
<1>4. BtCtors \in Nat
  BY BtAssumption
<1>5. CASE bt_at' = <<"main">>
  <2>1. bt_at' = bt_at /\ bt_ran' = bt_ran
    BY <1>1, <1>5
  <2> QED
    BY <1>1, <2>1
<1>6. CASE bt_at' # <<"main">> /\ "no_exit" \in bt_with
  <2>1. bt_at' = <<"crt0_loop">> /\ bt_ran' = bt_ran \o <<>>
    BY <1>1, <1>6
  <2>2. Stage(bt_at') = "crt0_loop" /\ bt_at' \in BtPlaces
    BY <2>1, Stages, PlacesOfBoot
  <2>3. bt_ran' = bt_ran
    BY <1>3, <2>1, ConcatEmptySeq
  <2> QED
    BY <1>1, <1>3, <2>2, <2>3 DEF RanOK
<1>7. CASE bt_at' # <<"main">> /\ "no_exit" \notin bt_with
  <2>1. bt_ran' = bt_ran \o << <<"close">> >>
    BY <1>1, <1>7
  <2>2. bt_ran' = Append(bt_ran, <<"close">>)
    BY <1>3, <2>1, Events, AppendIsConcat
  <2>3. /\ bt_ran' \in Seq(BtEvent) /\ RanTo(bt_ran', "_do_ctors", First("no_cpp" \in bt_with))
        /\ RanTo(bt_ran', "_do_dtors", BtCtors + 1) /\ Closed(bt_ran')
    <3>1. EntryName(<<"close">>) = "close" /\ <<"close">> \in BtEvent
      BY Stages, Events
    <3> QED
      BY <1>3, <2>2, <3>1, OneMore, OtherRun
  <2>4. CASE {"no_cpp", "no_clean_exit"} \cap bt_with # {} \/ BtCtors = 0
    <3>1. bt_at' = <<"_exit">> /\ Stage(bt_at') = "_exit" /\ bt_at' \in BtPlaces
      BY <1>1, <1>7, <2>4, Stages, PlacesOfBoot
    <3>2. First({"no_cpp", "no_clean_exit"} \cap bt_with # {}) = BtCtors + 1
      BY <1>4, <2>4 DEF First
    <3> QED
      BY <1>1, <2>3, <3>1, <3>2 DEF RanOK
  <2>5. CASE ~({"no_cpp", "no_clean_exit"} \cap bt_with # {} \/ BtCtors = 0)
    <3>1. /\ bt_at' = <<"_do_dtors", BtCtors>> /\ Stage(bt_at') = "_do_dtors" /\ TurnOf(bt_at') = BtCtors
          /\ bt_at' \in BtPlaces
      <4>1. BtCtors \in 1 .. BtCtors
        BY <1>4, <2>5
      <4>2. bt_at' = <<"_do_dtors", BtCtors>>
        BY <1>1, <1>7, <2>5
      <4> QED
        BY <4>1, <4>2, Stages, PlacesOfBoot
    <3>2. First("no_cpp" \in bt_with) = 1
      BY <2>5 DEF First
    <3> QED
      BY <1>1, <2>3, <2>5, <3>1, <3>2 DEF RanOK
  <2> QED
    BY <2>4, <2>5
<1> QED
  BY <1>5, <1>6, <1>7

\* One destructor is called, the next of its table (alt_do_dtors.c:58-64).
LEMMA DtorsRun ==
  ASSUME RanOK(bt_at, bt_with, bt_ran), _do_dtors
  PROVE  RanOK(bt_at', bt_with', bt_ran') /\ Stage(bt_at) = "_do_dtors" /\ Stage(bt_at') \in {"_exit", "_do_dtors"}
<1>1. PICK i \in 1 .. BtCtors :
        /\ bt_at = <<"_do_dtors", i>> /\ bt_at' = IF i > 1 THEN <<"_do_dtors", i - 1>> ELSE <<"_exit">>
        /\ bt_ran' = Append(bt_ran, <<"_do_dtors", i>>)
  BY DEF _do_dtors, BtList, BtGo
<1>2. bt_with' = bt_with
  BY DEF _do_dtors, BtList
<1>3. Stage(bt_at) = "_do_dtors" /\ TurnOf(bt_at) = i
  BY <1>1, Stages
<1>4. /\ bt_ran \in Seq(BtEvent) /\ {"no_cpp", "no_clean_exit"} \cap bt_with = {} /\ Closed(bt_ran)
      /\ RanTo(bt_ran, "_do_dtors", i + 1) /\ RanTo(bt_ran, "_do_ctors", 1)
  BY <1>3 DEF RanOK
<1>5. /\ bt_ran' \in Seq(BtEvent) /\ RanTo(bt_ran', "_do_dtors", i) /\ Closed(bt_ran')
      /\ RanTo(bt_ran', "_do_ctors", 1)
  <2>1. EntryName(<<"_do_dtors", i>>) = "_do_dtors" /\ <<"_do_dtors", i>> \in BtEvent
    BY Stages, Events
  <2> QED
    BY <1>1, <1>4, <2>1, OneMore, OtherRun, EntryRun
<1>6. BtCtors \in Nat
  BY BtAssumption
<1>7. CASE i > 1
  <2>1. i - 1 \in 1 .. BtCtors /\ i - 1 + 1 = i
    BY <1>6, <1>7
  <2>2. bt_at' = <<"_do_dtors", i - 1>> /\ Stage(bt_at') = "_do_dtors" /\ TurnOf(bt_at') = i - 1
        /\ bt_at' \in BtPlaces
    BY <1>1, <1>7, <2>1, Stages, PlacesOfBoot
  <2> QED
    BY <1>2, <1>3, <1>4, <1>5, <2>1, <2>2 DEF RanOK
<1>8. CASE i = 1
  <2>1. bt_at' = <<"_exit">> /\ Stage(bt_at') = "_exit" /\ bt_at' \in BtPlaces
    BY <1>1, <1>8, Stages, PlacesOfBoot
  <2>2. First("no_cpp" \in bt_with) = 1 /\ First({"no_cpp", "no_clean_exit"} \cap bt_with # {}) = 1
    BY <1>4 DEF First
  <2> QED
    BY <1>2, <1>3, <1>5, <1>8, <2>1, <2>2 DEF RanOK
<1> QED
  BY <1>7, <1>8

\* _exit closes the files and never returns (alt_exit.c:52-71).
LEMMA ExitRuns ==
  ASSUME RanOK(bt_at, bt_with, bt_ran), ALT_EXIT
  PROVE  RanOK(bt_at', bt_with', bt_ran') /\ Stage(bt_at') = "spin"
<1>1. bt_at = <<"_exit">> /\ bt_at' = <<"spin">> /\ bt_with' = bt_with /\ bt_ran' = bt_ran
  BY DEF ALT_EXIT, BtGo
<1>2. Stage(bt_at) = "_exit" /\ Stage(bt_at') = "spin" /\ bt_at' \in BtPlaces
  BY <1>1, Stages, PlacesOfBoot
<1> QED
  BY <1>1, <1>2 DEF RanOK

\* After a reset nothing has been run (crt0.S:225-240).
LEMMA ResetRuns ==
  ASSUME bt_at' = <<"_start">>, bt_ran' = <<>>, NEW with
  PROVE  RanOK(bt_at', with, bt_ran') /\ Stage(bt_at') = "_start"
<1>1. Stage(bt_at') = "_start" /\ bt_at' \in BtPlaces
  BY Stages, PlacesOfBoot
<1> QED
  BY <1>1, NothingRun DEF RanOK

-----------------------------------------------------------------------------
\* Lines are enabled after the drivers that register them, once interrupts are open.
DriverNames == {BtDrivers[i] : i \in 1..5}

LinesOK(at, irq, inits) ==
  /\ inits \in Seq(DriverNames) /\ irq = [pie |-> irq.pie, ienable |-> irq.ienable]
  /\ irq.ienable \subseteq {inits[i] : i \in DOMAIN inits} \cap BtLined
  /\ Stage(at) = "alt_sys_init" => irq.pie
  /\ irq.ienable # {} => irq.pie

BtInv == LoadOK(bt_at, bt_mem) /\ RanOK(bt_at, bt_with, bt_ran) /\ LinesOK(bt_at, bt_irq, bt_inits)

\* The other steps leave the interrupt lines as the drivers' initialisations left
\* them.
LEMMA LinesStay ==
  ASSUME LinesOK(bt_at, bt_irq, bt_inits), bt_irq' = bt_irq, bt_inits' = bt_inits,
         Stage(bt_at') # "alt_sys_init"
  PROVE  LinesOK(bt_at', bt_irq', bt_inits')
BY DEF LinesOK

\* alt_sys_init initialises five devices (alt_sys_init.c:72-77).
LEMMA Drivers5 ==
  DOMAIN BtDrivers = 1..5 /\ Len(BtDrivers) = 5
BY DEF BtDrivers

\* Each initialisation enables its own line after the controller was reset
\* (alt_sys_init.c:87-105).
LEMMA DriverInits ==
  ASSUME BtInv, alt_sys_init
  PROVE  BtInv'
<1>1. PICK i \in 1..5 :
        /\ bt_at = <<"alt_sys_init", i>>
        /\ bt_at' = IF i < 5 THEN <<"alt_sys_init", i + 1>> ELSE <<"streams">>
        /\ bt_inits' = Append(bt_inits, BtDrivers[i])
        /\ bt_irq' = [bt_irq EXCEPT !.ienable = @ \cup ({BtDrivers[i]} \cap BtLined)]
  BY Drivers5 DEF alt_sys_init, BtGo
<1>2. bt_with' = bt_with /\ bt_mem' = bt_mem /\ bt_ran' = bt_ran
  BY DEF alt_sys_init
<1>3. /\ Stage(bt_at) = "alt_sys_init" /\ Stage(bt_at') \in {"alt_sys_init", "streams"}
      /\ bt_at' \in BtPlaces
  <2>1. i < 5 => i + 1 \in 1..5
    OBVIOUS
  <2> QED
    BY <1>1, <2>1, Stages, PlacesOfBoot
<1>4. LoadOK(bt_at', bt_mem') /\ RanOK(bt_at', bt_with', bt_ran')
  BY <1>2, <1>3, NoLoads, EarlyRuns DEF BtInv
<1>5. PICK d \in DriverNames : d = BtDrivers[i]
  BY DEF DriverNames
<1>6. /\ bt_inits \in Seq(DriverNames) /\ bt_irq.pie
      /\ bt_irq.ienable \subseteq {bt_inits[j] : j \in DOMAIN bt_inits} \cap BtLined
      /\ bt_irq = [pie |-> bt_irq.pie, ienable |-> bt_irq.ienable]
  BY <1>3 DEF BtInv, LinesOK
<1>7. /\ bt_inits' \in Seq(DriverNames) /\ Len(bt_inits) \in Nat /\ DOMAIN bt_inits = 1 .. Len(bt_inits)
      /\ DOMAIN bt_inits' = 1 .. Len(bt_inits) + 1
      /\ \A j \in 1 .. Len(bt_inits) : bt_inits'[j] = bt_inits[j]
      /\ bt_inits'[Len(bt_inits) + 1] = d
  <2>1. bt_inits' = Append(bt_inits, d)
    BY <1>1, <1>5
  <2>2. /\ bt_inits' \in Seq(DriverNames) /\ Len(bt_inits') = Len(bt_inits) + 1
        /\ \A j \in 1 .. Len(bt_inits) : bt_inits'[j] = bt_inits[j]
        /\ bt_inits'[Len(bt_inits) + 1] = d
    BY <1>5, <1>6, <2>1, AppendProperties
  <2>3. /\ Len(bt_inits) \in Nat /\ DOMAIN bt_inits = 1 .. Len(bt_inits)
        /\ DOMAIN bt_inits' = 1 .. Len(bt_inits')
    BY <1>6, <2>2, LenProperties
  <2> QED
    BY <2>2, <2>3
<1>8. {bt_inits[j] : j \in DOMAIN bt_inits} \cup {d} \subseteq {bt_inits'[j] : j \in DOMAIN bt_inits'}
  <2>1. \A j \in DOMAIN bt_inits : j \in DOMAIN bt_inits' /\ bt_inits'[j] = bt_inits[j]
    BY <1>7
  <2>2. Len(bt_inits) + 1 \in DOMAIN bt_inits'
    BY <1>7
  <2> QED
    BY <1>7, <2>1, <2>2
<1>9. /\ bt_irq'.pie = bt_irq.pie /\ bt_irq'.ienable = bt_irq.ienable \cup ({d} \cap BtLined)
      /\ bt_irq' = [pie |-> bt_irq'.pie, ienable |-> bt_irq'.ienable]
  BY <1>1, <1>5, <1>6
<1>10. LinesOK(bt_at', bt_irq', bt_inits')
  BY <1>6, <1>7, <1>8, <1>9 DEF LinesOK
<1> QED
  BY <1>4, <1>10 DEF BtInv

\* Every step from the reset to the endless loop and back keeps the invariant
\* (alt_main.c:82-160, crt0.S:225-506).
LEMMA BtKept ==
  ASSUME LaidOut, BtInv, BtNext
  PROVE  BtInv'
<1>0. /\ LoadOK(bt_at, bt_mem) /\ RanOK(bt_at, bt_with, bt_ran) /\ LinesOK(bt_at, bt_irq, bt_inits)
  BY DEF BtInv
<1>1. CASE BtClearBss
  <2>1. /\ bt_at = <<"_start">> /\ bt_at' = <<"alt_load", 1>>
        /\ UNCHANGED <<bt_with, bt_irq, bt_inits, bt_ran>>
    BY <1>1 DEF BtClearBss, BtGo
  <2>2. Stage(bt_at) = "_start" /\ Stage(bt_at') = "alt_load" /\ bt_at' \in BtPlaces
    BY <2>1, Stages, PlacesOfBoot
  <2>3. LinesOK(bt_at', bt_irq', bt_inits') /\ RanOK(bt_at', bt_with', bt_ran')
    BY <1>0, <2>1, <2>2, LinesStay, EarlyRuns
  <2> QED
    BY <1>0, <1>1, <2>3, ClearBssLoads DEF BtInv
<1>2. CASE alt_load
  <2>1. PICK i \in 1..3 :
          /\ bt_at = <<"alt_load", i>> /\ bt_at' = IF i < 3 THEN <<"alt_load", i + 1>> ELSE <<"alt_main">>
    BY <1>2, Loads3 DEF alt_load, BtGo
  <2>2. Stage(bt_at) = "alt_load" /\ Stage(bt_at') \in {"alt_load", "alt_main"} /\ bt_at' \in BtPlaces
    <3>1. i < 3 => i + 1 \in 1..3
      OBVIOUS
    <3> QED
      BY <2>1, <3>1, Stages, PlacesOfBoot
  <2>3. LinesOK(bt_at', bt_irq', bt_inits') /\ RanOK(bt_at', bt_with', bt_ran')
    BY <1>0, <1>2, <2>2, LinesStay, EarlyRuns DEF alt_load
  <2> QED
    BY <1>0, <1>2, <2>3, SectionLoads DEF BtInv
<1>3. CASE alt_irq_init
  <2>1. /\ bt_at = <<"alt_main">> /\ bt_at' = <<"alt_sys_init", 1>>
        /\ bt_irq' = [pie |-> TRUE, ienable |-> {}]
        /\ UNCHANGED <<bt_with, bt_mem, bt_inits, bt_ran>>
    BY <1>3 DEF alt_irq_init, BtGo
  <2>2. Stage(bt_at) = "alt_main" /\ Stage(bt_at') = "alt_sys_init" /\ bt_at' \in BtPlaces
    BY <2>1, Stages, PlacesOfBoot
  <2>3. LoadOK(bt_at', bt_mem') /\ RanOK(bt_at', bt_with', bt_ran')
    BY <1>0, <2>1, <2>2, NoLoads, EarlyRuns
  <2>4. LinesOK(bt_at', bt_irq', bt_inits')
    BY <1>0, <2>1 DEF LinesOK
  <2> QED
    BY <2>3, <2>4 DEF BtInv
<1>4. CASE alt_sys_init
  BY <1>4, DriverInits
<1>5. CASE BtStreams
  <2>1. /\ RanOK(bt_at', bt_with', bt_ran') /\ Stage(bt_at) = "streams"
        /\ Stage(bt_at') \in {"main", "_do_ctors"} /\ UNCHANGED <<bt_with, bt_mem, bt_irq, bt_inits>>
    BY <1>0, <1>5, StreamsRun DEF BtStreams
  <2> QED
    BY <1>0, <2>1, NoLoads, LinesStay DEF BtInv
<1>6. CASE _do_ctors
  <2>1. /\ RanOK(bt_at', bt_with', bt_ran') /\ Stage(bt_at) = "_do_ctors"
        /\ Stage(bt_at') \in {"main", "_do_ctors"} /\ UNCHANGED <<bt_with, bt_mem, bt_irq, bt_inits>>
    BY <1>0, <1>6, CtorsRun DEF _do_ctors, BtList
  <2> QED
    BY <1>0, <2>1, NoLoads, LinesStay DEF BtInv
<1>7. CASE BtMain
  <2>1. /\ bt_at' = <<"main">> \/ bt_at' = <<"crt0_loop">> \/ bt_at' = <<"_exit">>
           \/ bt_at' = <<"_do_dtors", BtCtors>>
        /\ UNCHANGED <<bt_irq, bt_inits>>
    BY <1>7 DEF BtMain
  <2>2. Stage(bt_at') # "alt_sys_init"
    BY <2>1, Stages
  <2> QED
    BY <1>0, <1>7, <2>1, <2>2, MainLoads, MainRuns, LinesStay DEF BtInv
<1>8. CASE _do_dtors
  <2>1. /\ RanOK(bt_at', bt_with', bt_ran')
        /\ Stage(bt_at') \in {"_exit", "_do_dtors"} /\ UNCHANGED <<bt_with, bt_mem, bt_irq, bt_inits>>
    BY <1>0, <1>8, DtorsRun DEF _do_dtors, BtList
  <2> QED
    BY <1>0, <2>1, NoLoads, LinesStay DEF BtInv
<1>9. CASE ALT_EXIT
  <2>1. /\ RanOK(bt_at', bt_with', bt_ran') /\ Stage(bt_at') = "spin"
        /\ UNCHANGED <<bt_with, bt_mem, bt_irq, bt_inits>>
    BY <1>0, <1>9, ExitRuns DEF ALT_EXIT
  <2> QED
    BY <1>0, <2>1, NoLoads, LinesStay DEF BtInv
<1>10. CASE BtReset
  <2>1. /\ bt_at' = <<"_start">> /\ bt_irq' = [pie |-> FALSE, ienable |-> {}] /\ bt_inits' = <<>>
        /\ bt_ran' = <<>> /\ bt_with' = bt_with /\ bt_mem' = bt_mem
    BY <1>10 DEF BtReset
  <2>2. RanOK(bt_at', bt_with', bt_ran') /\ Stage(bt_at') = "_start"
    BY <2>1, ResetRuns
  <2>3. LinesOK(bt_at', bt_irq', bt_inits')
    BY <2>1, <2>2 DEF LinesOK
  <2> QED
    BY <1>0, <2>1, <2>2, <2>3, NoLoads DEF BtInv
<1> QED
  BY <1>1, <1>2, <1>3, <1>4, <1>5, <1>6, <1>7, <1>8, <1>9, <1>10 DEF BtNext

\* The invariant implies the properties that the runs check.
LEMMA BtMeans ==
  ASSUME BtInv
  PROVE  BtTypeOK /\ StartsAfresh /\ DestroysAsConstructed
<1>1. BtTypeOK
  BY DEF BtInv, LoadOK, LinesOK, BtTypeOK, Values
<1>2. StartsAfresh
  BY DEF BtInv, LoadOK, StartsAfresh, Stage, Run, Img, Loadable
<1>3. DestroysAsConstructed
  <2> SUFFICES ASSUME bt_at = <<"spin">>
               PROVE  /\ <<"close">> \in {bt_ran[i] : i \in DOMAIN bt_ran}
                      /\ BtLastFirst("_do_ctors") /\ BtLastFirst("_do_dtors")
                      /\ BtEntries("_do_dtors") # {} => BtEntries("_do_dtors") = BtEntries("_do_ctors")
                      /\ BtEntries("_do_ctors") # {} /\ "no_clean_exit" \notin bt_with =>
                           BtEntries("_do_ctors") = 1 .. BtCtors /\ BtEntries("_do_dtors") = 1 .. BtCtors
    BY DEF DestroysAsConstructed
  <2>1. Stage(bt_at) = "spin"
    BY Stages
  <2>2. /\ Closed(bt_ran) /\ RanTo(bt_ran, "_do_ctors", First("no_cpp" \in bt_with))
        /\ RanTo(bt_ran, "_do_dtors", First({"no_cpp", "no_clean_exit"} \cap bt_with # {}))
    BY <2>1 DEF BtInv, RanOK
  <2>3. \A name : /\ BtEntries(name) = {TurnOf(bt_ran[i]) : i \in Turns(bt_ran, name)}
                  /\ BtLastFirst(name) <=> \A i, j \in Turns(bt_ran, name) :
                                             i < j => TurnOf(bt_ran[i]) > TurnOf(bt_ran[j])
    BY Zenon DEF BtEntries, BtLastFirst, BtTurns, Turns, TurnOf, EntryName
  <2>4. BtEntries("_do_ctors") = First("no_cpp" \in bt_with) .. BtCtors /\ BtLastFirst("_do_ctors")
    BY <2>2, <2>3, Zenon DEF RanTo
  <2>5. /\ BtEntries("_do_dtors") = First({"no_cpp", "no_clean_exit"} \cap bt_with # {}) .. BtCtors
        /\ BtLastFirst("_do_dtors")
    BY <2>2, <2>3, Zenon DEF RanTo
  <2>6. BtCtors \in Nat /\ (BtCtors + 1) .. BtCtors = {}
    BY BtAssumption
  <2>7. BtEntries("_do_dtors") # {} => "no_cpp" \notin bt_with /\ BtEntries("_do_dtors") = 1 .. BtCtors
    BY <2>5, <2>6 DEF First
  <2>8. "no_cpp" \notin bt_with => BtEntries("_do_ctors") = 1 .. BtCtors
    BY <2>4 DEF First
  <2>9. BtEntries("_do_ctors") # {} => "no_cpp" \notin bt_with
    BY <2>4, <2>6 DEF First
  <2>10. "no_cpp" \notin bt_with /\ "no_clean_exit" \notin bt_with => BtEntries("_do_dtors") = 1 .. BtCtors
    BY <2>5 DEF First
  <2> QED
    BY <2>2, <2>4, <2>5, <2>7, <2>8, <2>9, <2>10 DEF Closed
<1> QED
  BY <1>1, <1>2, <1>3

\* The first start: nothing has run, and the images are as the compiler made them
\* (linker.x:213-266).
LEMMA BtStarts ==
  ASSUME LaidOut, BtInit
  PROVE  BtInv
<1>1. /\ bt_at = <<"_start">> /\ bt_ran = <<>> /\ bt_inits = <<>>
      /\ bt_irq = [pie |-> FALSE, ienable |-> {}]
  BY DEF BtInit
<1>2. Stage(bt_at) = "_start" /\ bt_at \in BtPlaces
  BY <1>1, Stages, PlacesOfBoot
<1>3. LinesOK(bt_at, bt_irq, bt_inits)
  BY <1>1, <1>2 DEF LinesOK
<1>4. RanOK(bt_at, bt_with, bt_ran)
  BY <1>1, <1>2, NothingRun DEF RanOK
<1> QED
  BY <1>3, <1>4, FirstLoads DEF BtInv

\* Also a step in which the processor does nothing of it.
LEMMA BtStays ==
  ASSUME LaidOut, BtInv, [BtNext]_btVars
  PROVE  BtInv'
<1>1. CASE UNCHANGED btVars
  BY <1>1 DEF btVars, BtInv
<1> QED
  BY <1>1, BtKept

\* For every layout in which the linker lays nothing over anything, and every number
\* of constructors: main starts with every section as it was compiled, also after a
\* restart, and what was constructed is destroyed in the order of the table, before
\* the end (crt0.S:225-506, alt_load.c:67-99, alt_do_ctors.c:58-64,
\* alt_do_dtors.c:58-64, alt_exit.c:52-71).
THEOREM BootIsSound ==
  ASSUME LaidOut
  PROVE  BtSpec => [](BtTypeOK /\ StartsAfresh /\ DestroysAsConstructed)
<1>1. BtInit => BtInv
  BY BtStarts
<1>2. BtInv /\ [BtNext]_btVars => BtInv'
  BY BtStays
<1>3. BtInv => BtTypeOK /\ StartsAfresh /\ DestroysAsConstructed
  BY BtMeans
<1> QED
  BY <1>1, <1>2, <1>3, PTL DEF BtSpec

-----------------------------------------------------------------------------
(* File descriptors (alt_open.c, alt_close.c, alt_fcntl.c, alt_ioctl.c,    *)
(* alt_fd_lock.c and alt_io_redirect.c).                                   *)

USE FdAssumption

\* The pool has a slot beside the standard ones, as this board's of 4 has (system.h:380):
\* with none the redirection of stdio finds no slot to open the console in.
Room == ALT_MAX_FD > 3

\* A flag is on a descriptor that open has given, of a device.
Flagged ==
  \A i \in Fd :
    /\ "EXCL" \in alt_fd_list[i].flags => "DEV" \in alt_fd_list[i].flags
    /\ "DEV" \in alt_fd_list[i].flags => i <= alt_max_fd /\ alt_fd_list[i].dev \in Device \cup {null}

Untouched ==
  ~redirected => \A i \in Fd :
    /\ "DEV" \notin alt_fd_list[i].flags
    /\ i \notin Std => alt_fd_list[i].dev = None

Redirected(list, devices) ==
  STDIO \in devices =>
    /\ list[0].dev = STDIO /\ list[0].mode = "RDONLY"
    /\ \A i \in 1..2 : list[i].dev = STDIO /\ list[i].mode = "WRONLY"

FdInv ==
  /\ FdTypeOK /\ Flagged /\ StandardOpen /\ Untouched /\ HandlesExact
  /\ redirected => Redirected(alt_fd_list, alt_dev_list)

Desc == [dev : Dev \cup {None}, mode : Modes, flags : SUBSET FdFlags]
Higher(i, max) == IF i > max THEN i ELSE max
LockedOut(list, i, max) ==
  \E j \in 0..max : j # i /\ list[j].dev = list[i].dev /\ "EXCL" \in list[j].flags

\* What an open leaves: nothing, a slot given back, or a slot taken.
Refused(list, max, o) == o.fd = -1 /\ o.list = list /\ o.max = max
GivenBack(list, max, o, i) ==
  i \in Fd \ Std /\ list[i].dev = None
  /\ o.fd = -1 /\ o.list = [list EXCEPT ![i] = Free] /\ o.max = Higher(i, max)
Taken(list, max, mode, o, i, d, f) ==
  /\ i \in Fd \ Std /\ list[i].dev = None
  /\ o.fd = i /\ o.list = [list EXCEPT ![i] = [dev |-> d, mode |-> mode, flags |-> f]]
  /\ o.max = Higher(i, max)
  /\ \/ f = {"DEV"} /\ d \in alt_dev_list /\ ~LockedOut(o.list, i, o.max)
     \/ f = {} /\ d \in FileSystem

Lists == alt_dev_list \subseteq Device \cup {null} /\ alt_fs_list \in Seq(FileSystem)

\* Min of a nonempty set of naturals is one of them.
LEMMA SmallestOf ==
  ASSUME NEW S, S \subseteq Nat, S # {}
  PROVE  Min(S) \in S
<1>1. PICK x \in S : \A y \in S : ~(<<y, x>> \in OpToRel(<, Nat))
  BY NatLessThanWellFounded, WFMin
<1>2. \A y \in S : ~(y < x)
  BY <1>1 DEF OpToRel
<1>3. x \in S /\ \A y \in S : x <= y
  BY <1>2
<1> QED
  BY <1>3 DEF Min

\* alt_find_file returns a registered file system or nothing (alt_find_file.c:54-87).
LEMMA FoundFile ==
  ASSUME Lists, NEW name
  PROVE  alt_find_file(name) \in FileSystem \cup {None}
<1> DEFINE owns == {i \in DOMAIN alt_fs_list : name \in FileName /\ IsPrefix(alt_fs_list[i], name)}
<1>1. CASE owns = {}
  BY <1>1 DEF alt_find_file
<1>2. CASE owns # {}
  <2>1. alt_find_file(name) = alt_fs_list[Min(owns)]
    BY <1>2 DEF alt_find_file
  <2>2. DOMAIN alt_fs_list \subseteq Nat
    BY DEF Lists
  <2>3. owns \subseteq Nat
    BY <2>2
  <2> HIDE DEF owns
  <2>4. Min(owns) \in owns
    BY <1>2, <2>3, SmallestOf
  <2>5. Min(owns) \in DOMAIN alt_fs_list
    BY <2>4 DEF owns
  <2> QED
    BY <2>1, <2>5 DEF Lists
<1> QED
  BY <1>1, <1>2

\* alt_get_fd returns a slot that is free, and -1 only if none is
\* (alt_get_fd.c:54-101).
LEMMA SlotFound ==
  ASSUME NEW list, \A i \in Std : list[i].dev # None
  PROVE  \/ alt_get_fd(list) = -1 /\ \A i \in Fd : list[i].dev # None
         \/ alt_get_fd(list) \in Fd \ Std /\ list[alt_get_fd(list)].dev = None
<1> DEFINE free == {i \in Fd : list[i].dev = None}
<1>1. CASE free = {}
  BY <1>1 DEF alt_get_fd
<1>2. CASE free # {}
  <2>1. alt_get_fd(list) = Min(free)
    BY <1>2 DEF alt_get_fd
  <2>2. free \subseteq Nat
    BY DEF Fd
  <2> HIDE DEF free
  <2>3. Min(free) \in free
    BY <1>2, <2>2, SmallestOf
  <2>4. Min(free) \in Fd /\ list[Min(free)].dev = None
    BY <2>3 DEF free
  <2> QED
    BY <2>1, <2>4
<1> QED
  BY <1>1, <1>2

\* open changes nothing, gives its slot back, or fills a slot that was free with a
\* device that no one has locked or with a file system (alt_open.c:105-171).
LEMMA OpenCases ==
  ASSUME Lists, NEW list, NEW max, \A i \in Std : list[i].dev # None,
         NEW name, NEW mode, NEW ok \in BOOLEAN, NEW o, o = alt_open(list, max, name, mode, ok)
  PROVE  \/ Refused(list, max, o)
         \/ \E i : GivenBack(list, max, o, i)
         \/ \E i, d, f : Taken(list, max, mode, o, i, d, f)
<1> DEFINE found == alt_find_dev(name)
           dev   == IF found # None THEN found ELSE alt_find_file(name)
           i     == alt_get_fd(list)
           high  == IF i > max THEN i ELSE max
           taken == [list EXCEPT ![i] = [dev |-> dev, mode |-> mode,
                                    flags |-> IF found # None THEN {"DEV"} ELSE {}]]
           fails == IF found # None THEN alt_file_locked(taken, i, high)
                               ELSE "open" \in Provides(dev) /\ ~ok
<1>1. o = IF dev = None \/ i < 0 THEN [fd |-> -1, list |-> list, max |-> max]
          ELSE IF fails THEN [fd |-> -1, list |-> alt_release_fd(taken, i), max |-> high]
          ELSE [fd |-> i, list |-> taken, max |-> high]
  BY DEF alt_open
<1>2. found \in alt_dev_list \cup {None}
  BY DEF alt_find_dev
<1>3. found = None => dev \in FileSystem \cup {None}
  BY FoundFile
<1>4. i = -1 \/ (i \in Fd \ Std /\ list[i].dev = None)
  BY SlotFound
<1>5. alt_file_locked(taken, i, high) <=> LockedOut(taken, i, high)
  BY DEF alt_file_locked, LockedOut
<1>6. high = Higher(i, max)
  BY DEF Higher
<1>7. i \in Fd \ Std => i > 2 /\ i >= 0
  BY DEF Fd, Std
<1>8. alt_release_fd(taken, i) = IF i > 2 THEN [taken EXCEPT ![i] = Free] ELSE taken
  BY DEF alt_release_fd
<1>9. [taken EXCEPT ![i] = Free] = [list EXCEPT ![i] = Free]
  OBVIOUS
<1>10. taken = [list EXCEPT ![i] = [dev |-> dev, mode |-> mode,
                                    flags |-> IF found # None THEN {"DEV"} ELSE {}]]
  OBVIOUS
<1>11. found # None => dev = found
  OBVIOUS
<1> HIDE DEF found, dev, i, high, taken, fails
<1>12. CASE dev = None \/ i < 0
  BY <1>1, <1>12 DEF Refused
<1>13. CASE ~(dev = None \/ i < 0) /\ fails
  <2>1. i \in Fd \ Std /\ list[i].dev = None
    BY <1>4, <1>13
  <2>2. o = [fd |-> -1, list |-> [list EXCEPT ![i] = Free], max |-> Higher(i, max)]
    BY <1>1, <1>6, <1>7, <1>8, <1>9, <1>13, <2>1
  <2>3. GivenBack(list, max, o, i)
    BY <2>1, <2>2 DEF GivenBack
  <2> QED
    BY <2>3
<1>14. CASE ~(dev = None \/ i < 0) /\ ~fails
  <2>1. i \in Fd \ Std /\ list[i].dev = None
    BY <1>4, <1>14
  <2>2. o = [fd |-> i, list |-> taken, max |-> Higher(i, max)]
    BY <1>1, <1>6, <1>14
  <2>3. o.fd = i /\ o.list = taken /\ o.max = Higher(i, max)
    BY <2>2
  <2>4. CASE found # None
    <3>1. ~LockedOut(o.list, i, o.max)
      BY <1>5, <1>6, <1>14, <2>3, <2>4 DEF fails
    <3>2. taken = [list EXCEPT ![i] = [dev |-> dev, mode |-> mode, flags |-> {"DEV"}]]
      BY <1>10, <2>4
    <3>3. dev \in alt_dev_list
      BY <1>2, <1>11, <2>4
    <3>4. Taken(list, max, mode, o, i, dev, {"DEV"})
      BY <2>1, <2>3, <3>1, <3>2, <3>3 DEF Taken
    <3> QED
      BY <3>4
  <2>5. CASE found = None
    <3>1. taken = [list EXCEPT ![i] = [dev |-> dev, mode |-> mode, flags |-> {}]]
      BY <1>10, <2>5
    <3>2. dev \in FileSystem
      BY <1>3, <1>14, <2>5
    <3>3. Taken(list, max, mode, o, i, dev, {})
      BY <2>1, <2>3, <3>1, <3>2 DEF Taken
    <3> QED
      BY <3>3
  <2> QED
    BY <2>4, <2>5
<1> QED
  BY <1>12, <1>13, <1>14

-----------------------------------------------------------------------------
(* The calls.                                                                *)

FdFields ==
  /\ alt_fd_list \in [Fd -> Desc] /\ alt_max_fd \in -1..(ALT_MAX_FD - 1)
  /\ Lists /\ redirected \in BOOLEAN /\ handles \subseteq Fd \ Std

\* The type invariant by the fields of the state, now and next.
LEMMA TypeIsFields == (FdTypeOK <=> FdFields) /\ (FdTypeOK' <=> FdFields')
BY DEF FdTypeOK, FdFields, Desc, Lists

\* Those that change no more than the flags of one descriptor.
Reflagged(i, f) ==
  /\ i \in Fd /\ f \subseteq FdFlags
  /\ alt_fd_list' = [alt_fd_list EXCEPT ![i].flags = f]
  /\ f \cap {"DEV"} = alt_fd_list[i].flags \cap {"DEV"}
  /\ "EXCL" \in f => "DEV" \in f
  /\ redirected
  /\ UNCHANGED <<alt_dev_list, alt_fs_list, alt_max_fd, redirected, handles>>

\* A step that changes the flags of one descriptor in use, and leaves the lock and
\* the device mark alone or takes the lock of a device, keeps the invariant
\* (alt_fcntl.c:66-101, alt_fd_lock.c:54-75).
LEMMA FlagsKeep ==
  ASSUME FdInv, NEW i, NEW f, Reflagged(i, f)
  PROVE  FdInv' /\ \A j \in Fd : /\ alt_fd_list'[j].dev = alt_fd_list[j].dev
                                 /\ alt_fd_list'[j].mode = alt_fd_list[j].mode
<1>1. FdFields
  BY TypeIsFields DEF FdInv
<1>2. /\ alt_fd_list' \in [Fd -> Desc]
      /\ \A j \in Fd : /\ alt_fd_list'[j].dev = alt_fd_list[j].dev
                       /\ alt_fd_list'[j].mode = alt_fd_list[j].mode
                       /\ alt_fd_list'[j].flags = IF j = i THEN f ELSE alt_fd_list[j].flags
  <2>1. alt_fd_list[i] \in Desc
    BY <1>1 DEF FdFields, Reflagged
  <2>2. [alt_fd_list[i] EXCEPT !.flags = f] \in Desc
    BY <2>1 DEF Reflagged, Desc
  <2>3. alt_fd_list' = [alt_fd_list EXCEPT ![i] = [alt_fd_list[i] EXCEPT !.flags = f]]
    BY DEF Reflagged
  <2>4. \A j \in Fd : alt_fd_list'[j] = IF j = i THEN [alt_fd_list[i] EXCEPT !.flags = f]
                                                 ELSE alt_fd_list[j]
    BY <1>1, <2>3 DEF FdFields, Reflagged
  <2>5. alt_fd_list' \in [Fd -> Desc]
    BY <1>1, <2>2, <2>3 DEF FdFields
  <2>6. /\ [alt_fd_list[i] EXCEPT !.flags = f].dev = alt_fd_list[i].dev
        /\ [alt_fd_list[i] EXCEPT !.flags = f].mode = alt_fd_list[i].mode
        /\ [alt_fd_list[i] EXCEPT !.flags = f].flags = f
    BY <2>1 DEF Desc
  <2> QED
    BY <2>4, <2>5, <2>6
<1>3. UNCHANGED <<alt_dev_list, alt_fs_list, alt_max_fd, redirected, handles>> /\ redirected /\ i \in Fd
  BY DEF Reflagged
<1>4. FdFields'
  BY <1>1, <1>2, <1>3 DEF FdFields, Lists
<1>5. Flagged'
  <2> SUFFICES ASSUME NEW j \in Fd
               PROVE  /\ "EXCL" \in alt_fd_list'[j].flags => "DEV" \in alt_fd_list'[j].flags
                      /\ "DEV" \in alt_fd_list'[j].flags =>
                           j <= alt_max_fd /\ alt_fd_list'[j].dev \in Device \cup {null}
    BY <1>3 DEF Flagged
  <2>1. /\ "EXCL" \in alt_fd_list[j].flags => "DEV" \in alt_fd_list[j].flags
        /\ "DEV" \in alt_fd_list[j].flags =>
             j <= alt_max_fd /\ alt_fd_list[j].dev \in Device \cup {null}
    BY DEF FdInv, Flagged
  <2>2. CASE j = i
    <3>1. "DEV" \in f <=> "DEV" \in alt_fd_list[j].flags
      BY <2>2 DEF Reflagged
    <3>2. "EXCL" \in f => "DEV" \in f
      BY DEF Reflagged
    <3> QED
      BY <1>2, <2>1, <2>2, <3>1, <3>2
  <2>3. CASE j # i
    BY <1>2, <2>1, <2>3
  <2> QED
    BY <2>2, <2>3
<1>6. StandardOpen' /\ HandlesExact'
  <2>1. Std \subseteq Fd
    BY DEF Std, Fd
  <2> QED
    BY <1>2, <1>3, <2>1 DEF FdInv, StandardOpen, HandlesExact
<1>7. Redirected(alt_fd_list', alt_dev_list')
  <2>1. 0 \in Fd /\ 1..2 \subseteq Fd
    BY DEF Fd
  <2> QED
    BY <1>2, <1>3, <2>1 DEF FdInv, Redirected
<1>8. Untouched'
  BY <1>3 DEF Untouched
<1> QED
  BY <1>2, <1>4, <1>5, <1>6, <1>7, <1>8, TypeIsFields DEF FdInv

\* A descriptor in use is one of the pool.
LEMMA InUseIsFd == FdInv => InUse \subseteq Fd
<1> SUFFICES ASSUME FdInv PROVE InUse \subseteq Fd
  OBVIOUS
<1>1. handles \subseteq Fd
  BY TypeIsFields DEF FdInv, FdFields
<1>2. Std \subseteq Fd
  BY DEF Std, Fd
<1> QED
  BY <1>1, <1>2 DEF InUse

\* fcntl changes the flags of the mask only (alt_fcntl.c:44-101).
LEMMA FcntlReflags ==
  ASSUME FdInv, NEW i \in InUse, NEW flags \in FcntlArg, ALT_FCNTL(i, flags)
  PROVE  \E f : Reflagged(i, f)
<1>1. i \in Fd /\ alt_fd_list[i].flags \subseteq FdFlags /\ FdFields
  BY InUseIsFd, TypeIsFields DEF FdInv, FdFields, Desc
<1> DEFINE f == (alt_fd_list[i].flags \ ALT_FCNTL_FLAGS_MASK) \cup (flags \cap ALT_FCNTL_FLAGS_MASK)
<1>2. f \subseteq FdFlags /\ f \cap {"DEV"} = alt_fd_list[i].flags \cap {"DEV"}
      /\ ("EXCL" \in f <=> "EXCL" \in alt_fd_list[i].flags)
  BY <1>1 DEF FdFlags, ALT_FCNTL_FLAGS_MASK
<1>3. "EXCL" \in alt_fd_list[i].flags => "DEV" \in alt_fd_list[i].flags
  BY <1>1 DEF FdInv, Flagged
<1>4. "EXCL" \in f => "DEV" \in f
  BY <1>2, <1>3
<1>5. alt_fd_list' = [alt_fd_list EXCEPT ![i].flags = f]
  BY DEF ALT_FCNTL
<1> HIDE DEF f
<1>6. Reflagged(i, f)
  BY <1>1, <1>2, <1>4, <1>5 DEF Reflagged, ALT_FCNTL
<1> QED
  BY <1>6

\* ioctl's lock and unlock change the EXCL flag only (alt_ioctl.c:106-168,
\* alt_fd_lock.c:54-75, alt_fd_unlock.c:52-56).
LEMMA IoctlReflags ==
  ASSUME FdInv, NEW i \in InUse, NEW req, ALT_IOCTL(i, req)
  PROVE  \E f : Reflagged(i, f)
<1>1. i \in Fd /\ alt_fd_list[i].flags \subseteq FdFlags /\ FdFields
  BY InUseIsFd, TypeIsFields DEF FdInv, FdFields, Desc
<1>2. "EXCL" \in alt_fd_list[i].flags => "DEV" \in alt_fd_list[i].flags
  BY <1>1 DEF FdInv, Flagged
<1>3. redirected /\ UNCHANGED <<alt_dev_list, alt_fs_list, alt_max_fd, redirected, handles>>
  BY DEF ALT_IOCTL
<1>4. CASE alt_fd_list' = alt_fd_list
  <2>1. alt_fd_list = [alt_fd_list EXCEPT ![i].flags = alt_fd_list[i].flags]
    <3>1. alt_fd_list[i] \in Desc
      BY <1>1 DEF FdFields
    <3>2. [alt_fd_list[i] EXCEPT !.flags = alt_fd_list[i].flags] = alt_fd_list[i]
      BY <3>1 DEF Desc
    <3> QED
      BY <1>1, <3>2 DEF FdFields
  <2>2. Reflagged(i, alt_fd_list[i].flags)
    BY <1>1, <1>2, <1>3, <1>4, <2>1 DEF Reflagged
  <2> QED
    BY <2>2
<1>5. CASE /\ alt_fd_list' = [alt_fd_list EXCEPT ![i].flags = @ \cup {"EXCL"}]
           /\ "DEV" \in alt_fd_list[i].flags
  <2>1. Reflagged(i, alt_fd_list[i].flags \cup {"EXCL"})
    BY <1>1, <1>3, <1>5 DEF Reflagged, FdFlags
  <2> QED
    BY <2>1
<1>6. CASE alt_fd_list' = [alt_fd_list EXCEPT ![i].flags = @ \ {"EXCL"}]
  <2>1. Reflagged(i, alt_fd_list[i].flags \ {"EXCL"})
    BY <1>1, <1>3, <1>6 DEF Reflagged, FdFlags
  <2> QED
    BY <2>1
<1>7. \/ alt_fd_list' = alt_fd_list
      \/ alt_fd_list' = alt_fd_lock(i) /\ "DEV" \in alt_fd_list[i].flags
      \/ alt_fd_list' = alt_fd_unlock(i)
  BY DEF ALT_IOCTL
<1> QED
  BY <1>4, <1>5, <1>6, <1>7 DEF alt_fd_lock, alt_fd_unlock

\* A step that keeps what Flagged, StandardOpen and HandlesExact need but changes one slot
\* of the pool.
Reslotted(i, e, h, m) ==
  /\ i \in Fd \ Std /\ e \in Desc
  /\ alt_fd_list' = [alt_fd_list EXCEPT ![i] = e]
  /\ handles' = h /\ (h = IF e.dev = None THEN handles \ {i} ELSE handles \cup {i})
  /\ alt_max_fd' = m /\ m \in -1..(ALT_MAX_FD - 1) /\ alt_max_fd <= m
  /\ "EXCL" \notin e.flags
  /\ "DEV" \in e.flags => i <= m /\ e.dev \in Device \cup {null}
  /\ redirected
  /\ UNCHANGED <<alt_dev_list, alt_fs_list, redirected>>

\* A step that changes one slot beyond the standard ones keeps the invariant.
LEMMA SlotKeeps ==
  ASSUME FdInv, NEW i, NEW e, NEW h, NEW m, Reslotted(i, e, h, m)
  PROVE  FdInv' /\ \A j \in Fd : alt_fd_list'[j] = IF j = i THEN e ELSE alt_fd_list[j]
<1>1. FdFields
  BY TypeIsFields DEF FdInv
<1>2. \A j \in Fd : alt_fd_list'[j] = IF j = i THEN e ELSE alt_fd_list[j]
  BY <1>1 DEF FdFields, Reslotted
<1>3. alt_fd_list' \in [Fd -> Desc]
  BY <1>1 DEF FdFields, Reslotted
<1>4. UNCHANGED <<alt_dev_list, alt_fs_list, redirected>> /\ redirected /\ i \in Fd \ Std
  BY DEF Reslotted
<1>5. FdFields'
  <2>1. handles' \subseteq Fd \ Std
    BY <1>1, <1>4 DEF FdFields, Reslotted
  <2> QED
    BY <1>1, <1>3, <1>4, <2>1 DEF FdFields, Lists, Reslotted
<1>6. Flagged'
  <2> SUFFICES ASSUME NEW j \in Fd
               PROVE  /\ "EXCL" \in alt_fd_list'[j].flags => "DEV" \in alt_fd_list'[j].flags
                      /\ "DEV" \in alt_fd_list'[j].flags =>
                           j <= alt_max_fd' /\ alt_fd_list'[j].dev \in Device \cup {null}
    BY DEF Flagged
  <2>1. CASE j = i
    BY <1>2, <2>1 DEF Reslotted
  <2>2. CASE j # i
    <3>1. alt_fd_list'[j] = alt_fd_list[j]
      BY <1>2, <2>2
    <3>2. alt_max_fd \in Int /\ alt_max_fd' \in Int /\ alt_max_fd <= alt_max_fd' /\ j \in Int
      BY <1>1 DEF FdFields, Reslotted, Fd
    <3>3. /\ "EXCL" \in alt_fd_list[j].flags => "DEV" \in alt_fd_list[j].flags
          /\ "DEV" \in alt_fd_list[j].flags =>
               j <= alt_max_fd /\ alt_fd_list[j].dev \in Device \cup {null}
      BY DEF FdInv, Flagged
    <3>4. j <= alt_max_fd => j <= alt_max_fd'
      BY <3>2
    <3> QED
      BY <3>1, <3>3, <3>4
  <2> QED
    BY <2>1, <2>2
<1>7. Std \subseteq Fd /\ i \notin Std
  BY <1>4 DEF Std, Fd
<1>8. StandardOpen'
  BY <1>2, <1>7 DEF FdInv, StandardOpen
<1>9. HandlesExact'
  <2>1. handles' = IF e.dev = None THEN handles \ {i} ELSE handles \cup {i}
    BY DEF Reslotted
  <2>2. {j \in Fd \ Std : alt_fd_list[j].dev # None} = handles
    BY DEF FdInv, HandlesExact
  <2>3. \A j \in Fd \ Std : j \in handles' <=> alt_fd_list'[j].dev # None
    BY <1>2, <1>4, <2>1, <2>2
  <2>4. handles' \subseteq Fd \ Std
    BY <1>5 DEF FdFields
  <2> QED
    BY <2>3, <2>4 DEF HandlesExact
<1>10. Redirected(alt_fd_list', alt_dev_list')
  <2>1. 0 \in Std /\ 1..2 \subseteq Std
    BY DEF Std
  <2>2. \A j \in Std : alt_fd_list'[j] = alt_fd_list[j]
    BY <1>2, <1>7
  <2> QED
    BY <1>4, <2>1, <2>2 DEF FdInv, Redirected
<1>11. Untouched'
  BY <1>4 DEF Untouched
<1>12. FdTypeOK'
  BY <1>5, TypeIsFields
<1> QED
  BY <1>2, <1>4, <1>6, <1>8, <1>9, <1>10, <1>11, <1>12 DEF FdInv

\* A free slot has no device, no flags and mode 0 (alt_dev.c:109-118).
LEMMA FreeFields ==
  Free \in Desc /\ Free.dev = None /\ Free.flags = {}
BY DEF Free, Desc, Modes

\* The pool keeps locks and open files from one step to the next.
Respected(list, after) ==
  /\ \A i \in Fd : "EXCL" \in list[i].flags /\ "EXCL" \in after[i].flags =>
       \A j \in Fd : after[j].dev = list[i].dev => list[j].dev = list[i].dev
  /\ \A i \in Fd \ Std : list[i].dev # None /\ after[i].dev # None =>
       after[i].dev = list[i].dev /\ after[i].mode = list[i].mode

\* close frees a slot, never a standard one, after the driver's close
\* (alt_close.c:64-101, alt_release_fd.c:44-51).
LEMMA FileCloseKeeps ==
  ASSUME FdInv, NEW i \in InUse, ALT_CLOSE(i)
  PROVE  FdInv' /\ Respected(alt_fd_list, alt_fd_list')
<1>1. FdFields /\ i \in Fd
  BY TypeIsFields, InUseIsFd DEF FdInv
<1>2. redirected /\ handles' = handles \ {i} /\ alt_fd_list' = alt_release_fd(alt_fd_list, i)
      /\ UNCHANGED <<alt_dev_list, alt_fs_list, alt_max_fd, redirected>>
  BY DEF ALT_CLOSE
<1>3. CASE i \in Std
  <2>1. alt_fd_list' = alt_fd_list
    BY <1>2, <1>3 DEF alt_release_fd, Std
  <2>2. handles' = handles
    BY <1>1, <1>2, <1>3 DEF FdFields
  <2>3. FdInv'
    BY <1>2, <2>1, <2>2 DEF FdInv, FdTypeOK, Flagged, StandardOpen, Untouched, HandlesExact, Redirected
  <2> QED
    BY <2>1, <2>3 DEF Respected
<1>4. CASE i \notin Std
  <2>1. alt_fd_list' = [alt_fd_list EXCEPT ![i] = Free]
    BY <1>1, <1>2, <1>4 DEF alt_release_fd, Std, Fd
  <2>2. alt_max_fd' \in -1..(ALT_MAX_FD - 1) /\ alt_max_fd <= alt_max_fd'
    BY <1>1, <1>2 DEF FdFields
  <2>3. Reslotted(i, Free, handles', alt_max_fd')
    BY <1>1, <1>2, <1>4, <2>1, <2>2, FreeFields DEF Reslotted
  <2>4. FdInv' /\ \A j \in Fd : alt_fd_list'[j] = IF j = i THEN Free ELSE alt_fd_list[j]
    BY <2>3, SlotKeeps
  <2>5. ASSUME NEW k \in Fd, "EXCL" \in alt_fd_list[k].flags, NEW j \in Fd,
               alt_fd_list'[j].dev = alt_fd_list[k].dev
        PROVE  alt_fd_list[j].dev = alt_fd_list[k].dev
    <3>1. alt_fd_list[k].dev # None
      BY <2>5 DEF FdInv, Flagged
    <3>2. j # i
      BY <2>4, <2>5, <3>1, FreeFields
    <3> QED
      BY <2>4, <2>5, <3>2
  <2>6. \A j \in Fd : alt_fd_list'[j].dev # None => alt_fd_list'[j] = alt_fd_list[j]
    BY <2>4, FreeFields
  <2> QED
    BY <2>4, <2>5, <2>6 DEF Respected
<1> QED
  BY <1>3, <1>4

\* open keeps the invariant, and gives no descriptor of a device that another has
\* locked (alt_open.c:64-171).
LEMMA FileOpenKeeps ==
  ASSUME FdInv, NEW n \in Name, NEW m \in OpenMode, ALT_OPEN(n, m)
  PROVE  FdInv' /\ Respected(alt_fd_list, alt_fd_list')
<1>1. FdFields
  BY TypeIsFields DEF FdInv
<1>2. PICK ok \in BOOLEAN :
        LET o == alt_open(alt_fd_list, alt_max_fd, n, m, ok)
        IN /\ redirected
           /\ alt_fd_list' = o.list /\ alt_max_fd' = o.max
           /\ handles' = IF o.fd < 0 THEN handles ELSE handles \cup {o.fd}
           /\ UNCHANGED <<alt_dev_list, alt_fs_list, redirected>>
  BY DEF ALT_OPEN
<1> DEFINE o == alt_open(alt_fd_list, alt_max_fd, n, m, ok)
<1>3. /\ redirected
      /\ alt_fd_list' = o.list /\ alt_max_fd' = o.max
      /\ handles' = IF o.fd < 0 THEN handles ELSE handles \cup {o.fd}
      /\ UNCHANGED <<alt_dev_list, alt_fs_list, redirected>>
  BY <1>2
<1>4. \/ Refused(alt_fd_list, alt_max_fd, o)
      \/ \E i : GivenBack(alt_fd_list, alt_max_fd, o, i)
      \/ \E i, d, f : Taken(alt_fd_list, alt_max_fd, m, o, i, d, f)
  <2>1. \A i \in Std : alt_fd_list[i].dev # None
    BY DEF FdInv, StandardOpen
  <2>2. Lists
    BY <1>1 DEF FdFields
  <2> QED
    BY <2>1, <2>2, OpenCases
<1> HIDE DEF o
<1>5. CASE Refused(alt_fd_list, alt_max_fd, o)
  <2>1. UNCHANGED fdVars
    BY <1>3, <1>5 DEF Refused, fdVars
  <2> QED
    BY <2>1 DEF FdInv, FdTypeOK, Flagged, StandardOpen, Untouched, HandlesExact, Redirected, fdVars,
                Respected
<1>6. ASSUME NEW i \in Fd \ Std
      PROVE  Higher(i, alt_max_fd) \in -1..(ALT_MAX_FD - 1) /\ alt_max_fd <= Higher(i, alt_max_fd)
             /\ i <= Higher(i, alt_max_fd) /\ i >= 0
  BY <1>1 DEF FdFields, Fd, Higher
<1>7. ASSUME NEW i, GivenBack(alt_fd_list, alt_max_fd, o, i)
      PROVE  FdInv' /\ Respected(alt_fd_list, alt_fd_list')
  <2>1. i \in Fd \ Std /\ alt_fd_list[i].dev = None /\ o.fd = -1
        /\ o.list = [alt_fd_list EXCEPT ![i] = Free] /\ o.max = Higher(i, alt_max_fd)
    BY <1>7 DEF GivenBack
  <2>2. handles' = handles /\ i \notin handles
    BY <1>3, <2>1 DEF FdInv, HandlesExact
  <2>3. handles' = handles \ {i}
    BY <2>2
  <2>4. Reslotted(i, Free, handles', alt_max_fd')
    BY <1>3, <1>6, <2>1, <2>3, FreeFields DEF Reslotted
  <2>5. FdInv' /\ \A j \in Fd : alt_fd_list'[j] = IF j = i THEN Free ELSE alt_fd_list[j]
    BY <2>4, SlotKeeps
  <2>6. \A j \in Fd : alt_fd_list'[j].dev = alt_fd_list[j].dev
    BY <2>1, <2>5, FreeFields
  <2>7. \A j \in Fd : alt_fd_list'[j].dev # None => alt_fd_list'[j] = alt_fd_list[j]
    BY <2>5, FreeFields
  <2> QED
    BY <2>5, <2>6, <2>7 DEF Respected
<1>8. ASSUME NEW i, NEW d, NEW f, Taken(alt_fd_list, alt_max_fd, m, o, i, d, f)
      PROVE  FdInv' /\ Respected(alt_fd_list, alt_fd_list')
  <2> DEFINE e == [dev |-> d, mode |-> m, flags |-> f]
  <2>1. i \in Fd \ Std /\ alt_fd_list[i].dev = None /\ o.fd = i
        /\ o.list = [alt_fd_list EXCEPT ![i] = e] /\ o.max = Higher(i, alt_max_fd)
        /\ \/ f = {"DEV"} /\ d \in alt_dev_list /\ ~LockedOut(o.list, i, o.max)
           \/ f = {} /\ d \in FileSystem
    BY <1>8 DEF Taken
  <2>2. d \in Dev /\ d # None /\ f \subseteq {"DEV"} /\ (f # {} => d \in Device \cup {null})
    BY <1>1, <2>1 DEF FdFields, Lists, Dev
  <2>3. e \in Desc /\ e.dev = d /\ e.flags = f
    <3>1. m \in Modes /\ f \subseteq FdFlags
      BY <2>2 DEF Modes, FdFlags
    <3> QED
      BY <2>2, <3>1 DEF Desc
  <2> HIDE DEF e
  <2>4. handles' = handles \cup {i}
    <3>1. i \in Fd /\ ~(i < 0)
      BY <2>1 DEF Fd
    <3> QED
      BY <1>3, <2>1, <3>1
  <2>5. "EXCL" \notin f /\ ("DEV" \in f => d \in Device \cup {null})
    BY <2>2
  <2>6. Reslotted(i, e, handles', alt_max_fd')
    BY <1>3, <1>6, <2>1, <2>2, <2>3, <2>4, <2>5 DEF Reslotted
  <2>7. FdInv' /\ \A j \in Fd : alt_fd_list'[j] = IF j = i THEN e ELSE alt_fd_list[j]
    BY <2>6, SlotKeeps
  <2>8. ASSUME NEW k \in Fd, "EXCL" \in alt_fd_list[k].flags, "EXCL" \in alt_fd_list'[k].flags,
               NEW j \in Fd, alt_fd_list'[j].dev = alt_fd_list[k].dev
        PROVE  alt_fd_list[j].dev = alt_fd_list[k].dev
    <3>1. k # i
      BY <2>3, <2>5, <2>7, <2>8
    <3>2. alt_fd_list[k].dev \in Device \cup {null} /\ k <= alt_max_fd
      BY <2>8 DEF FdInv, Flagged
    <3>3. CASE j # i
      BY <2>7, <2>8, <3>3
    <3>4. CASE j = i
      <4>1. d = alt_fd_list[k].dev
        BY <2>3, <2>7, <2>8, <3>4
      <4>2. ~LockedOut(o.list, i, o.max)
        BY <2>1, <3>2, <4>1
      <4>3. o.list[i] = e /\ o.list[k] = alt_fd_list[k]
        BY <1>3, <2>1, <2>7, <3>1
      <4>4. k \in 0..o.max
        <5>1. alt_max_fd \in Int /\ o.max \in Int /\ alt_max_fd <= o.max /\ k \in Nat
          BY <1>1, <1>6, <2>1 DEF FdFields, Fd
        <5> QED
          BY <3>2, <5>1
      <4> QED
        BY <2>3, <2>8, <3>1, <4>1, <4>2, <4>3, <4>4 DEF LockedOut
    <3> QED
      BY <3>3, <3>4
  <2>9. \A j \in Fd : alt_fd_list[j].dev # None => alt_fd_list'[j] = alt_fd_list[j]
    BY <2>1, <2>7
  <2> QED
    BY <2>7, <2>8, <2>9 DEF Respected
<1> QED
  BY <1>4, <1>5, <1>7, <1>8

\* The pool before the program's calls: beyond the standard descriptors all is free.
Fresh(list, max) ==
  /\ list \in [Fd -> Desc] /\ max \in -1..(ALT_MAX_FD - 1)
  /\ \A i \in Fd : /\ "EXCL" \notin list[i].flags
                   /\ "DEV" \in list[i].flags => i <= max /\ list[i].dev \in Device \cup {null}
                   /\ i \in Std <=> list[i].dev # None

\* While there is room an open of the standard device succeeds (alt_open.c:105-171).
LEMMA FreshOpen ==
  ASSUME Room, Lists, STDIO \in alt_dev_list, NEW list, NEW max, Fresh(list, max), NEW mode, NEW o,
         o = alt_open(list, max, STDIO, mode, TRUE)
  PROVE  \E i : Taken(list, max, mode, o, i, STDIO, {"DEV"})
<1> DEFINE i     == alt_get_fd(list)
           high  == IF i > max THEN i ELSE max
           taken == [list EXCEPT ![i] = [dev |-> STDIO, mode |-> mode, flags |-> {"DEV"}]]
<1>1. alt_find_dev(STDIO) = STDIO /\ STDIO # None
  BY DEF alt_find_dev
<1>2. o = IF i < 0 THEN [fd |-> -1, list |-> list, max |-> max]
          ELSE IF alt_file_locked(taken, i, high)
            THEN [fd |-> -1, list |-> alt_release_fd(taken, i), max |-> high]
          ELSE [fd |-> i, list |-> taken, max |-> high]
  BY <1>1 DEF alt_open
<1>3. i \in Fd \ Std /\ list[i].dev = None
  <2>1. 3 \in Fd \ Std
    BY DEF Fd, Std, Room
  <2>2. list[3].dev = None
    BY <2>1 DEF Fresh
  <2>3. \A j \in Std : list[j].dev # None
    <3>1. Std \subseteq Fd
      BY DEF Std, Fd
    <3> QED
      BY <3>1 DEF Fresh
  <2> QED
    BY <2>1, <2>2, <2>3, SlotFound
<1>4. high \in -1..(ALT_MAX_FD - 1) /\ i \in Nat /\ ~(i < 0) /\ high = Higher(i, max)
  <2> HIDE DEF i
  <2> QED
    BY <1>3 DEF Fresh, Fd, Higher
<1>5. ~LockedOut(taken, i, high)
  <2>1. 0..high \subseteq Fd
    BY <1>4 DEF Fd
  <2>2. \A j \in Fd : j # i => "EXCL" \notin taken[j].flags
    BY DEF Fresh
  <2> HIDE DEF i, high, taken
  <2> QED
    BY <2>1, <2>2 DEF LockedOut
<1>6. ~alt_file_locked(taken, i, high)
  BY <1>5 DEF alt_file_locked, LockedOut
<1> HIDE DEF i, high, taken
<1>7. o = [fd |-> i, list |-> taken, max |-> high]
  BY <1>2, <1>4, <1>6, Zenon
<1>8. o.fd = i /\ o.list = taken /\ o.max = high
  <2>1. ASSUME NEW p, NEW q, NEW a, NEW b, p = [fd |-> q, list |-> a, max |-> b]
        PROVE  p.fd = q /\ p.list = a /\ p.max = b
    BY <2>1
  <2> QED
    BY <1>7, <2>1
<1>9. Taken(list, max, mode, o, i, STDIO, {"DEV"})
  BY <1>3, <1>4, <1>5, <1>8 DEF Taken, taken
<1> QED
  BY <1>9

\* A descriptor that is copied down to a standard slot frees the slot it came from
\* (alt_io_redirect.c:58-72).
LEMMA CopiedDown ==
  ASSUME Lists, NEW list, NEW max, Fresh(list, max), NEW mode \in Modes, NEW o, NEW k, NEW d, NEW f,
         Taken(list, max, mode, o, k, d, f), NEW i \in Std, NEW after,
         after = alt_release_fd([o.list EXCEPT ![i] = o.list[k]], k)
  PROVE  /\ Fresh(after, o.max)
         /\ after[i].dev = d /\ after[i].mode = mode
         /\ \A j \in Std \ {i} : after[j] = list[j]
<1> DEFINE e == [dev |-> d, mode |-> mode, flags |-> f]
<1>1. k \in Fd \ Std /\ list[k].dev = None /\ o.list = [list EXCEPT ![k] = e]
      /\ o.max = Higher(k, max)
      /\ ((f = {"DEV"} /\ d \in alt_dev_list) \/ (f = {} /\ d \in FileSystem))
  BY DEF Taken
<1>2. e \in Desc /\ e.dev = d /\ e.mode = mode /\ e.flags = f /\ d # None
      /\ "EXCL" \notin f /\ ("DEV" \in f => d \in Device \cup {null})
  <2>1. d \in Dev /\ d # None /\ f \subseteq {"DEV"} /\ (f # {} => d \in Device \cup {null})
    BY <1>1 DEF Lists, Dev
  <2>2. f \subseteq FdFlags
    BY <2>1 DEF FdFlags
  <2> QED
    BY <2>1, <2>2 DEF Desc
<1> HIDE DEF e
<1>3. list \in [Fd -> Desc] /\ max \in -1..(ALT_MAX_FD - 1)
  BY DEF Fresh
<1>4. i \in Fd /\ i # k /\ k > 2 /\ k \in Int /\ i < k
  BY <1>1 DEF Fd, Std
<1>5. o.list[k] = e
  BY <1>1, <1>3
<1>6. after = [[[list EXCEPT ![k] = e] EXCEPT ![i] = e] EXCEPT ![k] = Free]
  BY <1>1, <1>4, <1>5 DEF alt_release_fd
<1>7. \A j \in Fd : after[j] = IF j = k THEN Free ELSE IF j = i THEN e ELSE list[j]
  BY <1>1, <1>3, <1>4, <1>6
<1>8. after \in [Fd -> Desc]
  BY <1>2, <1>3, <1>6, FreeFields
<1>9. o.max \in -1..(ALT_MAX_FD - 1) /\ max <= o.max /\ i <= o.max
  BY <1>1, <1>3, <1>4 DEF Higher, Fd, Std
<1>10. ASSUME NEW j \in Fd
       PROVE  /\ "EXCL" \notin after[j].flags
              /\ "DEV" \in after[j].flags => j <= o.max /\ after[j].dev \in Device \cup {null}
              /\ j \in Std <=> after[j].dev # None
  <2>1. CASE j = k
    BY <1>1, <1>7, <2>1, FreeFields
  <2>2. CASE j = i
    BY <1>2, <1>4, <1>7, <1>9, <2>2
  <2>3. CASE j # i /\ j # k
    <3>1. after[j] = list[j]
      BY <1>7, <2>3
    <3>2. j \in Int /\ max \in Int /\ o.max \in Int
      BY <1>3, <1>9 DEF Fd
    <3>3. /\ "EXCL" \notin list[j].flags
          /\ "DEV" \in list[j].flags => j <= max /\ list[j].dev \in Device \cup {null}
          /\ j \in Std <=> list[j].dev # None
      BY DEF Fresh
    <3>4. j <= max => j <= o.max
      BY <1>9, <3>2
    <3> QED
      BY <3>1, <3>3, <3>4
  <2> QED
    BY <2>1, <2>2, <2>3
<1>11. Fresh(after, o.max)
  BY <1>8, <1>9, <1>10 DEF Fresh
<1>12. after[i].dev = d /\ after[i].mode = mode
  BY <1>2, <1>4, <1>7
<1>13. \A j \in Std \ {i} : after[j] = list[j]
  <2>1. Std \subseteq Fd /\ k \notin Std
    BY <1>1 DEF Std, Fd
  <2> QED
    BY <1>7, <2>1
<1> QED
  BY <1>11, <1>12, <1>13

\* alt_open_fd leaves the other standard slots and, with room, puts the device in its
\* own (alt_io_redirect.c:58-72).
LEMMA OpenedOnto ==
  ASSUME Lists, NEW s, Fresh(s.list, s.max), NEW i \in Std, NEW mode \in Modes,
         NEW r, r = alt_open_fd(s, i, mode)
  PROVE  /\ Fresh(r.list, r.max)
         /\ \A j \in Std \ {i} : r.list[j] = s.list[j]
         /\ Room /\ STDIO \in alt_dev_list => r.list[i].dev = STDIO /\ r.list[i].mode = mode
<1> DEFINE o == alt_open(s.list, s.max, STDIO, mode, TRUE)
<1>1. r = IF o.fd < 0 THEN [list |-> o.list, max |-> o.max]
          ELSE [list |-> alt_release_fd([o.list EXCEPT ![i] = o.list[o.fd]], o.fd), max |-> o.max]
  BY DEF alt_open_fd
<1>2. \/ Refused(s.list, s.max, o)
      \/ \E k : GivenBack(s.list, s.max, o, k)
      \/ \E k, d, f : Taken(s.list, s.max, mode, o, k, d, f)
  <2>1. Std \subseteq Fd
    BY DEF Std, Fd
  <2>2. \A j \in Std : s.list[j].dev # None
    BY <2>1 DEF Fresh
  <2> QED
    BY <2>2, OpenCases
<1>3. Room /\ STDIO \in alt_dev_list => \E k : Taken(s.list, s.max, mode, o, k, STDIO, {"DEV"})
  BY FreshOpen
<1> HIDE DEF o
<1>4. ASSUME NEW k, NEW d, NEW f, Taken(s.list, s.max, mode, o, k, d, f)
      PROVE  /\ Fresh(r.list, r.max)
             /\ r.list[i].dev = d /\ r.list[i].mode = mode
             /\ \A j \in Std \ {i} : r.list[j] = s.list[j]
  <2>1. o.fd = k /\ ~(o.fd < 0)
    BY <1>4 DEF Taken, Fd
  <2>2. r.list = alt_release_fd([o.list EXCEPT ![i] = o.list[k]], k) /\ r.max = o.max
    BY <1>1, <2>1
  <2> QED
    BY <1>4, <2>2, CopiedDown
<1>5. CASE Room /\ STDIO \in alt_dev_list
  BY <1>3, <1>4, <1>5
<1>6. CASE ~(Room /\ STDIO \in alt_dev_list)
  <2>1. CASE Refused(s.list, s.max, o)
    <3>1. r.list = s.list /\ r.max = s.max
      BY <1>1, <2>1 DEF Refused
    <3> QED
      BY <1>6, <3>1
  <2>2. ASSUME NEW k, GivenBack(s.list, s.max, o, k)
        PROVE  Fresh(r.list, r.max) /\ \A j \in Std \ {i} : r.list[j] = s.list[j]
    <3>1. r.list = [s.list EXCEPT ![k] = Free] /\ r.max = Higher(k, s.max) /\ k \in Fd \ Std
      BY <1>1, <2>2 DEF GivenBack
    <3>2. \A j \in Fd : r.list[j] = IF j = k THEN Free ELSE s.list[j]
      BY <3>1 DEF Fresh
    <3>3. r.list \in [Fd -> Desc]
      BY <3>1, FreeFields DEF Fresh
    <3>4. r.max \in -1..(ALT_MAX_FD - 1) /\ s.max <= r.max /\ s.max \in Int
      BY <3>1 DEF Fresh, Higher, Fd
    <3>5. ASSUME NEW j \in Fd
          PROVE  /\ "EXCL" \notin r.list[j].flags
                 /\ "DEV" \in r.list[j].flags => j <= r.max /\ r.list[j].dev \in Device \cup {null}
                 /\ j \in Std <=> r.list[j].dev # None
      <4>1. CASE j = k
        BY <3>1, <3>2, <4>1, FreeFields
      <4>2. CASE j # k
        <5>1. r.list[j] = s.list[j] /\ j \in Int /\ (j <= s.max => j <= r.max)
          BY <3>2, <3>4, <4>2 DEF Fd
        <5>2. /\ "EXCL" \notin s.list[j].flags
              /\ "DEV" \in s.list[j].flags => j <= s.max /\ s.list[j].dev \in Device \cup {null}
              /\ j \in Std <=> s.list[j].dev # None
          BY DEF Fresh
        <5> QED
          BY <5>1, <5>2
      <4> QED
        BY <4>1, <4>2
    <3>6. Fresh(r.list, r.max)
      BY <3>3, <3>4, <3>5 DEF Fresh
    <3>7. \A j \in Std \ {i} : r.list[j] = s.list[j]
      <4>1. Std \subseteq Fd
        BY DEF Std, Fd
      <4> QED
        BY <3>1, <3>2, <4>1
    <3> QED
      BY <3>6, <3>7
  <2> QED
    BY <1>2, <1>4, <1>6, <2>1, <2>2
<1> QED
  BY <1>5, <1>6

\* The redirection of the three streams keeps the invariant and leaves all three on
\* the console (alt_io_redirect.c:85-94).
LEMMA RedirectKeeps ==
  ASSUME Room, FdInv, alt_io_redirect
  PROVE  FdInv' /\ Respected(alt_fd_list, alt_fd_list')
<1> DEFINE start == [list |-> alt_fd_list, max |-> alt_max_fd]
           out == alt_open_fd(start, 1, "WRONLY")
           in  == alt_open_fd(out, Stdin, "RDONLY")
           err == alt_open_fd(in, 2, "WRONLY")
<1>1. /\ ~redirected /\ redirected' = TRUE
      /\ alt_fd_list' = err.list /\ alt_max_fd' = err.max
      /\ UNCHANGED <<alt_dev_list, alt_fs_list, handles>>
  BY DEF alt_io_redirect
<1>2. FdFields
  BY TypeIsFields DEF FdInv
<1>3. Lists
  BY <1>2 DEF FdFields
<1>4. Fresh(alt_fd_list, alt_max_fd)
  <2> SUFFICES ASSUME NEW i \in Fd
               PROVE  /\ "EXCL" \notin alt_fd_list[i].flags
                      /\ "DEV" \in alt_fd_list[i].flags =>
                           i <= alt_max_fd /\ alt_fd_list[i].dev \in Device \cup {null}
                      /\ i \in Std <=> alt_fd_list[i].dev # None
    BY <1>2 DEF Fresh, FdFields
  <2> QED
    BY <1>1 DEF FdInv, Untouched, Flagged, StandardOpen
<1>5. start.list = alt_fd_list /\ start.max = alt_max_fd
  OBVIOUS
<1>6. {0, 1, 2} = Std /\ Stdin = 0 /\ {"RDONLY", "WRONLY"} \subseteq Modes
  BY DEF Std, Stdin, Modes
<1>7. ASSUME NEW s, Fresh(s.list, s.max), NEW i \in Std, NEW mode \in Modes
      PROVE  /\ Fresh(alt_open_fd(s, i, mode).list, alt_open_fd(s, i, mode).max)
             /\ \A j \in Std \ {i} : alt_open_fd(s, i, mode).list[j] = s.list[j]
             /\ STDIO \in alt_dev_list => /\ alt_open_fd(s, i, mode).list[i].dev = STDIO
                                          /\ alt_open_fd(s, i, mode).list[i].mode = mode
  BY <1>3, <1>7, OpenedOnto
<1> HIDE DEF start
<1>8. Fresh(out.list, out.max)
      /\ (STDIO \in alt_dev_list => out.list[1].dev = STDIO /\ out.list[1].mode = "WRONLY")
  BY <1>4, <1>5, <1>6, <1>7
<1> HIDE DEF out
<1>9. Fresh(in.list, in.max) /\ in.list[1] = out.list[1]
      /\ (STDIO \in alt_dev_list => in.list[0].dev = STDIO /\ in.list[0].mode = "RDONLY")
  <2>1. Stdin \in Std /\ 1 \in Std \ {Stdin} /\ "RDONLY" \in Modes
    BY <1>6
  <2>2. /\ Fresh(in.list, in.max)
        /\ \A j \in Std \ {Stdin} : in.list[j] = out.list[j]
        /\ STDIO \in alt_dev_list => in.list[Stdin].dev = STDIO /\ in.list[Stdin].mode = "RDONLY"
    BY <1>7, <1>8, <2>1
  <2> HIDE DEF in
  <2> QED
    BY <1>6, <2>1, <2>2
<1> HIDE DEF in
<1>10. Fresh(err.list, err.max) /\ err.list[0] = in.list[0] /\ err.list[1] = in.list[1]
       /\ (STDIO \in alt_dev_list => err.list[2].dev = STDIO /\ err.list[2].mode = "WRONLY")
  <2>1. 2 \in Std /\ 0 \in Std \ {2} /\ 1 \in Std \ {2} /\ "WRONLY" \in Modes
    BY <1>6
  <2>2. /\ Fresh(err.list, err.max)
        /\ \A j \in Std \ {2} : err.list[j] = in.list[j]
        /\ STDIO \in alt_dev_list => err.list[2].dev = STDIO /\ err.list[2].mode = "WRONLY"
    BY <1>7, <1>9, <2>1
  <2> HIDE DEF err
  <2> QED
    BY <2>1, <2>2
<1> HIDE DEF err
<1>11. Fresh(alt_fd_list', alt_max_fd')
  BY <1>1, <1>10
<1>12. Redirected(alt_fd_list', alt_dev_list')
  <2>1. \A i \in 1..2 : i = 1 \/ i = 2
    OBVIOUS
  <2> QED
    BY <1>1, <1>8, <1>9, <1>10, <2>1 DEF Redirected
<1>13. FdFields' /\ Flagged' /\ Untouched'
  BY <1>1, <1>2, <1>11 DEF FdFields, Lists, Fresh, Flagged, Untouched
<1>14. StandardOpen' /\ HandlesExact'
  <2>1. Std \subseteq Fd
    BY DEF Std, Fd
  <2>2. handles = {}
    BY <1>1 DEF FdInv, HandlesExact, Untouched
  <2> QED
    BY <1>1, <1>11, <2>1, <2>2 DEF StandardOpen, HandlesExact, Fresh
<1>15. Respected(alt_fd_list, alt_fd_list')
  BY <1>4 DEF Respected, Fresh
<1> QED
  BY <1>1, <1>12, <1>13, <1>14, <1>15, TypeIsFields DEF FdInv

\* A device or file system that is registered changes no descriptor
\* (alt_dev_llist_insert.c:40-59, alt_fs_reg.c:57-75).
LEMMA RegisterKeeps ==
  ASSUME FdInv,
         (\E d \in Device : alt_dev_llist_insert(d)) \/ (\E f \in FileSystem : alt_fs_reg(f))
  PROVE  FdInv' /\ Respected(alt_fd_list, alt_fd_list')
<1>1. FdFields
  BY TypeIsFields DEF FdInv
<1>2. ~redirected /\ UNCHANGED <<alt_fd_list, alt_max_fd, redirected, handles>>
  BY DEF alt_dev_llist_insert, alt_fs_reg
<1>3. Lists'
  <2>1. CASE \E d \in Device : alt_dev_llist_insert(d)
    BY <1>1, <2>1 DEF alt_dev_llist_insert, FdFields, Lists
  <2>2. CASE \E f \in FileSystem : alt_fs_reg(f)
    BY <1>1, <2>2 DEF alt_fs_reg, FdFields, Lists
  <2> QED
    BY <2>1, <2>2
<1>4. FdTypeOK'
  BY <1>1, <1>2, <1>3, TypeIsFields DEF FdFields
<1> QED
  BY <1>2, <1>4 DEF FdInv, Flagged, StandardOpen, Untouched, HandlesExact, Respected

\* The pool begins with the three standard streams on the null device
\* (alt_dev.c:109-149).
LEMMA FdStarts == FdInit => FdInv
<1> SUFFICES ASSUME FdInit PROVE FdInv
  OBVIOUS
<1>1. [Free EXCEPT !.dev = null] \in Desc /\ [Free EXCEPT !.dev = null].dev = null
      /\ [Free EXCEPT !.dev = null].flags = {}
  BY DEF Free, Desc, Dev, Modes
<1>2. \A i \in Fd : alt_fd_list[i] = IF i \in Std THEN [Free EXCEPT !.dev = null] ELSE Free
  BY DEF FdInit
<1>3. alt_fd_list \in [Fd -> Desc]
  BY <1>1, FreeFields DEF FdInit
<1>4. \A i \in Fd : alt_fd_list[i].flags = {} /\ (alt_fd_list[i].dev # None <=> i \in Std)
  BY <1>1, <1>2, FreeFields
<1>5. FdFields
  <2>1. -1 \in -1..(ALT_MAX_FD - 1)
    OBVIOUS
  <2>2. Lists
    BY DEF Lists, FdInit
  <2> QED
    BY <1>3, <2>1, <2>2 DEF FdFields, FdInit
<1>6. Flagged /\ Untouched
  BY <1>4 DEF Flagged, Untouched
<1>7. StandardOpen
  <2>1. Std \subseteq Fd
    BY DEF Std, Fd
  <2> QED
    BY <1>4, <2>1 DEF StandardOpen
<1>8. HandlesExact /\ ~redirected
  BY <1>4 DEF HandlesExact, FdInit
<1> QED
  BY <1>5, <1>6, <1>7, <1>8, TypeIsFields DEF FdInv

\* Every call on a file keeps the invariant and respects the locks
\* (alt_open.c:105-171, alt_close.c:64-101, alt_fcntl.c:66-101, alt_ioctl.c:106-168,
\* alt_io_redirect.c:85-94).
LEMMA FdStep ==
  ASSUME Room, FdInv, [FdNext]_fdVars
  PROVE  FdInv' /\ Respected(alt_fd_list, alt_fd_list')
<1>1. CASE UNCHANGED fdVars
  BY <1>1 DEF FdInv, FdTypeOK, Flagged, StandardOpen, Untouched, HandlesExact, Redirected, fdVars,
              Respected
<1>2. ASSUME NEW i, NEW f, Reflagged(i, f)
      PROVE  FdInv' /\ Respected(alt_fd_list, alt_fd_list')
  BY <1>2, FlagsKeep DEF Respected
<1>3. ASSUME NEW i \in InUse, NEW r, ALT_IOCTL(i, r)
      PROVE  FdInv' /\ Respected(alt_fd_list, alt_fd_list')
  BY <1>2, <1>3, IoctlReflags
<1>4. ASSUME NEW i \in InUse, NEW f \in FcntlArg, ALT_FCNTL(i, f)
      PROVE  FdInv' /\ Respected(alt_fd_list, alt_fd_list')
  BY <1>2, <1>4, FcntlReflags
<1> QED
  BY <1>1, <1>3, <1>4, RegisterKeeps, RedirectKeeps, FileOpenKeeps, FileCloseKeeps DEF FdNext

\* The direct drivers and those behind descriptors answer alike for the standard
\* streams (alt_read.c:58-123, alt_write.c:61-136, alt_ioctl.c:68-168,
\* alt_lseek.c:42-115, alt_fstat.c:63-126, alt_isatty.c:50-123).
LEMMA AlikeDrivers ==
  ASSUME FdInv
  PROVE  StdioAlike
<1> SUFFICES ASSUME redirected, STDIO \in alt_dev_list, NEW i \in Std
             PROVE  /\ ALT_READ(i) = DirectRead(i)
                    /\ ALT_WRITE(i) = DirectWrite(i)
                    /\ "ioctl" \in Provides(STDIO) => IoctlDriver(i) = DirectIoctl(i)
                    /\ ALT_LSEEK(i) = DirectLseek(i)
                    /\ ALT_FSTAT(i) = None <=> DirectFstat(i)
                    /\ ALT_ISATTY(i) <=> DirectTerminal(i)
  BY DEF StdioAlike
<1>1. alt_fd_list[i].dev = STDIO /\ alt_fd_list[i].mode = IF i = 0 THEN "RDONLY" ELSE "WRONLY"
  BY DEF FdInv, Redirected, Std
<1>2. STDIO # None /\ {"read", "write"} \subseteq Provides(STDIO)
      /\ Provides(STDIO) \cap {"lseek", "fstat"} = {}
  BY DEF Provides, SmallDriver, FastDriver
<1> QED
  BY <1>1, <1>2 DEF ALT_READ, ALT_WRITE, IoctlDriver, ALT_LSEEK, ALT_FSTAT, ALT_ISATTY, Reached,
     DirectRead, DirectWrite, DirectIoctl, DirectLseek, DirectFstat, DirectTerminal, AltDriver,
     Stdin, Std

\* A step that keeps the pool's locks and open files keeps them for the program's handles.
LEMMA KeptForHolders ==
  ASSUME FdInv, FdInv', Respected(alt_fd_list, alt_fd_list')
  PROVE  LockRespected /\ HandlesKept
<1>1. LockRespected
  BY DEF Respected, LockRespected
<1>2. \A i \in handles \cap handles' :
        i \in Fd \ Std /\ alt_fd_list[i].dev # None /\ alt_fd_list'[i].dev # None
  BY DEF FdInv, HandlesExact
<1>3. HandlesKept
  BY <1>2 DEF Respected, HandlesKept
<1> QED
  BY <1>1, <1>3

\* For every pool that leaves a slot beside the standard ones, every set of devices,
\* file systems and names: the slots taken are exactly the handles held, the standard
\* streams are always open and, however the BSP was configured, reach the same drivers;
\* no step opens a device that stays locked, and a handle held keeps the device and the
\* access mode it was opened with (alt_open.c:64-171, alt_close.c:64-101,
\* alt_fd_lock.c:54-75, alt_io_redirect.c:58-94).
THEOREM FilesAreSafe ==
  ASSUME Room
  PROVE  FdSpec => [](FdTypeOK /\ FdSafe) /\ DescriptorsKept
<1>1. FdInv /\ [FdNext]_fdVars => FdInv'
  BY FdStep
<1>2. FdInv => FdTypeOK /\ FdSafe
  BY AlikeDrivers DEF FdInv, FdSafe
<1>3. FdInv /\ [FdNext]_fdVars => [LockRespected /\ HandlesKept]_fdVars
  BY FdStep, KeptForHolders
<1> QED
  BY FdStarts, <1>1, <1>2, <1>3, PTL DEF FdSpec, DescriptorsKept

HIDE FdAssumption

-----------------------------------------------------------------------------
(* The log (alt_log_printf.c).                                             *)

\* A stack of two messages at most, by its elements.
LEMMA TwoDeep ==
  /\ \A a : Append(<<>>, a) = <<a>>
  /\ \A a, b : Append(<<a>>, b) = <<a, b>>
  /\ \A a : Len(<<a>>) = 1 /\ <<a>>[1] = a /\ <<a>> # <<>>
  /\ \A a, b : Len(<<a, b>>) = 2 /\ <<a, b>>[1] = a /\ <<a, b>>[2] = b /\ <<a, b>> # <<>>
  /\ \A a : SubSeq(<<a>>, 1, 0) = <<>>
  /\ \A a, b : SubSeq(<<a, b>>, 1, 1) = <<a>>
  /\ Len(<<>>) = 0
  /\ \A a, b : [<<a>> EXCEPT ![1] = b] = <<b>>
  /\ \A a, b, c : [<<a, b>> EXCEPT ![2] = c] = <<a, c>>
<1>1. \A a : Append(<<>>, a) = <<a>>
  OBVIOUS
<1>2. ASSUME NEW a, NEW b PROVE Append(<<a>>, b) = <<a, b>>
  <2> DEFINE S == {a, b}
  <2>1. <<a>> \in Seq(S) /\ <<a, b>> \in Seq(S) /\ b \in S
    OBVIOUS
  <2> HIDE DEF S
  <2>2. /\ Append(<<a>>, b) \in Seq(S)
        /\ Len(Append(<<a>>, b)) = 2
        /\ Append(<<a>>, b)[1] = a
        /\ Append(<<a>>, b)[2] = b
    BY <2>1, AppendProperties
  <2>3. \A i \in 1 .. 2 : Append(<<a>>, b)[i] = <<a, b>>[i]
    BY <2>2
  <2>4. Len(<<a, b>>) = 2
    OBVIOUS
  <2> QED
    BY <2>1, <2>2, <2>3, <2>4, SeqEqual
<1>3. \A a : Len(<<a>>) = 1 /\ <<a>>[1] = a /\ <<a>> # <<>>
  OBVIOUS
<1>4. \A a, b : Len(<<a, b>>) = 2 /\ <<a, b>>[1] = a /\ <<a, b>>[2] = b /\ <<a, b>> # <<>>
  OBVIOUS
<1>5. \A a : SubSeq(<<a>>, 1, 0) = <<>>
  OBVIOUS
<1>6. ASSUME NEW a, NEW b PROVE SubSeq(<<a, b>>, 1, 1) = <<a>>
  <2> DEFINE S == {a, b}
  <2>1. <<a>> \in Seq(S) /\ <<a, b>> \in Seq(S) /\ Len(<<a, b>>) = 2
    OBVIOUS
  <2> HIDE DEF S
  <2>2. /\ SubSeq(<<a, b>>, 1, 1) \in Seq(S)
        /\ Len(SubSeq(<<a, b>>, 1, 1)) = 1
        /\ SubSeq(<<a, b>>, 1, 1)[1] = a
    BY <2>1, SubSeqProperties
  <2>3. \A i \in 1 .. 1 : SubSeq(<<a, b>>, 1, 1)[i] = <<a>>[i]
    BY <2>2
  <2>4. Len(<<a>>) = 1
    OBVIOUS
  <2> QED
    BY <2>1, <2>2, <2>3, <2>4, SeqEqual
<1>7. Len(<<>>) = 0
  OBVIOUS
<1>8. \A a, b : [<<a>> EXCEPT ![1] = b] = <<b>>
  OBVIOUS
<1>9. \A a, b, c : [<<a, b>> EXCEPT ![2] = c] = <<a, c>>
  OBVIOUS
<1> QED
  BY <1>1, <1>2, <1>3, <1>4, <1>5, <1>6, <1>7, <1>8, <1>9

\* The texts of an echo, and the characters it is printed from.
EchoChars == {"a", "eot", "nul", "lf", "D", "cr"}

\* A buffer that alt_write echoed: the copy, cut at the last character, and the line's end.
LogEchoed(buf) ==
  /\ buf \in Seq(EchoChars)
  /\ Len(buf) \in 4 .. LogEchoLen + 2
  /\ \A i \in 1 .. Len(buf) : buf[i] # "eot"
  /\ buf[Len(buf) - 2] = "lf"
  /\ buf[Len(buf) - 1] = "cr"
  /\ buf[Len(buf)] = "nul"

\* What alt_write leaves in the buffer.
LEMMA EchoMakes ==
  ASSUME NEW text \in LogTexts, NEW n \in Nat, 2 <= n, n <= LogEchoLen, n <= Len(text)
  PROVE  LogEchoed(LogEcho(text, n))
<1>1. text \in Seq({"a", "eot", "nul"})
  BY LogAssumption
<1>2. \A k \in 1 .. n : text[k] \in {"a", "eot", "nul"}
  BY <1>1, ElementOfSeq
<1>3. LogCopied(text, n) \in [1 .. n -> {"a", "eot", "nul"}]
  BY <1>2 DEF LogCopied
<1> DEFINE line == [LogCopied(text, n) EXCEPT ![n] = "lf"]
           first == [k \in 1 .. n |-> IF line[k] = "eot" THEN "D" ELSE line[k]]
<1>4. line \in [1 .. n -> {"a", "eot", "nul", "lf"}] /\ line[n] = "lf"
  BY <1>3
<1> HIDE DEF line
<1>5. /\ first \in [1 .. n -> EchoChars]
      /\ first[n] = "lf"
      /\ \A k \in 1 .. n : first[k] # "eot"
  BY <1>4 DEF EchoChars
<1> HIDE DEF first
<1>6. first \in Seq(EchoChars) /\ Len(first) = n
  BY <1>5
<1>7. <<"cr", "nul">> \in Seq(EchoChars) /\ Len(<<"cr", "nul">>) = 2
  BY DEF EchoChars
<1> DEFINE buf == first \o <<"cr", "nul">>
<1>8. /\ buf \in Seq(EchoChars)
      /\ Len(buf) = n + 2
      /\ \A k \in 1 .. n + 2 : buf[k] = IF k <= n THEN first[k] ELSE <<"cr", "nul">>[k - n]
  BY <1>6, <1>7, ConcatProperties
<1>9. LogEcho(text, n) = buf
  BY DEF LogEcho, line, first
<1> HIDE DEF buf
<1>10. buf[n] = "lf" /\ buf[n + 1] = "cr" /\ buf[n + 2] = "nul"
  BY <1>5, <1>8
<1>11. \A k \in 1 .. n + 2 : buf[k] # "eot"
  <2> TAKE k \in 1 .. n + 2
  <2>1. CASE k <= n
    BY <2>1, <1>5, <1>8
  <2>2. CASE k = n + 1
    BY <2>2, <1>10
  <2>3. CASE k = n + 2
    BY <2>3, <1>10
  <2> QED
    BY <2>1, <2>2, <2>3
<1> QED
  BY <1>8, <1>9, <1>10, <1>11, LogAssumption DEF LogEchoed

\* What %s prints of an echoed line that holds no other NUL is the line and its end.
LEMMA EchoShows ==
  ASSUME NEW buf, LogEchoed(buf)
  PROVE  /\ buf # <<>> /\ \A k \in DOMAIN buf : buf[k] # "eot"
         /\ buf[Len(buf)] = "nul"
         /\ Len(buf) <= LogEchoLen + 2
         /\ \/ SubSeq(buf, Len(buf) - 2, Len(buf) - 1) = <<"lf", "cr">>
               /\ LogShown(buf) = SubSeq(buf, 1, Len(buf) - 1)
            \/ \E k \in 1 .. Len(buf) - 3 : buf[k] = "nul"
<1> USE DEF LogEchoed
<1>1. DOMAIN buf = 1 .. Len(buf) /\ Len(buf) \in Nat /\ buf # <<>>
  BY LenProperties, EmptySeq, LogAssumption
<1> DEFINE n == Len(buf) - 2
<1>2. n \in Nat /\ n >= 2 /\ Len(buf) = n + 2
  BY <1>1, LogAssumption
<1> HIDE DEF n
<1>3. ASSUME \A k \in 1 .. n - 1 : buf[k] # "nul"
      PROVE  /\ SubSeq(buf, n, n + 1) = <<"lf", "cr">>
             /\ LogShown(buf) = SubSeq(buf, 1, n + 1)
  <2>1. \A k \in 1 .. n + 2 : buf[k] \in EchoChars
    BY <1>1, <1>2, ElementOfSeq
  <2>2. /\ SubSeq(buf, n, n + 1) \in Seq(EchoChars)
        /\ Len(SubSeq(buf, n, n + 1)) = 2
        /\ SubSeq(buf, n, n + 1)[1] = buf[n]
        /\ SubSeq(buf, n, n + 1)[2] = buf[n + 1]
    <3>1. \A k \in n .. n + 1 : buf[k] \in EchoChars
      BY <2>1, <1>2
    <3>2. /\ SubSeq(buf, n, n + 1) \in Seq(EchoChars)
          /\ Len(SubSeq(buf, n, n + 1)) = IF n <= n + 1 THEN (n + 1) - n + 1 ELSE 0
          /\ \A k \in 1 .. (n + 1) - n + 1 : SubSeq(buf, n, n + 1)[k] = buf[n + k - 1]
      <4>1. n \in Int /\ n + 1 \in Int
        BY <1>2
      <4> QED
        BY <3>1, <4>1, SubSeqProperties, SMTT(30)
    <3>3. 1 \in 1 .. (n + 1) - n + 1 /\ 2 \in 1 .. (n + 1) - n + 1 /\ n + 1 - 1 = n /\ n + 2 - 1 = n + 1
      BY <1>2
    <3>4. SubSeq(buf, n, n + 1)[1] = buf[n + 1 - 1] /\ SubSeq(buf, n, n + 1)[2] = buf[n + 2 - 1]
      BY <3>2, <3>3
    <3>5. (IF n <= n + 1 THEN (n + 1) - n + 1 ELSE 0) = 2
      BY <1>2
    <3> QED
      BY <3>2, <3>3, <3>4, <3>5
  <2>3. <<"lf", "cr">> \in Seq(EchoChars) /\ Len(<<"lf", "cr">>) = 2
    BY DEF EchoChars
  <2>4. \A k \in 1 .. 2 : SubSeq(buf, n, n + 1)[k] = <<"lf", "cr">>[k]
    BY <2>2, <1>2
  <2>5. SubSeq(buf, n, n + 1) = <<"lf", "cr">>
    BY <2>2, <2>3, <2>4, SeqEqual
  <2>6. \A k \in 1 .. n + 1 : buf[k] # "nul"
    BY <1>3, <1>2
  <2>7. \A k \in DOMAIN buf :
          (buf[k] = "nul" /\ \A j \in 1 .. k - 1 : buf[j] # "nul") <=> k = n + 2
    BY <2>6, <1>1, <1>2
  <2>8. (CHOOSE k \in DOMAIN buf : buf[k] = "nul" /\ \A j \in 1 .. k - 1 : buf[j] # "nul") = n + 2
    BY <2>7, <1>1, <1>2
  <2>9. LogShown(buf) = SubSeq(buf, 1, (n + 2) - 1)
    BY <2>8 DEF LogShown
  <2>10. (n + 2) - 1 = n + 1
    BY <1>2
  <2> QED
    BY <2>5, <2>9, <2>10
<1>4. CASE \A k \in 1 .. n - 1 : buf[k] # "nul"
  <2>1. Len(buf) - 2 = n /\ Len(buf) - 1 = n + 1
    BY <1>2
  <2> QED
    BY <2>1, <1>1, <1>3, <1>4, LogAssumption
<1>5. CASE \E k \in 1 .. n - 1 : buf[k] = "nul"
  <2>1. Len(buf) - 3 = n - 1
    BY <1>2
  <2> QED
    BY <2>1, <1>1, <1>5, LogAssumption
<1> QED
  BY <1>4, <1>5

\* A message is a record of its three fields.
LogMsg(m) == m = [who |-> m.who, left |-> m.left, polled |-> m.polled] /\ m.polled \in BOOLEAN

\* Polling changes nothing else of a message.
LEMMA PolledOnly ==
  \A a, b, c : [[who |-> a, left |-> b, polled |-> c] EXCEPT !.polled = TRUE]
                = [who |-> a, left |-> b, polled |-> TRUE]
<1> TAKE a, b, c
<1> DEFINE m == [who |-> a, left |-> b, polled |-> c]
           e == [m EXCEPT !.polled = TRUE]
           f == [who |-> a, left |-> b, polled |-> TRUE]
           D == {"who", "left", "polled"}
<1>1. DOMAIN m = D /\ m.who = a /\ m.left = b
  OBVIOUS
<1>2. f = [x \in D |-> f[x]] /\ f.who = a /\ f.left = b /\ f.polled = TRUE
  OBVIOUS
<1> HIDE DEF m, f
<1>3. e = [x \in D |-> IF x = "polled" THEN TRUE ELSE m[x]]
  BY <1>1
<1>4. \A x \in D : (IF x = "polled" THEN TRUE ELSE m[x]) = f[x]
  BY <1>1, <1>2
<1>5. e = [x \in D |-> f[x]]
  BY <1>3, <1>4
<1> QED
  BY <1>5, <1>2 DEF m, f

\* Nothing is printed, the program prints or an interrupt does, or an interrupt does over
\* the program.
LogStack ==
  \/ lgStack = <<>>
  \/ \E m : lgStack = <<m>> /\ LogMsg(m)
  \/ \E m, k : lgStack = <<m, k>> /\ LogMsg(m) /\ LogMsg(k)
               /\ m.who # "interrupt" /\ k.who = "interrupt"
               /\ (k.polled => lgPort < LogPlaces)

\* The character that may still be lost: the one of the program that polled before an
\* interrupt logged, until it is written or the port has a place again.
Owed ==
  IF lgStack # <<>> /\ lgStack[1].polled /\ (Len(lgStack) = 2 \/ lgPort = LogPlaces) THEN 1 ELSE 0

LogInv ==
  /\ lgOn \subseteq LogFlags
  /\ lgPort \in 0 .. LogPlaces
  /\ lgClk \in 0 .. LogInterval
  /\ lgAlarm \in -1 .. LogAlarm
  /\ lgLost \in Nat /\ lgGaps \in Nat
  /\ LogStack
  /\ lgLost + Owed <= lgGaps
  /\ (lgBuf = <<>> \/ LogEchoed(lgBuf))
  /\ ("isr" \in lgOn => lgOn = LogFlags)
  /\ (lgOn = {} => lgLost = 0 /\ lgStack = <<>> /\ lgPort = 0 /\ lgAlarm \in {-1, 0})

\* The log starts silent, at one of its levels.
LEMMA LogStarts == LogInit => LogInv
<1> SUFFICES ASSUME LogInit PROVE LogInv
  OBVIOUS
<1> USE LogAssumption DEF LogInit
<1>1. PICK level \in LogLevels : lgOn = LogOn(level)
  OBVIOUS
<1>2. lgOn \subseteq LogFlags
  BY <1>1 DEF LogOn
<1>3. "isr" \in lgOn => lgOn = LogFlags
  <2> SUFFICES ASSUME "isr" \in lgOn PROVE LogFlags \subseteq lgOn
    BY <1>2
  <2>1. level # -1 /\ 3 <= level
    BY <1>1 DEF LogOn, LogFrom
  <2>2. \A f \in LogFlags : LogFrom[f] <= 3 /\ LogFrom[f] \in Int
    BY DEF LogFlags, LogFrom
  <2>3. \A f \in LogFlags : LogFrom[f] <= level
    BY <2>1, <2>2 DEF LogLevels
  <2> QED
    BY <2>1, <2>3, <1>1 DEF LogOn
<1>4. Owed = 0
  BY DEF Owed
<1>5. -1 \in -1 .. LogAlarm /\ 0 \in 0 .. LogInterval /\ 0 \in 0 .. LogPlaces
  OBVIOUS
<1> QED
  BY <1>2, <1>3, <1>4, <1>5 DEF LogInv, LogStack

\* What pushing a message does to the stack and to the count of gaps.
LEMMA LogPushes ==
  ASSUME LogInv, NEW who, NEW n, LogPush(who, n), lgPort' = lgPort, lgLost' = lgLost,
         \/ lgStack = <<>>
         \/ who = "interrupt" /\ ~LogInterrupted
  PROVE  /\ LogStack' /\ lgGaps' \in Nat /\ lgLost' + Owed' <= lgGaps'
<1> USE LogAssumption, TwoDeep
<1> DEFINE new == LogMessage(who, n)
<1>1. LogMsg(new) /\ new.who = who /\ new.polled = FALSE
  BY Zenon DEF LogMsg, LogMessage
<1>2. lgStack' = Append(lgStack, new)
  BY DEF LogPush
<1> HIDE DEF new
<1>3. CASE lgStack = <<>>
  <2>1. lgStack' = <<new>> /\ lgGaps' = lgGaps
    BY <1>2, <1>3 DEF LogPush, LogInv
  <2>2. Owed' = 0 /\ LogStack'
    BY <2>1, <1>1 DEF Owed, LogStack
  <2>3. Owed \in {0, 1}
    BY DEF Owed
  <2> QED
    BY <2>1, <2>2, <2>3 DEF LogInv
<1>4. ASSUME lgStack # <<>>, NEW m, lgStack = <<m>>, LogMsg(m)
      PROVE  LogStack' /\ lgGaps' \in Nat /\ lgLost' + Owed' <= lgGaps'
  <2>1. who = "interrupt" /\ m.who # "interrupt"
    BY <1>4 DEF LogInterrupted, LogRunning
  <2>2. lgStack' = <<m, new>>
    BY <1>2, <1>4
  <2>3. lgGaps' = lgGaps + (IF m.polled THEN 1 ELSE 0)
    BY <1>4 DEF LogPush, LogRunning
  <2>4. LogStack'
    BY <2>1, <2>2, <1>1, <1>4 DEF LogStack
  <2>5. Owed' = IF m.polled THEN 1 ELSE 0
    BY <2>2 DEF Owed
  <2>6. Owed \in {0, 1}
    BY DEF Owed
  <2> QED
    BY <2>3, <2>4, <2>5, <2>6, <1>4 DEF LogInv, LogMsg
<1>5. ASSUME NEW m, NEW k, lgStack = <<m, k>>, k.who = "interrupt" PROVE FALSE
  BY <1>5 DEF LogInterrupted, LogRunning
<1> QED
  BY <1>3, <1>4, <1>5 DEF LogInv, LogStack

\* Owing no more keeps what was lost within the gaps.
LEMMA OwesLess == \A c, d \in Nat : \A a, b \in {0, 1} : b <= a /\ c + a <= d => c + b <= d
OBVIOUS

\* No step of the log loses more than it owed, or prints at the silent level.
LEMMA LogKept ==
  ASSUME LogInv, [LogNext]_lgVars
  PROVE  LogInv'
<1> USE LogAssumption
<1>1. CASE UNCHANGED lgVars
  BY <1>1, Zenon DEF lgVars, LogInv, LogStack, Owed
<1>2. CASE alt_log_txchar_poll
  <2> USE TwoDeep
  <2>1. /\ lgStack # <<>> /\ ~LogRunning.polled /\ lgPort < LogPlaces
        /\ lgStack' = [lgStack EXCEPT ![Len(lgStack)].polled = TRUE]
        /\ UNCHANGED <<lgOn, lgPort, lgBuf, lgClk, lgAlarm, lgLost, lgGaps>>
    BY <1>2 DEF alt_log_txchar_poll
  <2>2. ASSUME NEW m, LogMsg(m)
        PROVE  LET q == [m EXCEPT !.polled = TRUE]
               IN  LogMsg(q) /\ q.who = m.who /\ q.polled = TRUE
    <3>1. [m EXCEPT !.polled = TRUE] = [who |-> m.who, left |-> m.left, polled |-> TRUE]
      BY <2>2, PolledOnly DEF LogMsg
    <3> QED
      BY <3>1, Zenon DEF LogMsg
  <2>3. LogStack' /\ Owed' <= Owed /\ Owed' \in {0, 1} /\ Owed \in {0, 1}
    <3>1. ASSUME NEW m, lgStack = <<m>>, LogMsg(m) PROVE LogStack' /\ Owed' = 0
      <4> DEFINE q == [m EXCEPT !.polled = TRUE]
      <4>1. lgStack' = <<q>> /\ LogMsg(q)
        <5>1. [lgStack EXCEPT ![Len(lgStack)].polled = TRUE] = <<q>>
          <6>1. [<<m>> EXCEPT ![1].polled = TRUE] = [<<m>> EXCEPT ![1] = q]
            BY Zenon
          <6>2. Len(<<m>>) = 1
            OBVIOUS
          <6> QED
            BY <6>1, <6>2, <3>1
        <5> QED
          BY <5>1, <2>1, <2>2, <3>1
      <4> HIDE DEF q
      <4> QED
        BY <4>1, <2>1 DEF LogStack, Owed, LogInv
    <3>2. ASSUME NEW m, NEW k, lgStack = <<m, k>>, LogMsg(m), LogMsg(k),
                 m.who # "interrupt", k.who = "interrupt"
          PROVE  LogStack' /\ Owed' = Owed
      <4> DEFINE q == [k EXCEPT !.polled = TRUE]
      <4>1. lgStack' = <<m, q>> /\ LogMsg(q) /\ q.who = k.who
        <5>1. [lgStack EXCEPT ![Len(lgStack)].polled = TRUE] = <<m, q>>
          <6>1. [<<m, k>> EXCEPT ![2].polled = TRUE] = [<<m, k>> EXCEPT ![2] = q]
            BY Zenon
          <6>2. Len(<<m, k>>) = 2
            OBVIOUS
          <6>3. \A z : [<<m, k>> EXCEPT ![2] = z] = <<m, z>>
            BY SMT
          <6> HIDE DEF q
          <6> QED
            BY <6>1, <6>2, <6>3, <3>2, Zenon
        <5> QED
          BY <5>1, <2>1, <2>2, <3>2
      <4> HIDE DEF q
      <4>2. LogStack'
        BY <4>1, <2>1, <3>2 DEF LogStack
      <4> QED
        BY <4>1, <4>2, <2>1, <3>2 DEF Owed
    <3>3. Owed' \in {0, 1} /\ Owed \in {0, 1}
      BY DEF Owed
    <3> QED
      <4>1. LogStack /\ lgStack # <<>>
        BY <2>1 DEF LogInv
      <4> HIDE TwoDeep
      <4>2. CASE \E m : lgStack = <<m>> /\ LogMsg(m)
        <5>1. LogStack' /\ Owed' = 0
          BY <4>2, <3>1
        <5> QED
          BY <5>1, <3>3
      <4>3. CASE \E m, k : lgStack = <<m, k>> /\ LogMsg(m) /\ LogMsg(k)
                            /\ m.who # "interrupt" /\ k.who = "interrupt"
        <5>1. LogStack' /\ Owed' = Owed
          BY <4>3, <3>2
        <5> QED
          BY <5>1, <3>3
      <4> QED
        BY <4>1, <4>2, <4>3, Zenon DEF LogStack
  <2> QED
    BY <2>1, <2>3 DEF LogInv
<1>3. CASE alt_log_txchar_write
  <2> USE TwoDeep
  <2>1. /\ lgStack # <<>> /\ LogRunning.polled
        /\ lgStack' = IF LogRunning.left = 1 THEN SubSeq(lgStack, 1, Len(lgStack) - 1)
                      ELSE [lgStack EXCEPT ![Len(lgStack)] = LogMessage(@.who, @.left - 1)]
        /\ lgPort' = IF lgPort < LogPlaces THEN lgPort + 1 ELSE lgPort
        /\ lgLost' = lgLost + (IF lgPort < LogPlaces THEN 0 ELSE 1)
        /\ UNCHANGED <<lgOn, lgBuf, lgClk, lgAlarm, lgGaps>>
    BY <1>3 DEF alt_log_txchar_write
  <2>2. lgPort' \in 0 .. LogPlaces /\ lgLost' \in Nat /\ lgGaps' \in Nat
    BY <2>1 DEF LogInv
  <2>3. \A m : LET q == LogMessage(m.who, m.left - 1)
               IN LogMsg(q) /\ q.who = m.who /\ q.polled = FALSE
    BY Zenon DEF LogMsg, LogMessage
  <2>4. LogStack' /\ lgLost' + Owed' <= lgGaps'
    <3>1. ASSUME NEW m, lgStack = <<m>>, LogMsg(m) PROVE LogStack' /\ lgLost' + Owed' <= lgGaps'
      <4>1. m.polled /\ LogRunning = m
        BY <2>1, <3>1 DEF LogRunning, LogMsg
      <4>2. lgLost' = lgLost + Owed
        BY <4>1, <2>1, <3>1 DEF Owed, LogInv
      <4>3. CASE m.left = 1
        <5>1. lgStack' = <<>>
          BY <4>1, <4>3, <2>1, <3>1
        <5>2. Owed' = 0 /\ LogStack'
          BY <5>1 DEF Owed, LogStack
        <5>3. lgLost' <= lgGaps'
          BY <4>2, <2>1 DEF LogInv
        <5> HIDE TwoDeep
        <5>4. lgLost' + Owed' = lgLost'
          <6>1. \A c \in Nat : c + 0 = c
            OBVIOUS
          <6> QED
            BY <5>2, <2>2, <6>1, Zenon
        <5> QED
          BY <5>2, <5>3, <5>4, Zenon
      <4>4. CASE m.left # 1
        <5> DEFINE q == LogMessage(m.who, m.left - 1)
        <5>1. lgStack' = <<q>>
          BY <4>1, <4>4, <2>1, <3>1
        <5>2. LogMsg(q) /\ q.polled = FALSE
          BY <2>3
        <5> HIDE DEF q
        <5>3. Owed' = 0 /\ LogStack'
          BY <5>1, <5>2 DEF Owed, LogStack
        <5> QED
          BY <5>3, <4>2, <2>1, <2>2 DEF LogInv
      <4> QED
        BY <4>3, <4>4
    <3>2. ASSUME NEW m, NEW k, lgStack = <<m, k>>, LogMsg(m), LogMsg(k),
                 m.who # "interrupt", k.who = "interrupt", k.polled => lgPort < LogPlaces
          PROVE  LogStack' /\ lgLost' + Owed' <= lgGaps'
      <4>1. k.polled /\ LogRunning = k
        BY <2>1, <3>2 DEF LogRunning, LogMsg
      <4>2. lgLost' = lgLost
        BY <4>1, <2>1, <3>2 DEF LogInv
      <4>3. Owed = IF m.polled THEN 1 ELSE 0
        BY <3>2 DEF Owed
      <4>4. CASE k.left = 1
        <5>1. lgStack' = <<m>>
          BY <4>1, <4>4, <2>1, <3>2
        <5>2. LogStack' /\ Owed' <= Owed /\ Owed' \in {0, 1} /\ Owed \in {0, 1}
          BY <5>1, <4>3, <3>2 DEF Owed, LogStack
        <5>3. lgLost + Owed <= lgGaps /\ lgGaps' = lgGaps /\ lgLost \in Nat /\ lgGaps \in Nat
          BY <2>1 DEF LogInv
        <5> HIDE TwoDeep
        <5>4. lgLost + Owed' <= lgGaps
          BY <5>2, <5>3, OwesLess, Zenon
        <5> QED
          BY <5>2, <5>3, <5>4, <4>2, Zenon
      <4>5. CASE k.left # 1
        <5> DEFINE q == LogMessage(k.who, k.left - 1)
        <5>1. lgStack' = <<m, q>>
          BY <4>1, <4>5, <2>1, <3>2
        <5>2. LogMsg(q) /\ q.polled = FALSE /\ q.who = "interrupt"
          BY <2>3, <3>2
        <5> HIDE DEF q
        <5>3. LogStack'
          BY <5>1, <5>2, <3>2 DEF LogStack
        <5>4. Owed' = Owed
          BY <5>1, <4>3 DEF Owed
        <5> QED
          BY <5>3, <5>4, <4>2, <2>1, <2>2 DEF LogInv
      <4> QED
        BY <4>4, <4>5
    <3> QED
      BY <3>1, <3>2, <2>1 DEF LogInv, LogStack
  <2> QED
    BY <2>1, <2>2, <2>4 DEF LogInv
<1>4. CASE alt_log_write
  <2>1. /\ lgStack = <<>> /\ "write" \in lgOn
        /\ UNCHANGED <<lgOn, lgPort, lgClk, lgAlarm, lgLost>>
    BY <1>4 DEF alt_log_write
  <2>2. PICK text \in LogTexts :
          LET length == IF LogEchoLen > Len(text) THEN Len(text) ELSE LogEchoLen
          IN  IF length < 2 THEN UNCHANGED <<lgBuf, lgStack, lgGaps>>
              ELSE /\ lgBuf' = LogEcho(text, length)
                   /\ LogPush("write", 1 + Len(LogShown(lgBuf')))
    BY <1>4 DEF alt_log_write
  <2> DEFINE length == IF LogEchoLen > Len(text) THEN Len(text) ELSE LogEchoLen
  <2>3. Len(text) \in Nat
    BY LenProperties
  <2>4. length \in Nat /\ length <= LogEchoLen /\ length <= Len(text)
    BY <2>3
  <2>5. CASE length < 2
    <3>1. UNCHANGED lgVars
      BY <2>1, <2>2, <2>5 DEF lgVars
    <3> QED
      BY <3>1, Zenon DEF lgVars, LogInv, LogStack, Owed
  <2>6. CASE ~(length < 2)
    <3>1. lgBuf' = LogEcho(text, length) /\ LogPush("write", 1 + Len(LogShown(lgBuf')))
      BY <2>2, <2>6
    <3> HIDE DEF length
    <3>2. LogEchoed(lgBuf')
      BY <3>1, <2>4, <2>6, EchoMakes
    <3>3. LogStack' /\ lgGaps' \in Nat /\ lgLost' + Owed' <= lgGaps'
      BY <3>1, <2>1, LogPushes
    <3> QED
      BY <3>2, <3>3, <2>1 DEF LogInv
  <2> QED
    BY <2>5, <2>6
<1>5. CASE LogBoot
  <2>1. /\ lgStack = <<>> /\ "boot" \in lgOn /\ LogPush("boot", 1)
        /\ UNCHANGED <<lgOn, lgPort, lgBuf, lgClk, lgAlarm, lgLost>>
    BY <1>5 DEF LogBoot
  <2>2. LogStack' /\ lgGaps' \in Nat /\ lgLost' + Owed' <= lgGaps'
    BY <2>1, LogPushes
  <2> QED
    BY <2>1, <2>2 DEF LogInv
<1>6. CASE LogStartup
  <2>1. /\ lgStack = <<>> /\ lgAlarm = -1
        /\ lgAlarm' = (IF "alarm" \in lgOn THEN LogAlarm ELSE 0)
        /\ (IF "startup" \in lgOn THEN LogPush("startup", 1) ELSE UNCHANGED <<lgStack, lgGaps>>)
        /\ UNCHANGED <<lgOn, lgPort, lgBuf, lgClk, lgLost>>
    BY <1>6 DEF LogStartup
  <2>2. lgAlarm' \in -1 .. LogAlarm
    BY <2>1
  <2>3. CASE "startup" \in lgOn
    <3>1. LogStack' /\ lgGaps' \in Nat /\ lgLost' + Owed' <= lgGaps'
      BY <2>1, <2>3, LogPushes
    <3> QED
      BY <2>1, <2>2, <2>3, <3>1 DEF LogInv
  <2>4. CASE ~("startup" \in lgOn)
    <3>1. LogStack' /\ Owed' = Owed /\ UNCHANGED <<lgStack, lgGaps>>
      BY <2>1, <2>4 DEF LogInv, LogStack, Owed
    <3> QED
      BY <2>1, <2>2, <3>1 DEF LogInv
  <2> QED
    BY <2>3, <2>4
<1>7. CASE LogTick
  <2> DEFINE on    == "sys_clk" \in lgOn
             beats == on /\ lgClk + 1 > LogInterval
             due   == lgAlarm = 1
             n     == (IF beats THEN 1 ELSE 0) + (IF due THEN 1 ELSE 0)
  <2>1. /\ ~LogInterrupted
        /\ lgClk' = (IF beats THEN 0 ELSE IF on THEN lgClk + 1 ELSE lgClk)
        /\ lgAlarm' = (IF due THEN LogAlarm ELSE IF lgAlarm > 0 THEN lgAlarm - 1 ELSE lgAlarm)
        /\ (IF n > 0 THEN LogPush("interrupt", n) ELSE UNCHANGED <<lgStack, lgGaps>>)
        /\ UNCHANGED <<lgOn, lgPort, lgBuf, lgLost>>
    BY <1>7 DEF LogTick
  <2>2. lgClk' \in 0 .. LogInterval
    BY <2>1 DEF LogInv
  <2>3. lgAlarm' \in -1 .. LogAlarm
    BY <2>1 DEF LogInv
  <2>4. lgOn = {} => ~(n > 0) /\ lgAlarm' \in {-1, 0}
    BY <2>1 DEF LogInv
  <2> HIDE DEF n
  <2>5. LogStack' /\ lgGaps' \in Nat /\ lgLost' + Owed' <= lgGaps'
    <3>1. CASE n > 0
      BY <2>1, <3>1, LogPushes
    <3>2. CASE ~(n > 0)
      <4>1. UNCHANGED <<lgStack, lgGaps, lgPort, lgLost>>
        BY <2>1, <3>2
      <4> QED
        BY <4>1 DEF LogInv, LogStack, Owed
    <3> QED
      BY <3>1, <3>2
  <2>6. lgOn = {} => lgStack' = lgStack
    BY <2>1, <2>4
  <2> QED
    <3>1. lgOn' = {} => lgLost' = 0 /\ lgStack' = <<>> /\ lgPort' = 0 /\ lgAlarm' \in {-1, 0}
      BY <2>1, <2>4, <2>6 DEF LogInv
    <3>2. lgPort' \in 0 .. LogPlaces /\ lgLost' \in Nat
      BY <2>1 DEF LogInv
    <3> QED
      BY <2>1, <2>2, <2>3, <2>5, <3>1, <3>2, Zenon DEF LogInv
<1>8. CASE LogIsr
  <2>1. /\ ~LogInterrupted /\ "isr" \in lgOn /\ LogPush("interrupt", 1)
        /\ UNCHANGED <<lgOn, lgPort, lgBuf, lgClk, lgAlarm, lgLost>>
    BY <1>8 DEF LogIsr
  <2>2. LogStack' /\ lgGaps' \in Nat /\ lgLost' + Owed' <= lgGaps'
    BY <2>1, LogPushes
  <2> QED
    BY <2>1, <2>2 DEF LogInv
<1>9. CASE LogDrain
  <2>1. /\ lgPort > 0 /\ lgPort' = lgPort - 1
        /\ UNCHANGED <<lgOn, lgStack, lgBuf, lgClk, lgAlarm, lgLost, lgGaps>>
    BY <1>9 DEF LogDrain
  <2>2. lgPort' \in 0 .. LogPlaces /\ lgPort' < LogPlaces
    BY <2>1 DEF LogInv
  <2>3. LogStack'
    BY <2>1, <2>2 DEF LogInv, LogStack
  <2>4. Owed' <= Owed /\ Owed' \in {0, 1} /\ Owed \in {0, 1}
    BY <2>1, <2>2 DEF Owed
  <2>5. lgOn # {}
    BY <2>1 DEF LogInv
  <2>6. lgLost + Owed <= lgGaps /\ lgLost' = lgLost /\ lgGaps' = lgGaps
        /\ lgLost \in Nat /\ lgGaps \in Nat
    BY <2>1 DEF LogInv
  <2>7. lgLost' + Owed' <= lgGaps'
    <3>1. lgLost + Owed' <= lgGaps
      BY <2>4, <2>6, OwesLess, Zenon
    <3> QED
      BY <3>1, <2>6, Zenon
  <2> QED
    BY <2>1, <2>2, <2>3, <2>5, <2>7 DEF LogInv
<1> QED
  BY <1>1, <1>2, <1>3, <1>4, <1>5, <1>6, <1>7, <1>8, <1>9 DEF LogNext

\* The invariant holds what the log promises.
LEMMA LogMeans == LogInv => LogTypeOK /\ LogSafe
<1> SUFFICES ASSUME LogInv PROVE LogTypeOK /\ LogSafe
  OBVIOUS
<1> USE LogAssumption
<1>1. Len(lgStack) <= 2
  <2>1. \A m, k : lgStack = <<m, k>> => Len(lgStack) <= 2
    BY TwoDeep
  <2>2. \A m : lgStack = <<m>> => Len(lgStack) <= 2
    BY TwoDeep
  <2>3. lgStack = <<>> => Len(lgStack) <= 2
    BY TwoDeep
  <2> QED
    BY <2>1, <2>2, <2>3, Zenon DEF LogInv, LogStack
<1>2. Len(lgBuf) <= LogEchoLen + 2
  BY TwoDeep, EchoShows DEF LogInv
<1>3. EchoIsHarmless
  <2>1. CASE lgBuf = <<>>
    BY <2>1 DEF EchoIsHarmless
  <2>2. CASE LogEchoed(lgBuf)
    BY <2>2, EchoShows, Zenon DEF EchoIsHarmless
  <2> QED
    BY <2>1, <2>2 DEF LogInv
<1>4. LostOnlyInGaps
  BY DEF LogInv, LostOnlyInGaps, Owed
<1> QED
  BY <1>1, <1>2, <1>3, <1>4 DEF LogInv, LogTypeOK, LogSafe, SilentMeansSilent

\* The log (alt_log_printf.c): characters are lost only where an interrupt logs between the
\* poll and the write of alt_log_txchar, one for each at most, the echo of alt_write is
\* harmless whatever its text, and the silent level prints nothing, for every size of the
\* port's FIFO, of the echo and of the intervals.
THEOREM LogIsSafe == LogSpec => [](LogTypeOK /\ LogSafe)
<1>1. LogInv /\ [LogNext]_lgVars => LogInv'
  BY LogKept
<1> QED
  BY <1>1, LogStarts, LogMeans, PTL DEF LogSpec

-----------------------------------------------------------------------------
(* Recursion over the words.                                               *)

\* Every nonempty set of naturals has a least element.
LEMMA LeastNumber ==
  ASSUME NEW T, T \subseteq Nat, T # {}
  PROVE  \E x \in T : \A y \in T : x <= y
<1>1. PICK x \in T : \A y \in T : ~(<<y, x>> \in OpToRel(<, Nat))
  BY NatLessThanWellFounded, WFMin
<1>2. \A y \in T : ~(y < x)
  BY <1>1 DEF OpToRel
<1> QED
  BY <1>2

\* A set that has every number below which it has all numbers has them all.
LEMMA AllNumbers ==
  ASSUME NEW S, NEW N \in Nat, \A n \in 0 .. N : (\A m \in 0 .. n - 1 : m \in S) => n \in S
  PROVE  \A n \in 0 .. N : n \in S
<1> SUFFICES ASSUME (0 .. N) \ S # {} PROVE FALSE
  OBVIOUS
<1>1. PICK x \in (0 .. N) \ S : \A y \in (0 .. N) \ S : x <= y
  <2>1. (0 .. N) \ S \subseteq Nat
    OBVIOUS
  <2> QED
    BY <2>1, LeastNumber
<1>2. \A m \in 0 .. x - 1 : m \in S
  BY <1>1
<1> QED
  BY <1>1, <1>2

\* The quotient and the rest of a division.
LEMMA Division ==
  ASSUME NEW a \in Nat, NEW b \in Nat \ {0}
  PROVE  \E q \in Nat, r \in 0 .. b - 1 : a \div b = q /\ a % b = r /\ a = b * q + r
OBVIOUS

\* There are no others.
LEMMA OnlyQuotient ==
  ASSUME NEW a \in Int, NEW b \in Nat \ {0}, NEW q \in Int, NEW r \in 0 .. b - 1, a = b * q + r
  PROVE  a \div b = q /\ a % b = r
OBVIOUS

\* A number below the divisor is its own rest.
LEMMA Small ==
  ASSUME NEW a \in Nat, NEW b \in Nat, a < b
  PROVE  a % b = a /\ a \div b = 0
OBVIOUS

\* The bases of the conversions.
Bases == {8, 10, 16}

\* What division by a base does.
LEMMA DivideByBase ==
  ASSUME NEW b \in Bases, NEW x \in Nat
  PROVE  /\ x \div b \in Nat /\ x \div b <= x /\ (x > 0 => x \div b < x)
         /\ x % b \in 0 .. b - 1
<1>1. PICK q \in Nat, r \in 0 .. b - 1 : x \div b = q /\ x % b = r /\ x = b * q + r
  BY Division DEF Bases
<1>2. q <= x /\ (x > 0 => q < x)
  <2>1. CASE b = 8
    BY <1>1, <2>1
  <2>2. CASE b = 10
    BY <1>1, <2>2
  <2>3. CASE b = 16
    BY <1>1, <2>3
  <2> QED
    BY <2>1, <2>2, <2>3 DEF Bases
<1>3. x \div b \in Nat /\ x \div b <= x /\ (x > 0 => x \div b < x)
  BY <1>1, <1>2
<1>4. x % b \in 0 .. b - 1
  BY <1>1, Zenon
<1> QED
  BY <1>3, <1>4, Zenon

\* One step of PtLargest's count on a function f.
CountStep(f, x, b) ==
  IF x \div b > 0
  THEN [digits |-> f[x \div b].digits + 1, p |-> f[x \div b].p * b]
  ELSE [digits |-> 1, p |-> 1]

\* A function that counts so at every word exists: the quotients it is asked for are smaller.
LEMMA CountExists ==
  ASSUME NEW b \in Bases
  PROVE  \E f : f = [x \in 0 .. PtWord - 1 |-> CountStep(f, x, b)]
<1> DEFINE S == {n \in Nat : \E f : f = [x \in 0 .. n - 1 |-> CountStep(f, x, b)]}
<1>1. ASSUME NEW n \in 0 .. PtWord, \A m \in 0 .. n - 1 : m \in S
      PROVE  n \in S
  <2>1. CASE n = 0
    <3> DEFINE f == [x \in 0 .. -1 |-> 0]
    <3>1. f = [x \in 0 .. 0 - 1 |-> CountStep(f, x, b)]
      OBVIOUS
    <3> QED
      BY <3>1, <2>1
  <2>2. CASE n # 0
    <3>1. PICK f : f = [x \in 0 .. n - 1 - 1 |-> CountStep(f, x, b)]
      BY <1>1, <2>2
    <3> DEFINE g == [x \in 0 .. n - 1 |-> CountStep(f, x, b)]
    <3>2. ASSUME NEW x \in 0 .. n - 1
          PROVE  CountStep(f, x, b) = CountStep(g, x, b)
      <4>1. CASE x \div b > 0
        <5>1. x \div b \in 0 .. n - 1 - 1
          BY DivideByBase, <4>1
        <5>2. f[x \div b] = CountStep(f, x \div b, b)
          BY <5>1, <3>1
        <5>3. g[x \div b] = f[x \div b]
          BY <5>1, <5>2
        <5> QED
          BY <5>3 DEF CountStep
      <4>2. CASE ~(x \div b > 0)
        BY <4>2 DEF CountStep
      <4> QED
        BY <4>1, <4>2
    <3>3. g = [x \in 0 .. n - 1 |-> CountStep(g, x, b)]
      BY <3>2
    <3> HIDE DEF g
    <3> QED
      BY <3>3
  <2> QED
    BY <2>1, <2>2
<1>2. PtWord \in Nat
  BY PtAssumption
<1> HIDE DEF S
<1>3. PtWord \in S
  BY <1>1, <1>2, AllNumbers
<1> QED
  BY <1>3 DEF S

\* PtLargest counts so.
LEMMA CountIs ==
  ASSUME NEW b \in Bases, NEW v \in 0 .. PtWord - 1
  PROVE  PtLargest(v, b) = IF v \div b > 0
                           THEN [digits |-> PtLargest(v \div b, b).digits + 1,
                                 p |-> PtLargest(v \div b, b).p * b]
                           ELSE [digits |-> 1, p |-> 1]
<1> DEFINE Count[x \in 0 .. PtWord - 1] ==
        IF x \div b > 0
        THEN [digits |-> Count[x \div b].digits + 1, p |-> Count[x \div b].p * b]
        ELSE [digits |-> 1, p |-> 1]
<1>1. \A x : PtLargest(x, b) = Count[x]
  BY DEF PtLargest
<1>2. Count = [x \in 0 .. PtWord - 1 |-> CountStep(Count, x, b)]
  <2>1. \E f : f = [x \in 0 .. PtWord - 1 |-> CountStep(f, x, b)]
    BY CountExists
  <2> QED
    BY <2>1 DEF CountStep
<1> HIDE DEF Count
<1>3. Count[v] = CountStep(Count, v, b)
  BY <1>2
<1> QED
  BY <1>1, <1>3 DEF CountStep

\* The same of the digits.
DownStep(f, p, b) ==
  [x \in 0 .. PtWord - 1 |-> IF p = 0 THEN <<>> ELSE <<x \div p>> \o f[p \div b][x % p]]

DownBelow(f, n, b) ==
  /\ f = [p \in 0 .. n |-> f[p]]
  /\ \A p \in 0 .. n : f[p] = DownStep(f, p, b)

\* A function that takes the digits so at every place exists: the next place is smaller.
LEMMA DownExists ==
  ASSUME NEW b \in Bases
  PROVE  \E f : f = [p \in 0 .. PtWord |-> DownStep(f, p, b)]
<1> DEFINE S == {n \in Nat : \E f : DownBelow(f, n, b)}
<1>0. PtWord \in Nat
  BY PtAssumption
<1>1. ASSUME NEW n \in 0 .. PtWord, \A m \in 0 .. n - 1 : m \in S
      PROVE  n \in S
  <2>1. \E f : n > 0 => DownBelow(f, n - 1, b)
    BY <1>1
  <2>2. PICK f : n > 0 => DownBelow(f, n - 1, b)
    BY <2>1
  <2> DEFINE g == [p \in 0 .. n |-> DownStep(f, p, b)]
  <2>3. ASSUME NEW p \in 0 .. n
        PROVE  DownStep(f, p, b) = DownStep(g, p, b)
    <3>1. CASE p # 0
      <4>1. p \div b \in 0 .. n - 1 /\ p \div b \in 0 .. n /\ n > 0
        BY DivideByBase, <3>1
      <4>2. f[p \div b] = DownStep(f, p \div b, b)
        BY <2>2, <4>1 DEF DownBelow
      <4>3. g[p \div b] = f[p \div b]
        BY <4>1, <4>2
      <4> QED
        BY <4>3 DEF DownStep
    <3>2. CASE p = 0
      BY <3>2 DEF DownStep
    <3> QED
      BY <3>1, <3>2
  <2>4. DownBelow(g, n, b)
    BY <2>3 DEF DownBelow
  <2> HIDE DEF g
  <2> QED
    BY <2>4
<1> HIDE DEF S
<1>2. PtWord \in S
  BY <1>0, <1>1, AllNumbers
<1>3. PICK f : DownBelow(f, PtWord, b)
  BY <1>2 DEF S
<1>4. f = [p \in 0 .. PtWord |-> DownStep(f, p, b)]
  BY <1>3 DEF DownBelow
<1> QED
  BY <1>4, Zenon

\* The digits of x at the places from p down.
DownFrom(x, p, b) ==
  LET Down[q \in 0 .. PtWord] ==
        [y \in 0 .. PtWord - 1 |-> IF q = 0 THEN <<>>
                                   ELSE <<y \div q>> \o Down[q \div b][y % q]]
  IN  Down[p][x]

\* The digits from a place down are the digit there and those from the next.
LEMMA DownIs ==
  ASSUME NEW b \in Bases, NEW x \in 0 .. PtWord - 1, NEW p \in 0 .. PtWord
  PROVE  DownFrom(x, p, b) = IF p = 0 THEN <<>> ELSE <<x \div p>> \o DownFrom(x % p, p \div b, b)
<1> DEFINE Down[q \in 0 .. PtWord] ==
        [y \in 0 .. PtWord - 1 |-> IF q = 0 THEN <<>>
                                   ELSE <<y \div q>> \o Down[q \div b][y % q]]
<1>1. \A y, q : DownFrom(y, q, b) = Down[q][y]
  BY DEF DownFrom
<1>2. Down = [q \in 0 .. PtWord |-> DownStep(Down, q, b)]
  <2>1. \E f : f = [q \in 0 .. PtWord |-> DownStep(f, q, b)]
    BY DownExists
  <2> QED
    BY <2>1 DEF DownStep
<1> HIDE DEF Down
<1>3. Down[p] = DownStep(Down, p, b)
  BY <1>2
<1>4. PtWord \in Nat
  BY PtAssumption
<1>5. p # 0 => x % p \in 0 .. PtWord - 1 /\ p \div b \in 0 .. PtWord
  BY <1>4, DivideByBase, Division
<1>6. Down[p][x] = IF p = 0 THEN <<>> ELSE <<x \div p>> \o Down[p \div b][x % p]
  BY <1>3 DEF DownStep
<1> QED
  BY <1>1, <1>6

\* PtDigits takes the digits from the greatest place down.
LEMMA DigitsDown ==
  \A v, b : PtDigits(v, b) = DownFrom(v, PtLargest(v, b).p, b)
BY DEF PtDigits, DownFrom

-----------------------------------------------------------------------------
(* The digits of a number.                                                 *)

\* A factor keeps an order.
LEMMA Monotone ==
  ASSUME NEW a \in Nat, NEW d \in Nat, NEW c \in Nat, a <= d
  PROVE  a * c <= d * c
OBVIOUS

\* A place value divides the greater ones: the rest of a number by one of them has its
\* digit at the smaller.
LEMMA RestKeepsDigit ==
  ASSUME NEW b \in Bases, NEW x \in Nat, NEW m \in Nat, NEW Q \in Nat \ {0}, NEW P \in Nat \ {0},
         P = Q * (b * m)
  PROVE  ((x % P) \div Q) % b = (x \div Q) % b
<1>1. PICK t \in Nat, r \in 0 .. P - 1 : x \div P = t /\ x % P = r /\ x = P * t + r
  BY Division, Zenon
<1>2. PICK q \in Nat, s \in 0 .. Q - 1 : r \div Q = q /\ r = Q * q + s
  <2>1. r \in Nat
    BY <1>1
  <2> QED
    BY <2>1, Division
<1>3. x = Q * ((b * m) * t + q) + s
  <2>1. Q * ((b * m) * t + q) = Q * ((b * m) * t) + Q * q
    BY (b * m) * t \in Nat DEF Bases
  <2>2. P * t = Q * ((b * m) * t)
    BY b * m \in Nat DEF Bases
  <2> DEFINE A == Q * ((b * m) * t)
  <2> DEFINE B == Q * q
  <2>3. x = A + (B + s) /\ Q * ((b * m) * t + q) = A + B
    BY <1>1, <1>2, <2>1, <2>2, Zenon
  <2>4. A \in Nat /\ B \in Nat
    BY DEF Bases
  <2> HIDE DEF A, B
  <2>5. A + (B + s) = (A + B) + s
    BY <2>4
  <2> QED
    BY <2>3, <2>5, Zenon
<1>4. (b * m) * t + q \in Nat /\ (b * m) * t = b * (m * t) /\ m * t \in Nat
  BY DEF Bases
<1>5. x \div Q = (b * m) * t + q
  BY <1>3, <1>4, OnlyQuotient
<1>6. PICK k \in Nat, d \in 0 .. b - 1 : q % b = d /\ q = b * k + d
  BY Division DEF Bases
<1>7. (b * m) * t + q = b * (m * t + k) + d
  BY <1>4, <1>6 DEF Bases
<1>8. ((b * m) * t + q) % b = d
  <2>1. m * t + k \in Int /\ b \in Nat \ {0} /\ (b * m) * t + q \in Int
    BY <1>4 DEF Bases
  <2> QED
    BY <1>7, <2>1, OnlyQuotient, Zenon
<1> QED
  BY <1>1, <1>2, <1>5, <1>6, <1>8

\* Dividing by a place and then by the base is dividing by the next place.
LEMMA DividedTwice ==
  ASSUME NEW b \in Bases, NEW x \in Nat, NEW Q \in Nat \ {0}
  PROVE  (x \div Q) \div b = x \div (b * Q)
<1>1. PICK y \in Nat, r \in 0 .. Q - 1 : x \div Q = y /\ x = Q * y + r
  BY Division
<1>2. PICK z \in Nat, d \in 0 .. b - 1 : y \div b = z /\ y = b * z + d
  BY Division DEF Bases
<1>3. Q * d \in Nat /\ Q * d <= Q * (b - 1)
  <2>1. d \in Nat /\ b - 1 \in Nat /\ d <= b - 1
    BY DEF Bases
  <2>2. d * Q <= (b - 1) * Q
    BY <2>1, Monotone
  <2> QED
    BY <2>1, <2>2
<1>4. Q * d + r \in 0 .. b * Q - 1
  BY <1>3 DEF Bases
<1>5. x = (b * Q) * z + (Q * d + r)
  <2>1. Q * y = (b * Q) * z + Q * d
    BY <1>2 DEF Bases
  <2> QED
    BY <1>1, <1>3, <2>1, (b * Q) * z \in Nat DEF Bases
<1>6. b * Q \in Nat \ {0}
  BY DEF Bases
<1>7. x \div (b * Q) = z
  <2> DEFINE R == Q * d + r
  <2> DEFINE D == b * Q
  <2>1. z \in Int /\ x \in Int /\ D \in Nat \ {0} /\ R \in 0 .. D - 1 /\ x = D * z + R
    BY <1>4, <1>5, <1>6
  <2> HIDE DEF R, D
  <2>2. x \div D = z
    BY <2>1, OnlyQuotient, Zenon
  <2> QED
    BY <2>2 DEF D
<1> QED
  BY <1>1, <1>2, <1>7

\* The place values of a number of n digits, from the greatest down.
PlaceRow(pl, n, b) ==
  /\ n \in Nat \ {0} /\ pl \in [1 .. n -> Nat \ {0}] /\ pl[n] = 1
  /\ \A i \in 1 .. n - 1 : pl[i] = b * pl[i + 1]

\* PtLargest finds the number of digits and the greatest place.
LEMMA LargestPlace ==
  ASSUME NEW b \in Bases, NEW v \in 0 .. PtWord - 1
  PROVE  /\ \E pl : PlaceRow(pl, PtLargest(v, b).digits, b) /\ pl[1] = PtLargest(v, b).p
         /\ v < b * PtLargest(v, b).p /\ (v > 0 => PtLargest(v, b).p <= v)
         /\ (v = 0 => PtLargest(v, b).digits = 1 /\ PtLargest(v, b).p = 1)
<1> DEFINE Good(x) ==
      /\ \E pl : PlaceRow(pl, PtLargest(x, b).digits, b) /\ pl[1] = PtLargest(x, b).p
      /\ x < b * PtLargest(x, b).p /\ (x > 0 => PtLargest(x, b).p <= x)
      /\ (x = 0 => PtLargest(x, b).digits = 1 /\ PtLargest(x, b).p = 1)
<1> DEFINE S == {x \in 0 .. PtWord - 1 : Good(x)}
<1>1. ASSUME NEW x \in 0 .. PtWord - 1, \A u \in 0 .. x - 1 : u \in S
      PROVE  x \in S
  <2>1. PICK u \in Nat, r \in 0 .. b - 1 : x \div b = u /\ x = b * u + r
    BY Division DEF Bases
  <2>2. CASE u = 0
    <3>1. PtLargest(x, b) = [digits |-> 1, p |-> 1]
      BY <2>1, <2>2, CountIs
    <3> DEFINE pl == [i \in 1 .. 1 |-> 1]
    <3>2. PlaceRow(pl, 1, b) /\ pl[1] = 1
      BY DEF PlaceRow
    <3>3. x < b
      BY <2>1, <2>2 DEF Bases
    <3> HIDE DEF pl
    <3>4. x < b * 1 /\ (x > 0 => 1 <= x)
      BY <3>3 DEF Bases
    <3> QED
      BY <3>1, <3>2, <3>4
  <2>3. CASE u # 0
    <3>1. u \in 0 .. x - 1 /\ u \in 0 .. PtWord - 1
      <4>1. x \in Nat /\ PtWord \in Nat /\ (x = 0 => u = 0)
        BY <2>1, PtAssumption DEF Bases
      <4>2. u < x
        BY <2>1, <2>3, <4>1, DivideByBase
      <4> QED
        BY <4>1, <4>2
    <3>2. Good(u)
      BY <3>1, <1>1
    <3> DEFINE n == PtLargest(u, b).digits
    <3> DEFINE p == PtLargest(u, b).p
    <3>3. PtLargest(x, b) = [digits |-> n + 1, p |-> p * b]
      BY <2>1, <2>3, CountIs
    <3>4. PICK pl : PlaceRow(pl, n, b) /\ pl[1] = p
      BY <3>2
    <3>5. u < b * p /\ p <= u
      BY <2>3, <3>2
    <3> HIDE DEF n, p
    <3>6. n \in Nat \ {0} /\ p \in Nat \ {0}
      BY <3>4 DEF PlaceRow
    <3> DEFINE row == [i \in 1 .. n + 1 |-> IF i = 1 THEN p * b ELSE pl[i - 1]]
    <3>7. PlaceRow(row, n + 1, b) /\ row[1] = p * b
      <4>1. row \in [1 .. n + 1 -> Nat \ {0}] /\ row[n + 1] = 1
        BY <3>4, <3>6 DEF PlaceRow, Bases
      <4>2. ASSUME NEW i \in 1 .. n + 1 - 1
            PROVE  row[i] = b * row[i + 1]
        <5>1. CASE i = 1
          <6>1. row[1] = p * b /\ row[2] = pl[1]
            BY <3>6
          <6> QED
            BY <5>1, <6>1, <3>4, <3>6 DEF Bases
        <5>2. CASE i # 1
          <6>1. row[i] = pl[i - 1] /\ row[i + 1] = pl[i]
            BY <5>2, <3>6
          <6>2. pl[i - 1] = b * pl[i - 1 + 1] /\ i - 1 + 1 = i
            BY <5>2, <3>4, <3>6 DEF PlaceRow
          <6> QED
            BY <6>1, <6>2
        <5> QED
          BY <5>1, <5>2
      <4> QED
        BY <3>6, <4>1, <4>2 DEF PlaceRow
    <3>8. x < b * (p * b) /\ p * b <= x /\ x # 0
      BY <2>1, <3>5, <3>6 DEF Bases
    <3> HIDE DEF row
    <3>9. PtLargest(x, b).digits = n + 1 /\ PtLargest(x, b).p = p * b
      BY <3>3
    <3>10. \E l : PlaceRow(l, n + 1, b) /\ l[1] = p * b
      BY <3>7
    <3> QED
      BY <3>8, <3>9, <3>10
  <2> QED
    BY <2>2, <2>3
<1> HIDE DEF S
<1>2. PtWord - 1 \in Nat
  BY PtAssumption
<1>3. v \in S
  BY <1>1, <1>2, AllNumbers
<1> QED
  BY <1>3 DEF S

\* The smaller places of a row divide the greater ones.
LEMMA RowDivides ==
  ASSUME NEW b \in Bases, NEW n, NEW pl, PlaceRow(pl, n, b), NEW i \in 1 .. n, NEW j \in i + 1 .. n
  PROVE  \E m \in Nat : pl[i] = pl[j] * (b * m)
<1> DEFINE S == {k \in 0 .. n - i : k > 0 => \E m \in Nat : pl[i] = pl[i + k] * (b * m)}
<1>0. n \in Nat /\ i \in Nat /\ n - i \in Nat
  BY DEF PlaceRow
<1>1. ASSUME NEW k \in 0 .. n - i, \A h \in 0 .. k - 1 : h \in S
      PROVE  k \in S
  <2>1. CASE k = 0
    BY <2>1
  <2>2. CASE k = 1
    <3>1. pl[i] = b * pl[i + 1] /\ pl[i + 1] \in Nat
      BY <1>0, <2>2 DEF PlaceRow
    <3>2. pl[i] = pl[i + 1] * (b * 1)
      BY <3>1 DEF Bases
    <3> QED
      BY <2>2, <3>2
  <2>3. CASE k > 1
    <3>1. k - 1 \in 0 .. k - 1 /\ k - 1 > 0
      BY <2>3
    <3>2. PICK m \in Nat : pl[i] = pl[i + (k - 1)] * (b * m)
      BY <3>1, <1>1
    <3>3. i + (k - 1) \in 1 .. n - 1 /\ i + (k - 1) + 1 = i + k /\ i + k \in 1 .. n
      BY <1>0, <2>3
    <3>4. pl[i + (k - 1)] = b * pl[i + k] /\ pl[i + k] \in Nat
      BY <3>3 DEF PlaceRow
    <3>5. \A w \in Nat : (b * w) * (b * m) = w * (b * (b * m))
      BY DEF Bases
    <3>6. pl[i] = pl[i + k] * (b * (b * m)) /\ b * m \in Nat
      BY <3>2, <3>4, <3>5 DEF Bases
    <3> QED
      BY <3>6
  <2> QED
    BY <2>1, <2>2, <2>3
<1> HIDE DEF S
<1>2. \A k \in 0 .. n - i : k \in S
  BY <1>0, <1>1, AllNumbers
<1>3. j - i \in 0 .. n - i /\ j - i > 0 /\ i + (j - i) = j
  BY <1>0
<1> QED
  BY <1>2, <1>3 DEF S

\* A text with a character before it.
LEMMA Prepended ==
  ASSUME NEW T, NEW d \in T, NEW s \in Seq(T)
  PROVE  <<d>> \o s = [i \in 1 .. Len(s) + 1 |-> IF i = 1 THEN d ELSE s[i - 1]]
<1> DEFINE r == [i \in 1 .. Len(s) + 1 |-> IF i = 1 THEN d ELSE s[i - 1]]
<1>1. <<d>> \in Seq(T) /\ Len(<<d>>) = 1 /\ <<d>>[1] = d
  OBVIOUS
<1>2. <<d>> \o s \in Seq(T) /\ Len(<<d>> \o s) = 1 + Len(s)
      /\ \A i \in 1 .. 1 + Len(s) : (<<d>> \o s)[i] = IF i <= 1 THEN <<d>>[i] ELSE s[i - 1]
  BY <1>1, ConcatProperties
<1>3. r \in Seq(T) /\ Len(r) = Len(s) + 1
  OBVIOUS
<1>4. \A i \in 1 .. Len(s) + 1 : (<<d>> \o s)[i] = r[i]
  BY <1>1, <1>2
<1> HIDE DEF r
<1>5. <<d>> \o s = r
  BY <1>2, <1>3, <1>4, SeqEqual
<1> QED
  BY <1>5 DEF r

\* Places fall from the first.
LEMMA RowFalls ==
  ASSUME NEW b \in Bases, NEW n, NEW pl, PlaceRow(pl, n, b), NEW j \in 1 .. n
  PROVE  pl[j] \in Nat \ {0} /\ pl[j] <= pl[1]
<1>1. n \in Nat \ {0} /\ pl[1] \in Nat \ {0} /\ pl[j] \in Nat \ {0}
  BY DEF PlaceRow
<1>2. CASE j = 1
  BY <1>1, <1>2
<1>3. CASE j # 1
  <2>1. 1 \in 1 .. n /\ j \in 1 + 1 .. n
    BY <1>1, <1>3
  <2>2. PICK m \in Nat : pl[1] = pl[j] * (b * m)
    BY <2>1, RowDivides
  <2>3. b * m \in Nat
    BY DEF Bases
  <2>4. b * m # 0
    BY <1>1, <2>2
  <2>5. 1 * pl[j] <= (b * m) * pl[j]
    BY <1>1, <2>3, <2>4, Monotone
  <2> QED
    BY <1>1, <2>2, <2>3, <2>5
<1> QED
  BY <1>2, <1>3

\* The digits of a number, at each place of a row.
LEMMA DigitsAtPlaces ==
  ASSUME NEW b \in Bases, NEW n, NEW pl, PlaceRow(pl, n, b), pl[1] <= PtWord,
         NEW x \in 0 .. PtWord - 1, x < b * pl[1]
  PROVE  DownFrom(x, pl[1], b) = [i \in 1 .. n |-> (x \div pl[i]) % b]
<1> DEFINE Right(y, k) == DownFrom(y, pl[n - k], b) = [i \in 1 .. k + 1 |-> (y \div pl[n - k + i - 1]) % b]
<1> DEFINE S == {k \in 0 .. n - 1 : \A y \in 0 .. PtWord - 1 : y < b * pl[n - k] => Right(y, k)}
<1>0. n \in Nat \ {0} /\ PtWord \in Nat /\ b \in Nat \ {0, 1}
  BY PtAssumption DEF PlaceRow, Bases
<1>1. \A j \in 1 .. n : pl[j] \in Nat \ {0} /\ pl[j] \in 0 .. PtWord
  BY <1>0, RowFalls
<1>2. ASSUME NEW k \in 0 .. n - 1, \A h \in 0 .. k - 1 : h \in S
      PROVE  k \in S
  <2> SUFFICES ASSUME NEW y \in 0 .. PtWord - 1, y < b * pl[n - k]
               PROVE  Right(y, k)
    OBVIOUS
  <2>1. CASE k = 0
    <3>1. pl[n - k] = 1 /\ y \div 1 = y /\ y % 1 = 0 /\ 1 \div b = 0 /\ y % b = y /\ 1 \in 0 .. PtWord
      <4>1. pl[n - k] = 1 /\ 1 \in 0 .. PtWord
        BY <1>0, <1>1, <2>1 DEF PlaceRow
      <4>2. y \div 1 = y /\ y % 1 = 0
        BY OnlyQuotient, y = 1 * y + 0, 0 \in 0 .. 1 - 1
      <4>3. 1 \div b = 0
        BY Small, <1>0
      <4>4. y % b = y
        <5>1. y < b
          BY <4>1, <1>0
        <5> QED
          BY <5>1, Small, <1>0
      <4> QED
        BY <4>1, <4>2, <4>3, <4>4
    <3>2. DownFrom(0, 0, b) = <<>>
      BY DownIs, <1>0, 0 \in 0 .. PtWord - 1, 0 \in 0 .. PtWord
    <3>3. DownFrom(y, 1, b) = <<y>> \o <<>>
      <4>1. DownFrom(y, 1, b) = <<y \div 1>> \o DownFrom(y % 1, 1 \div b, b)
        BY <3>1, DownIs
      <4> QED
        BY <3>1, <3>2, <4>1, Zenon
    <3>4. DownFrom(y, 1, b) = <<y>>
      BY <3>3
    <3>5. [i \in 1 .. k + 1 |-> (y \div pl[n - k + i - 1]) % b] = [i \in 1 .. 1 |-> y]
      <4>1. \A i \in 1 .. 1 : n - k + i - 1 = n - k
        BY <1>0, <2>1
      <4> QED
        BY <2>1, <3>1, <4>1
    <3>6. <<y>> = [i \in 1 .. 1 |-> y]
      OBVIOUS
    <3> QED
      BY <3>1, <3>4, <3>5, <3>6
  <2>2. CASE k # 0
    <3> DEFINE P == pl[n - k]
    <3> DEFINE Q == pl[n - k + 1]
    <3>1. n - k \in 1 .. n - 1 /\ n - k + 1 \in 1 .. n /\ n - (k - 1) = n - k + 1 /\ k - 1 \in 0 .. k - 1
      BY <1>0, <2>2
    <3>2. P = b * Q /\ P \in Nat \ {0} /\ Q \in Nat \ {0} /\ P \in 0 .. PtWord /\ Q \in 0 .. PtWord
      BY <1>1, <3>1 DEF PlaceRow
    <3> HIDE DEF P, Q
    <3>3. P \div b = Q
      <4>1. P \in Int /\ Q \in Int /\ b \in Nat \ {0} /\ 0 \in 0 .. b - 1 /\ P = b * Q + 0
        BY <1>0, <3>2
      <4> QED
        BY <4>1, OnlyQuotient
    <3>4. y % P \in 0 .. P - 1
      BY <3>2, Division
    <3>5. y % P \in 0 .. PtWord - 1 /\ y % P < b * Q
      <4>1. y % P < P /\ y % P \in 0 .. PtWord - 1
        BY <1>0, <3>2, <3>4
      <4> QED
        BY <3>2, <4>1, Zenon
    <3> DEFINE e == [i \in 1 .. k |-> ((y % P) \div pl[n - k + i]) % b]
    <3>6. DownFrom(y % P, Q, b) = e
      <4>1. Right(y % P, k - 1)
        BY <1>2, <3>1, <3>5 DEF Q
      <4>2. \A i \in 1 .. k : n - (k - 1) + i - 1 = n - k + i
        BY <1>0
      <4>3. pl[n - (k - 1)] = Q
        BY <3>1 DEF Q
      <4>4. DownFrom(y % P, Q, b) = [i \in 1 .. k - 1 + 1 |-> ((y % P) \div pl[n - (k - 1) + i - 1]) % b]
        BY <4>1, <4>3, Zenon
      <4>5. k - 1 + 1 = k
        OBVIOUS
      <4> QED
        BY <4>2, <4>4, <4>5
    <3>7. DownFrom(y, P, b) = <<y \div P>> \o e
      <4>1. P # 0
        BY <3>2
      <4>2. DownFrom(y, P, b) = <<y \div P>> \o DownFrom(y % P, P \div b, b)
        BY <3>2, <4>1, DownIs, Zenon
      <4> QED
        BY <3>3, <3>6, <4>2, Zenon
    <3> DEFINE d == [i \in 1 .. k |-> (y \div pl[n - k + i]) % b]
    <3>8. e = d
      <4>1. ASSUME NEW i \in 1 .. k
            PROVE  ((y % P) \div pl[n - k + i]) % b = (y \div pl[n - k + i]) % b
        <5>1. n - k + i \in n - k + 1 .. n /\ n - k + i \in 1 .. n /\ n - k \in 1 .. n
          BY <1>0, <3>1
        <5>2. PICK m \in Nat : pl[n - k] = pl[n - k + i] * (b * m)
          BY <5>1, RowDivides
        <5>3. pl[n - k + i] \in Nat \ {0}
          BY <1>1, <5>1
        <5> QED
          BY <3>2, <5>2, <5>3, RestKeepsDigit DEF P
      <4> QED
        BY <4>1
    <3>9. d \in Seq(Int) /\ Len(d) = k /\ \A i \in 1 .. k : d[i] = (y \div pl[n - k + i]) % b
      <4>1. \A i \in 1 .. k : (y \div pl[n - k + i]) % b \in Int
        <5>1. ASSUME NEW i \in 1 .. k PROVE (y \div pl[n - k + i]) % b \in Int
          <6>1. pl[n - k + i] \in Nat \ {0}
            BY <1>0, <1>1, <3>1
          <6>2. y \div pl[n - k + i] \in Nat
            BY <6>1, Division
          <6> QED
            BY <6>2, <1>0
        <5> QED
          BY <5>1
      <4> QED
        BY <4>1
    <3>10. y \div P = (y \div P) % b /\ y \div P \in Int
      <4>1. PICK q \in Nat, r \in 0 .. P - 1 : y \div P = q /\ y % P = r /\ y = P * q + r
        <5>1. y \in Nat
          OBVIOUS
        <5> QED
          BY <3>2, <5>1, Division, Zenon
      <4>2. q < b
        <5>1. SUFFICES ASSUME b <= q PROVE FALSE
          BY <1>0
        <5>2. b * P <= q * P
          BY <1>0, <3>2, <5>1, Monotone
        <5>3. y < b * P
          BY DEF P
        <5>4. q * P = P * q /\ q * P \in Nat /\ b * P \in Nat
          BY <3>2, <1>0
        <5> QED
          BY <4>1, <5>2, <5>3, <5>4
      <4>3. q % b = q
        BY <4>2, <1>0, Small
      <4> QED
        BY <4>1, <4>3
    <3> HIDE DEF d, e
    <3>11. <<y \div P>> \o d = [i \in 1 .. k + 1 |-> IF i = 1 THEN y \div P ELSE d[i - 1]]
      BY <3>9, <3>10, Prepended
    <3>12. ASSUME NEW i \in 1 .. k + 1
           PROVE  (IF i = 1 THEN y \div P ELSE d[i - 1]) = (y \div pl[n - k + i - 1]) % b
      <4>1. CASE i = 1
        <5>1. n - k + i - 1 = n - k
          BY <1>0, <4>1
        <5> QED
          BY <4>1, <5>1, <3>10 DEF P
      <4>2. CASE i # 1
        <5>1. i - 1 \in 1 .. k /\ n - k + (i - 1) = n - k + i - 1
          BY <1>0, <4>2
        <5>2. d[i - 1] = (y \div pl[n - k + (i - 1)]) % b
          BY <3>9, <5>1
        <5> QED
          BY <4>2, <5>1, <5>2
      <4> QED
        BY <4>1, <4>2
    <3>13. DownFrom(y, P, b) = [i \in 1 .. k + 1 |-> (y \div pl[n - k + i - 1]) % b]
      BY <3>7, <3>8, <3>11, <3>12
    <3> QED
      BY <3>13 DEF P
  <2> QED
    BY <2>1, <2>2
<1>3. n - 1 \in S
  <2> HIDE DEF S
  <2> QED
    BY <1>0, <1>2, AllNumbers, n - 1 \in Nat
<1>4. n - (n - 1) = 1 /\ n - 1 + 1 = n /\ \A i \in 1 .. n : n - (n - 1) + i - 1 = i
  BY <1>0
<1>5. Right(x, n - 1)
  BY <1>3, <1>4
<1> QED
  BY <1>4, <1>5

\* What a text is read as, given the values r of its beginnings.
Readings(r, s, b) ==
  /\ Len(s) \in Nat /\ r \in [0 .. Len(s) -> Int] /\ r[0] = 0
  /\ \A i \in 1 .. Len(s) : r[i] = r[i - 1] * b + s[i]

\* It is the value of the whole.
LEMMA ReadsAs ==
  ASSUME NEW b, NEW s, NEW r, Readings(r, s, b)
  PROVE  PtRead(s, b) = r[Len(s)]
<1> DEFINE n == Len(s)
<1>0. /\ n \in Nat /\ r \in [0 .. n -> Int] /\ r[0] = 0
      /\ \A i \in 1 .. n : r[i] = r[i - 1] * b + s[i]
  BY DEF Readings
<1> DEFINE Read[i \in 0 .. Len(s)] == IF i = 0 THEN 0 ELSE Read[i - 1] * b + s[i]
<1>1. PtRead(s, b) = Read[n]
  BY DEF PtRead
<1>2. r = [i \in 0 .. Len(s) |-> IF i = 0 THEN 0 ELSE r[i - 1] * b + s[i]]
  <2>1. \A i \in 0 .. n : r[i] = IF i = 0 THEN 0 ELSE r[i - 1] * b + s[i]
    BY <1>0
  <2> QED
    BY <1>0, <2>1
<1>3. Read = [i \in 0 .. Len(s) |-> IF i = 0 THEN 0 ELSE Read[i - 1] * b + s[i]]
  BY <1>2, Zenon
<1> HIDE DEF Read, n
<1> DEFINE S == {i \in 0 .. n : Read[i] = r[i]}
<1>4. ASSUME NEW i \in 0 .. n, \A j \in 0 .. i - 1 : j \in S
      PROVE  i \in S
  <2>1. Read[i] = IF i = 0 THEN 0 ELSE Read[i - 1] * b + s[i]
    BY <1>3 DEF n
  <2>2. CASE i = 0
    BY <1>0, <2>1, <2>2
  <2>3. CASE i # 0
    <3>1. i - 1 \in S /\ i \in 1 .. n
      BY <1>4, <2>3
    <3> QED
      BY <1>0, <2>1, <2>3, <3>1
  <2> QED
    BY <2>2, <2>3
<1> HIDE DEF S
<1>5. n \in S
  <2>1. n \in 0 .. n
    BY <1>0
  <2> QED
    BY <1>0, <1>4, <2>1, AllNumbers
<1> QED
  BY <1>1, <1>5 DEF S, n

\* The digits of a number in a base: one at each place from the greatest down, the first
\* not 0 unless it is alone, and read back they give the number.
LEMMA Numeral ==
  ASSUME NEW b \in Bases, NEW v \in 0 .. PtWord - 1
  PROVE  /\ \E pl : /\ PlaceRow(pl, PtLargest(v, b).digits, b)
                    /\ pl[1] = PtLargest(v, b).p
                    /\ PtDigits(v, b) = [i \in 1 .. PtLargest(v, b).digits |-> (v \div pl[i]) % b]
         /\ PtLargest(v, b).digits \in Nat \ {0}
         /\ PtDigits(v, b) \in [1 .. PtLargest(v, b).digits -> 0 .. b - 1]
         /\ PtDigits(v, b)[1] = 0 => PtLargest(v, b).digits = 1
         /\ PtRead(PtDigits(v, b), b) = v
<1> DEFINE n == PtLargest(v, b).digits
<1> DEFINE p == PtLargest(v, b).p
<1>1. PICK pl : PlaceRow(pl, n, b) /\ pl[1] = p
  BY LargestPlace
<1>2. v < b * p /\ (v > 0 => p <= v) /\ (v = 0 => n = 1 /\ p = 1)
  BY LargestPlace
<1>3. PtDigits(v, b) = DownFrom(v, p, b)
  BY DigitsDown
<1> HIDE DEF n, p
<1>4. /\ n \in Nat \ {0} /\ pl[n] = 1 /\ \A i \in 1 .. n : pl[i] \in Nat \ {0}
      /\ \A i \in 1 .. n - 1 : pl[i] = b * pl[i + 1]
  BY <1>1 DEF PlaceRow
<1>5. PtWord \in Nat /\ p <= PtWord /\ v \in Nat /\ p \in Nat \ {0} /\ b \in Nat \ {0}
  <2>1. PtWord \in Nat /\ PtWord > 1 /\ p \in Nat \ {0}
    BY <1>1, <1>4, PtAssumption
  <2> QED
    BY <1>2, <2>1 DEF Bases
<1>6. PtDigits(v, b) = [i \in 1 .. n |-> (v \div pl[i]) % b]
  <2>1. pl[1] <= PtWord /\ v < b * pl[1]
    BY <1>1, <1>2, <1>5
  <2>2. PlaceRow(pl, n, b)
    BY <1>1
  <2>3. DownFrom(v, pl[1], b) = [i \in 1 .. n |-> (v \div pl[i]) % b]
    BY <2>1, <2>2, DigitsAtPlaces
  <2> QED
    BY <1>1, <1>3, <2>3
<1>7. \A i \in 1 .. n : v \div pl[i] \in Nat /\ (v \div pl[i]) % b \in 0 .. b - 1
  <2> SUFFICES ASSUME NEW i \in 1 .. n
               PROVE  v \div pl[i] \in Nat /\ (v \div pl[i]) % b \in 0 .. b - 1
    OBVIOUS
  <2>1. pl[i] \in Nat \ {0}
    BY <1>4
  <2>2. v \div pl[i] \in Nat
    BY <1>5, <2>1, Division
  <2> QED
    BY <2>2, DivideByBase
<1>8. PtDigits(v, b) \in [1 .. n -> 0 .. b - 1]
  BY <1>6, <1>7
<1>9. (v \div p) % b = v \div p
  <2>1. PICK q \in Nat, r \in 0 .. p - 1 : v \div p = q /\ v % p = r /\ v = p * q + r
    BY <1>5, Division, Zenon
  <2>2. q < b
    <3>1. SUFFICES ASSUME b <= q PROVE FALSE
      BY <1>5
    <3>2. b * p <= q * p
      BY <1>5, <3>1, Monotone
    <3>3. q * p = p * q /\ q * p \in Nat /\ b * p \in Nat
      BY <1>5
    <3> QED
      BY <1>2, <2>1, <3>2, <3>3
  <2> QED
    BY <1>5, <2>1, <2>2, Small
<1>10. PtDigits(v, b)[1] = 0 => n = 1
  <2> SUFFICES ASSUME PtDigits(v, b)[1] = 0, n # 1 PROVE FALSE
    OBVIOUS
  <2>1. v > 0 /\ p <= v
    BY <1>2, <1>5
  <2>2. v \div p = 0
    <3>1. 1 \in 1 .. n
      BY <1>4
    <3>2. PtDigits(v, b)[1] = (v \div pl[1]) % b
      BY <1>6, <3>1
    <3> QED
      BY <1>1, <1>9, <3>2
  <2>3. PICK q \in Nat, r \in 0 .. p - 1 : v \div p = q /\ v % p = r /\ v = p * q + r
    BY <1>5, Division, Zenon
  <2>4. q = 0
    BY <2>2, <2>3
  <2>5. v = r
    BY <1>5, <2>3, <2>4
  <2> QED
    BY <1>5, <2>1, <2>5
<1>11. PtRead(PtDigits(v, b), b) = v
  <2> DEFINE r == [i \in 0 .. n |-> IF i = 0 THEN 0 ELSE v \div pl[i]]
  <2>1. r \in [0 .. n -> Int] /\ r[0] = 0 /\ r[n] = v
    <3>1. v \div 1 = v
      BY <1>5, OnlyQuotient, v = 1 * v + 0, 0 \in 0 .. 1 - 1
    <3>2. r[n] = v \div pl[n] /\ r[0] = 0
      BY <1>4
    <3> QED
      BY <1>4, <1>7, <3>1, <3>2
  <2>2. ASSUME NEW i \in 1 .. n
        PROVE  r[i] = r[i - 1] * b + PtDigits(v, b)[i]
    <3>1. r[i] = v \div pl[i] /\ PtDigits(v, b)[i] = (v \div pl[i]) % b
      BY <1>4, <1>6
    <3>2. CASE i = 1
      <4>1. i - 1 = 0
        BY <3>2
      <4>2. r[i - 1] * b = 0
        BY <2>1, <4>1, <1>5
      <4>3. r[i] = PtDigits(v, b)[i] /\ r[i] \in Int
        BY <1>1, <1>7, <1>9, <3>1, <3>2
      <4> QED
        BY <4>2, <4>3
    <3>3. CASE i # 1
      <4>1. i - 1 \in 1 .. n - 1 /\ i - 1 + 1 = i /\ i - 1 \in 0 .. n
        BY <1>4, <3>3
      <4>2. r[i - 1] = v \div pl[i - 1] /\ pl[i - 1] = b * pl[i]
        BY <1>4, <4>1
      <4>3. (v \div pl[i]) \div b = v \div (b * pl[i])
        BY <1>4, <1>5, DividedTwice
      <4>4. PICK q \in Nat, s \in 0 .. b - 1 :
              (v \div pl[i]) \div b = q /\ (v \div pl[i]) % b = s /\ v \div pl[i] = b * q + s
        BY <1>5, <1>7, Division, Zenon
      <4>5. b * q = q * b
        BY <1>5
      <4> QED
        BY <3>1, <4>2, <4>3, <4>4, <4>5, Zenon
    <3> QED
      BY <3>2, <3>3
  <2>3. Len(PtDigits(v, b)) = n
    BY <1>4, <1>8
  <2> HIDE DEF r
  <2>4. Readings(r, PtDigits(v, b), b)
    BY <1>4, <2>1, <2>2, <2>3 DEF Readings
  <2> QED
    BY <2>1, <2>3, <2>4, ReadsAs
<1>12. \E l : /\ PlaceRow(l, n, b) /\ l[1] = p
              /\ PtDigits(v, b) = [i \in 1 .. n |-> (v \div l[i]) % b]
  BY <1>1, <1>6
<1> QED
  BY <1>4, <1>8, <1>10, <1>11, <1>12 DEF n, p

\* The places of alt_printf's %x are the powers of 16 from 1 to 16^7.
LEMMA HexPlaces ==
  /\ PtPlace[1] = 1 /\ \A i \in 1 .. 7 : PtPlace[i + 1] = 16 * PtPlace[i]
  /\ \A i \in 1 .. 8 : PtPlace[i] \in Nat \ {0}
  /\ \A i \in 1 .. 7, m \in 1 .. 8 : i < m => 16 * PtPlace[i] <= PtPlace[m]
<1>1. \E f : f = [n \in 1 .. 8 |-> IF n = 1 THEN 1 ELSE 16 * f[n - 1]]
  <2> DEFINE f(i) == IF i = 1 THEN 1 ELSE IF i = 2 THEN 16 ELSE IF i = 3 THEN 16 * 16
                     ELSE IF i = 4 THEN 16 * (16 * 16) ELSE IF i = 5 THEN 16 * (16 * (16 * 16))
                     ELSE IF i = 6 THEN 16 * (16 * (16 * (16 * 16)))
                     ELSE IF i = 7 THEN 16 * (16 * (16 * (16 * (16 * 16))))
                     ELSE 16 * (16 * (16 * (16 * (16 * (16 * 16)))))
  <2> DEFINE g == [n \in 1 .. 8 |-> f(n)]
  <2>1. \A n \in 1 .. 8 : g[n] = IF n = 1 THEN 1 ELSE 16 * g[n - 1]
    OBVIOUS
  <2> HIDE DEF f
  <2>2. g = [n \in 1 .. 8 |-> IF n = 1 THEN 1 ELSE 16 * g[n - 1]]
    BY <2>1
  <2> HIDE DEF g
  <2> QED
    BY <2>2
<1>2. PtPlace = [n \in 1 .. 8 |-> IF n = 1 THEN 1 ELSE 16 * PtPlace[n - 1]]
  BY <1>1, Zenon DEF PtPlace
<1>3. \A i \in 1 .. 8 : PtPlace[i] = IF i = 1 THEN 1 ELSE 16 * PtPlace[i - 1]
  BY <1>2
<1>4. PtPlace[1] = 1 /\ \A i \in 1 .. 7 : PtPlace[i + 1] = 16 * PtPlace[i]
  BY <1>3
<1>5. /\ PtPlace[2] = 16 * PtPlace[1] /\ PtPlace[3] = 16 * PtPlace[2]
      /\ PtPlace[4] = 16 * PtPlace[3] /\ PtPlace[5] = 16 * PtPlace[4]
      /\ PtPlace[6] = 16 * PtPlace[5] /\ PtPlace[7] = 16 * PtPlace[6]
      /\ PtPlace[8] = 16 * PtPlace[7]
  BY <1>3
<1>6. \A i \in 1 .. 8 : i = 1 \/ i = 2 \/ i = 3 \/ i = 4 \/ i = 5 \/ i = 6 \/ i = 7 \/ i = 8
  OBVIOUS
<1>7. \A i \in 1 .. 8 : PtPlace[i] \in Nat \ {0}
  BY <1>4, <1>5, <1>6
<1>8. \A i \in 1 .. 7, m \in 1 .. 8 : i < m => 16 * PtPlace[i] <= PtPlace[m]
  BY <1>4, <1>5, <1>6
<1> QED
  BY <1>4, <1>7, <1>8

\* A row of places to the base 16 is made of these, as many as the number has digits, which
\* are 8 at most.
LEMMA RowIsHex ==
  ASSUME NEW n, NEW pl, PlaceRow(pl, n, 16), pl[1] <= PtWord - 1
  PROVE  n \in 1 .. 8 /\ \A i \in 1 .. n : pl[i] = PtPlace[n + 1 - i]
<1>1. n \in Nat \ {0} /\ pl[n] = 1 /\ \A i \in 1 .. n - 1 : pl[i] = 16 * pl[i + 1]
  BY DEF PlaceRow
<1>2. \A i \in 1 .. n : pl[i] \in Nat \ {0} /\ pl[i] <= pl[1]
  BY RowFalls DEF Bases
<1>3. \A k \in Nat : k + 1 < n => pl[n - (k + 1)] = 16 * pl[n - k]
  <2> SUFFICES ASSUME NEW k \in Nat, k + 1 < n
               PROVE  pl[n - (k + 1)] = 16 * pl[n - k]
    OBVIOUS
  <2>1. n - (k + 1) \in 1 .. n - 1 /\ n - (k + 1) + 1 = n - k
    BY <1>1
  <2> QED
    BY <1>1, <2>1
<1>4. \A k \in 0 .. 7 : k < n => pl[n - k] = PtPlace[k + 1]
  <2>0. n - 0 = n
    BY <1>1
  <2>1. pl[n - 0] = PtPlace[0 + 1]
    BY <1>1, <2>0, HexPlaces
  <2>2. 1 < n => pl[n - 1] = PtPlace[1 + 1]
    BY <1>1, <1>3, <2>1, HexPlaces
  <2>3. 2 < n => pl[n - 2] = PtPlace[2 + 1]
    BY <1>1, <1>3, <2>2, HexPlaces
  <2>4. 3 < n => pl[n - 3] = PtPlace[3 + 1]
    BY <1>1, <1>3, <2>3, HexPlaces
  <2>5. 4 < n => pl[n - 4] = PtPlace[4 + 1]
    BY <1>1, <1>3, <2>4, HexPlaces
  <2>6. 5 < n => pl[n - 5] = PtPlace[5 + 1]
    BY <1>1, <1>3, <2>5, HexPlaces
  <2>7. 6 < n => pl[n - 6] = PtPlace[6 + 1]
    BY <1>1, <1>3, <2>6, HexPlaces
  <2>8. 7 < n => pl[n - 7] = PtPlace[7 + 1]
    BY <1>1, <1>3, <2>7, HexPlaces
  <2>9. \A k \in 0 .. 7 : k = 0 \/ k = 1 \/ k = 2 \/ k = 3 \/ k = 4 \/ k = 5 \/ k = 6 \/ k = 7
    OBVIOUS
  <2> QED
    BY <2>1, <2>2, <2>3, <2>4, <2>5, <2>6, <2>7, <2>8, <2>9
<1>5. n <= 8
  <2>1. SUFFICES ASSUME 8 < n PROVE FALSE
    BY <1>1
  <2>2. pl[n - 7] = PtPlace[8] /\ PtPlace[8] \in Nat
    <3>1. 7 \in 0 .. 7 /\ 7 < n /\ 7 + 1 = 8
      BY <2>1, <1>1
    <3>2. pl[n - 7] = PtPlace[7 + 1]
      BY <1>4, <3>1, Zenon
    <3> QED
      BY <3>1, <3>2, HexPlaces
  <2>3. pl[n - 8] = 16 * PtPlace[8]
    BY <1>1, <1>3, <2>1, <2>2
  <2>4. 16 * PtPlace[8] <= pl[1] /\ pl[1] \in Nat
    BY <1>1, <1>2, <2>1, <2>3
  <2>5. PtWord - 1 \in Nat /\ (PtWord - 1) \div 16 < PtPlace[8]
    BY PtAssumption
  <2>6. PICK q \in Nat, r \in 0 .. 16 - 1 :
          (PtWord - 1) \div 16 = q /\ (PtWord - 1) % 16 = r /\ PtWord - 1 = 16 * q + r
    <3>1. 16 \in Nat \ {0}
      OBVIOUS
    <3> QED
      BY <2>5, <3>1, Division, Zenon
  <2> QED
    BY <2>2, <2>4, <2>5, <2>6
<1>6. ASSUME NEW i \in 1 .. n
      PROVE  pl[i] = PtPlace[n + 1 - i]
  <2>1. n - i \in 0 .. 7 /\ n - i < n /\ n - (n - i) = i /\ n - i + 1 = n + 1 - i
    BY <1>1, <1>5
  <2> QED
    BY <1>4, <2>1
<1> QED
  BY <1>1, <1>5, <1>6

\* alt_printf's %x prints the digits of the number to the base 16.
LEMMA HexIsDigits ==
  ASSUME NEW v \in 0 .. PtWord - 1
  PROVE  PtHex(v) = PtDigits(v, 16)
<1> DEFINE n == PtLargest(v, 16).digits
<1>1. PICK pl : /\ PlaceRow(pl, n, 16) /\ pl[1] = PtLargest(v, 16).p
                /\ PtDigits(v, 16) = [i \in 1 .. n |-> (v \div pl[i]) % 16]
  BY Numeral DEF Bases
<1>2. /\ v < 16 * pl[1] /\ (v > 0 => pl[1] <= v) /\ (v = 0 => n = 1 /\ pl[1] = 1)
      /\ n \in Nat \ {0} /\ (PtDigits(v, 16)[1] = 0 => n = 1) /\ v \in Nat
  <2>1. 16 \in Bases
    BY DEF Bases
  <2> QED
    BY <1>1, <2>1, LargestPlace, Numeral
<1> HIDE DEF n
<1>3. CASE v = 0
  <2>1. PtDigits(v, 16) = [i \in 1 .. 1 |-> (0 \div 1) % 16]
    BY <1>1, <1>2, <1>3
  <2>2. (0 \div 1) % 16 = 0
    BY Small
  <2>3. PtHex(v) = <<0>> /\ <<0>> = [i \in 1 .. 1 |-> 0]
    BY <1>3 DEF PtHex
  <2> QED
    BY <2>1, <2>2, <2>3
<1>4. CASE v # 0
  <2>1. pl[1] <= PtWord - 1 /\ pl[1] <= v
    <3>1. v > 0 /\ PtWord \in Nat /\ pl[1] \in Nat
      BY <1>1, <1>2, <1>4, PtAssumption DEF PlaceRow
    <3> QED
      BY <1>2, <3>1
  <2>2. n \in 1 .. 8 /\ \A i \in 1 .. n : pl[i] = PtPlace[n + 1 - i]
    BY <1>1, <2>1, RowIsHex
  <2>3. pl[1] = PtPlace[n]
    <3>1. 1 \in 1 .. n /\ n + 1 - 1 = n
      BY <2>2
    <3> QED
      BY <2>2, <3>1
  <2>4. \A m \in 1 .. 8 : m > n => (v \div PtPlace[m]) % 16 = 0
    <3> SUFFICES ASSUME NEW m \in 1 .. 8, m > n PROVE (v \div PtPlace[m]) % 16 = 0
      OBVIOUS
    <3>1. 16 * PtPlace[n] <= PtPlace[m] /\ PtPlace[m] \in Nat \ {0} /\ PtPlace[n] \in Nat
      BY <2>2, HexPlaces
    <3>2. v < PtPlace[m]
      BY <1>2, <2>3, <3>1
    <3>3. v \div PtPlace[m] = 0
      BY <1>2, <3>1, <3>2, Small
    <3> QED
      BY <3>3, Small
  <2>5. (v \div PtPlace[n]) % 16 # 0
    <3>1. PICK q \in Nat, r \in 0 .. PtPlace[n] - 1 :
            v \div PtPlace[n] = q /\ v % PtPlace[n] = r /\ v = PtPlace[n] * q + r
      BY <1>2, <2>2, HexPlaces, Division, Zenon
    <3>2. q # 0
      BY <1>2, <2>1, <2>2, <2>3, <3>1, HexPlaces
    <3>3. q < 16
      <4>1. SUFFICES ASSUME 16 <= q PROVE FALSE
        BY <3>1
      <4>2. PtPlace[n] \in Nat
        BY <2>2, HexPlaces
      <4>3. 16 * PtPlace[n] <= q * PtPlace[n] /\ q * PtPlace[n] = PtPlace[n] * q
            /\ q * PtPlace[n] \in Nat
        BY <4>1, <4>2, Monotone
      <4> QED
        BY <1>2, <2>3, <3>1, <4>2, <4>3
    <3>4. q % 16 = q
      BY <3>3, Small
    <3> QED
      BY <3>1, <3>2, <3>4
  <2> DEFINE Top(t) == /\ (v \div PtPlace[t]) % 16 # 0
                       /\ \A m \in t + 1 .. 8 : (v \div PtPlace[m]) % 16 = 0
  <2> DEFINE top == CHOOSE t \in 1 .. 8 : Top(t)
  <2>6. Top(n)
    BY <2>2, <2>4, <2>5
  <2>7. \A t \in 1 .. 8 : Top(t) => t = n
    BY <2>2, <2>4, <2>5
  <2>8. top = n
    <3> HIDE DEF Top
    <3> QED
      BY <2>2, <2>6, <2>7
  <2>9. PtHex(v) = [i \in 1 .. top |-> (v \div PtPlace[top + 1 - i]) % 16]
    BY <1>4, Zenon DEF PtHex
  <2> HIDE DEF top
  <2>10. [i \in 1 .. n |-> (v \div PtPlace[n + 1 - i]) % 16] = [i \in 1 .. n |-> (v \div pl[i]) % 16]
    BY <2>2
  <2> QED
    BY <1>1, <2>8, <2>9, <2>10
<1> QED
  BY <1>3, <1>4

\* The end of a text.
LEMMA Ending ==
  ASSUME NEW T, NEW a \in Seq(T), NEW s \in Seq(T)
  PROVE  SubSeq(a \o s, Len(a \o s) - Len(s) + 1, Len(a \o s)) = s
<1> DEFINE w == a \o s
<1> DEFINE e == SubSeq(w, Len(w) - Len(s) + 1, Len(w))
<1>1. /\ w \in Seq(T) /\ Len(w) = Len(a) + Len(s) /\ Len(a) \in Nat /\ Len(s) \in Nat
      /\ \A i \in 1 .. Len(w) : w[i] = IF i <= Len(a) THEN a[i] ELSE s[i - Len(a)]
  BY ConcatProperties
<1>2. Len(w) - Len(s) + 1 = Len(a) + 1
  BY <1>1
<1> HIDE DEF w
<1>3. /\ e \in Seq(T) /\ Len(e) = Len(s)
      /\ \A i \in 1 .. Len(s) : e[i] = w[Len(a) + i]
  BY <1>1, <1>2
<1>4. ASSUME NEW i \in 1 .. Len(s)
      PROVE  e[i] = s[i]
  <2> DEFINE j == Len(a) + i
  <2>1. j \in 1 .. Len(w) /\ ~(j <= Len(a)) /\ j - Len(a) = i
    BY <1>1
  <2>2. e[i] = w[j]
    BY <1>3
  <2> HIDE DEF j, e
  <2>3. w[j] = s[j - Len(a)]
    BY <1>1, <2>1
  <2> QED
    BY <2>1, <2>2, <2>3
<1> HIDE DEF e
<1>5. e = s
  BY <1>3, <1>4, SeqEqual
<1> QED
  BY <1>5 DEF e, w

\* A character repeated is a text of that length.
LEMMA Repeated ==
  ASSUME NEW c \in Int, NEW n \in Int
  PROVE  PtRepeat(c, n) \in Seq(Int) /\ Len(PtRepeat(c, n)) = IF n > 0 THEN n ELSE 0
BY DEF PtRepeat

\* What an integer conversion prints is the number it was given, in the form asked for.
LEMMA IntegerIsNumber ==
  ASSUME NEW v \in 0 .. PtWord - 1, pt.zero \in BOOLEAN, pt.before \in Nat \cup {-1},
         NEW asked, asked.zero = pt.zero, asked.width = IF pt.before < 0 THEN 0 ELSE pt.before
  PROVE  PtNumber(asked, v, PtInteger(v, PtBase(asked.letter), asked.letter = "d"))
<1> DEFINE b   == PtBase(asked.letter)
           neg == asked.letter = "d" /\ v >= PtWord \div 2
           mag == IF neg THEN PtWord - v ELSE v
           n   == PtLargest(mag, b).digits
           D   == PtDigits(mag, b)
           sgn == IF neg THEN <<PtMinus>> ELSE <<>>
           one == IF neg THEN 1 ELSE 0
           pad == pt.before - n - one
           pre == IF pt.zero THEN sgn \o PtRepeat(PtFill, pad) ELSE PtRepeat(PtBlank, pad) \o sgn
           out == pre \o D
<1>0. b \in Bases
  BY DEF PtBase, Bases
<1>1. PtInteger(v, b, asked.letter = "d") = out
  BY DEF PtInteger
<1> HIDE DEF b
<1>2. mag \in 0 .. PtWord - 1
  <2>1. PtWord \in Nat /\ PtWord > 1
    BY PtAssumption
  <2>2. PtWord \div 2 >= 1
    BY <2>1
  <2> QED
    BY <2>1, <2>2
<1>3. one \in {0, 1} /\ sgn \in Seq(Int) /\ Len(sgn) = one /\ (sgn = <<>> <=> ~neg)
  BY DEF PtMinus
<1> HIDE DEF mag
<1>4. n \in Nat \ {0} /\ D \in [1 .. n -> 0 .. b - 1] /\ (D[1] = 0 => n = 1) /\ PtRead(D, b) = mag
  BY <1>0, <1>2, Numeral
<1> HIDE DEF n, D
<1>5. D \in Seq(Int) /\ Len(D) = n /\ b \in Nat
  BY <1>0, <1>4 DEF Bases
<1>6. pad \in Int
  BY <1>3, <1>4
<1> HIDE DEF pad
<1> HIDE DEF one
<1> DEFINE fill == IF pad > 0 THEN pad ELSE 0
<1>6a. fill \in Nat
  BY <1>6
<1>7. pre \in Seq(Int) /\ Len(pre) = one + fill
  <2>1. /\ PtRepeat(PtFill, pad) \in Seq(Int) /\ Len(PtRepeat(PtFill, pad)) = fill
        /\ PtRepeat(PtBlank, pad) \in Seq(Int) /\ Len(PtRepeat(PtBlank, pad)) = fill
    <3>1. PtFill \in Int /\ PtBlank \in Int
      BY DEF PtFill, PtBlank
    <3>2. \A c \in Int : PtRepeat(c, pad) \in Seq(Int) /\ Len(PtRepeat(c, pad)) = fill
      BY <1>6, Repeated
    <3> QED
      BY <3>1, <3>2, Zenon
  <2> HIDE DEF sgn, fill
  <2>2. /\ sgn \o PtRepeat(PtFill, pad) \in Seq(Int)
        /\ Len(sgn \o PtRepeat(PtFill, pad)) = one + fill
        /\ PtRepeat(PtBlank, pad) \o sgn \in Seq(Int)
        /\ Len(PtRepeat(PtBlank, pad) \o sgn) = fill + one
    BY <2>1, <1>3, ConcatProperties
  <2>3. fill + one = one + fill
    BY <1>3, <1>6 DEF fill
  <2> QED
    BY <2>2, <2>3
<1>8. \A c : PtRepeat(c, fill) = PtRepeat(c, pad)
  BY <1>6 DEF PtRepeat
<1>9. pre = IF asked.zero THEN sgn \o PtRepeat(PtFill, fill) ELSE PtRepeat(PtBlank, fill) \o sgn
  <2> HIDE DEF fill, sgn
  <2> QED
    BY <1>8
<1> HIDE DEF pre
<1>10. out \in Seq(Int) /\ Len(out) = one + fill + n
  <2> HIDE DEF fill
  <2> QED
    <3>1. out \in Seq(Int) /\ Len(out) = Len(pre) + Len(D)
      BY <1>5, <1>7, ConcatProperties
    <3> QED
      BY <3>1, <1>5, <1>7
<1>11. SubSeq(out, Len(out) - n + 1, Len(out)) = D
  BY <1>5, <1>7, Ending
<1> HIDE DEF out
<1>12. n \in 1 .. Len(out) /\ Len(out) - (one + n) = fill
  <2> HIDE DEF fill
  <2> QED
    BY <1>3, <1>4, <1>6a, <1>10
<1>13. Len(out) = IF asked.width > one + n THEN asked.width ELSE one + n
  <2>1. pad = pt.before - n - one
    BY DEF pad
  <2>2. CASE pt.before = -1
    BY <1>3, <1>4, <1>10, <2>1, <2>2
  <2>3. CASE pt.before \in Nat
    <3>1. asked.width = pt.before
      BY <2>3
    <3> QED
      BY <1>3, <1>4, <1>10, <2>1, <2>3, <3>1
  <2> QED
    BY <2>2, <2>3
<1> HIDE DEF fill
<1> DEFINE sign == IF asked.letter = "d" /\ v >= PtWord \div 2 THEN <<PtMinus>> ELSE <<>>
<1>14. sgn = sign
  OBVIOUS
<1>15. PtRead(D, b) = IF sgn = <<>> THEN v ELSE PtWord - v
  BY <1>3, <1>4 DEF mag
<1> HIDE DEF sgn, sign
<1>16. out = (IF asked.zero THEN sgn \o PtRepeat(PtFill, fill) ELSE PtRepeat(PtBlank, fill) \o sgn) \o D
  BY <1>9 DEF out
<1>17. \A i \in 1 .. n : D[i] \in 0 .. b - 1
  BY <1>4
<1>18. LET digits == SubSeq(out, Len(out) - n + 1, Len(out))
           need   == Len(sign) + n
           pads   == Len(out) - need
       IN  /\ \A i \in 1 .. n : digits[i] \in 0 .. b - 1
           /\ digits[1] = 0 => n = 1
           /\ PtRead(digits, b) = IF sign = <<>> THEN v ELSE PtWord - v
           /\ Len(out) = IF asked.width > need THEN asked.width ELSE need
           /\ out = (IF asked.zero THEN sign \o PtRepeat(PtFill, pads)
                     ELSE PtRepeat(PtBlank, pads) \o sign) \o digits
  BY <1>3, <1>4, <1>11, <1>12, <1>13, <1>14, <1>15, <1>16, <1>17
<1>19. PtNumber(asked, v, out)
  BY <1>12, <1>18 DEF PtNumber, b, sign
<1> QED
  BY <1>1, <1>19 DEF b

-----------------------------------------------------------------------------
(* The conversions that are asked for.                                     *)

WidthDigits == {"0", "2", "4"}

\* The first character of the width, as the property counts.
WidthStart(spec) == IF Len(spec) > 1 /\ spec[2] = "0" THEN 3 ELSE 2

\* The widths f that the beginnings of a conversion ask for.
Widths(f, spec) ==
  /\ f \in [1 .. Len(spec) -> Nat]
  /\ \A i \in 1 .. Len(spec) :
       f[i] = IF i < WidthStart(spec) THEN 0
              ELSE IF spec[i] \in WidthDigits /\ (\A j \in 1 .. i : spec[j] # ".")
                   THEN f[i - 1] * 10 + PtValue(spec[i])
                   ELSE f[i - 1]

\* What the property reads from the characters of a conversion is in these widths.
LEMMA AskedIs ==
  ASSUME NEW spec \in Seq(PtFormat), Len(spec) > 0, NEW f, Widths(f, spec)
  PROVE  /\ PtAsked(spec).letter = spec[Len(spec)] /\ PtAsked(spec).width = f[Len(spec)]
         /\ PtAsked(spec).zero = (WidthStart(spec) = 3)
<1> DEFINE n     == Len(spec)
           start == IF n > 1 /\ spec[2] = "0" THEN 3 ELSE 2
           Width[i \in 1 .. n] ==
             IF i < start THEN 0
             ELSE IF spec[i] \in {"0", "2", "4"} /\ (\A j \in 1 .. i : spec[j] # ".")
                  THEN Width[i - 1] * 10 + PtValue(spec[i])
                  ELSE Width[i - 1]
<1>1. PtAsked(spec) = [letter |-> spec[n], zero |-> start = 3, width |-> Width[n]]
  BY DEF PtAsked
<1>2. start = WidthStart(spec) /\ start \in {2, 3}
  BY DEF WidthStart
<1> HIDE DEF start
<1>3. f = [i \in 1 .. n |->
             IF i < start THEN 0
             ELSE IF spec[i] \in {"0", "2", "4"} /\ (\A j \in 1 .. i : spec[j] # ".")
                  THEN f[i - 1] * 10 + PtValue(spec[i])
                  ELSE f[i - 1]]
  <2> DEFINE r == [i \in 1 .. n |->
                     IF i < start THEN 0
                     ELSE IF spec[i] \in {"0", "2", "4"} /\ (\A j \in 1 .. i : spec[j] # ".")
                          THEN f[i - 1] * 10 + PtValue(spec[i])
                          ELSE f[i - 1]]
  <2>1. \A i \in 1 .. n : f[i] = r[i]
    BY <1>2 DEF Widths, WidthDigits
  <2>2. f = [i \in 1 .. n |-> f[i]] /\ r = [i \in 1 .. n |-> r[i]]
    BY DEF Widths
  <2> HIDE DEF r
  <2>3. f = r
    BY <2>1, <2>2
  <2> QED
    BY <2>3 DEF r
<1>4. Width = [i \in 1 .. n |->
                 IF i < start THEN 0
                 ELSE IF spec[i] \in {"0", "2", "4"} /\ (\A j \in 1 .. i : spec[j] # ".")
                      THEN Width[i - 1] * 10 + PtValue(spec[i])
                      ELSE Width[i - 1]]
  BY <1>3, Zenon
<1>5. n \in Nat \ {0}
  OBVIOUS
<1> HIDE DEF Width, n
<1> DEFINE S == {i \in 0 .. n : i > 0 => Width[i] = f[i]}
<1>6. ASSUME NEW i \in 0 .. n, \A j \in 0 .. i - 1 : j \in S
      PROVE  i \in S
  <2>1. CASE i = 0
    BY <2>1
  <2>2. CASE i # 0
    <3>1. i \in 1 .. n
      BY <2>2
    <3>2. Width[i] = IF i < start THEN 0
                     ELSE IF spec[i] \in {"0", "2", "4"} /\ (\A j \in 1 .. i : spec[j] # ".")
                          THEN Width[i - 1] * 10 + PtValue(spec[i])
                          ELSE Width[i - 1]
      BY <1>4, <3>1
    <3>3. f[i] = IF i < start THEN 0
                 ELSE IF spec[i] \in {"0", "2", "4"} /\ (\A j \in 1 .. i : spec[j] # ".")
                      THEN f[i - 1] * 10 + PtValue(spec[i])
                      ELSE f[i - 1]
      BY <1>3, <3>1
    <3>4. ~(i < start) => Width[i - 1] = f[i - 1]
      <4>1. ~(i < start) => i - 1 \in 0 .. i - 1 /\ i - 1 > 0
        BY <1>2, <3>1
      <4> QED
        BY <1>6, <4>1
    <3>5. Width[i] = f[i]
      BY <3>2, <3>3, <3>4
    <3> QED
      BY <3>5
  <2> QED
    BY <2>1, <2>2
<1> HIDE DEF S
<1>7. n \in S
  <2>1. n \in Nat /\ n \in 0 .. n
    BY <1>5
  <2> QED
    BY <1>6, <2>1, AllNumbers
<1>8. Width[n] = f[n]
  BY <1>5, <1>7 DEF S
<1> QED
  BY <1>1, <1>2, <1>8 DEF n

\* While a conversion is read, what the formatter keeps is what its characters ask for.
PtReading(spec, zero, before, after) ==
  /\ spec \in Seq(PtFormat) /\ Len(spec) > 0
  /\ zero = (WidthStart(spec) = 3)
  /\ after >= 0 <=> \E i \in 1 .. Len(spec) : spec[i] = "."
  /\ \E f : Widths(f, spec) /\ f[Len(spec)] = IF before < 0 THEN 0 ELSE before

\* One more character.
LEMMA WidthsGrow ==
  ASSUME NEW spec \in Seq(PtFormat), Len(spec) > 0, NEW c \in PtFormat, NEW f, Widths(f, spec),
         Len(spec) = 1 => c # "0"
  PROVE  LET longer == Append(spec, c)
             w      == IF c \in WidthDigits /\ (\A i \in 1 .. Len(spec) : spec[i] # ".")
                       THEN f[Len(spec)] * 10 + PtValue(c) ELSE f[Len(spec)]
         IN  /\ WidthStart(longer) = WidthStart(spec)
             /\ \E g : Widths(g, longer) /\ g[Len(longer)] = w
<1> DEFINE n      == Len(spec)
           longer == Append(spec, c)
           w      == IF c \in WidthDigits /\ (\A i \in 1 .. n : spec[i] # ".")
                     THEN f[n] * 10 + PtValue(c) ELSE f[n]
           g      == [i \in 1 .. n + 1 |-> IF i = n + 1 THEN w ELSE f[i]]
<1>1. n \in Nat \ {0} /\ f \in [1 .. n -> Nat] /\ (n = 1 => c # "0") /\ n = Len(spec)
  BY DEF Widths
<1>2. /\ longer \in Seq(PtFormat) /\ Len(longer) = n + 1 /\ longer[n + 1] = c
      /\ \A i \in 1 .. n : longer[i] = spec[i]
  OBVIOUS
<1> HIDE DEF longer, n
<1>3. WidthStart(longer) = WidthStart(spec) /\ WidthStart(spec) \in {2, 3}
      /\ (n = 1 => WidthStart(spec) = 2)
  <2>1. CASE n = 1
    <3>1. longer[2] = c /\ longer[2] # "0"
      BY <1>1, <1>2, <2>1
    <3> QED
      BY <1>1, <1>2, <2>1, <3>1 DEF WidthStart
  <2>2. CASE n # 1
    <3>1. n > 1 /\ n + 1 > 1 /\ 2 \in 1 .. n
      BY <1>1, <2>2
    <3>2. longer[2] = spec[2]
      BY <1>2, <3>1
    <3> QED
      BY <1>1, <1>2, <3>1, <3>2 DEF WidthStart
  <2> QED
    BY <2>1, <2>2
<1>4. w \in Nat
  <2>1. c \in WidthDigits => PtValue(c) \in Nat
    BY DEF PtValue, WidthDigits
  <2>2. f[n] \in Nat
    BY <1>1
  <2> QED
    BY <2>1, <2>2
<1>5. g \in [1 .. n + 1 -> Nat]
  <2> HIDE DEF w
  <2> QED
    BY <1>1, <1>4
<1>6. ASSUME NEW i \in 1 .. n + 1
      PROVE  g[i] = IF i < WidthStart(longer) THEN 0
                    ELSE IF longer[i] \in WidthDigits /\ (\A j \in 1 .. i : longer[j] # ".")
                         THEN g[i - 1] * 10 + PtValue(longer[i])
                         ELSE g[i - 1]
  <2>1. CASE i = n + 1
    <3>1. g[i] = w /\ g[i - 1] = f[n] /\ longer[i] = c /\ ~(i < WidthStart(longer))
      BY <1>1, <1>2, <1>3, <2>1
    <3>2. c \in WidthDigits => c # "."
      BY DEF WidthDigits
    <3>3. c # "." => ((\A j \in 1 .. i : longer[j] # ".") <=> (\A j \in 1 .. n : spec[j] # "."))
      BY <1>1, <1>2, <2>1
    <3> HIDE DEF g
    <3> QED
      BY <3>1, <3>2, <3>3
  <2>2. CASE i # n + 1
    <3>1. i \in 1 .. n /\ g[i] = f[i] /\ longer[i] = spec[i] /\ (i > 1 => g[i - 1] = f[i - 1])
      BY <1>1, <1>2, <2>2
    <3>2. \A j \in 1 .. i : longer[j] = spec[j]
      BY <1>1, <1>2, <3>1
    <3>3. f[i] = IF i < WidthStart(spec) THEN 0
                 ELSE IF spec[i] \in WidthDigits /\ (\A j \in 1 .. i : spec[j] # ".")
                      THEN f[i - 1] * 10 + PtValue(spec[i])
                      ELSE f[i - 1]
      BY <3>1 DEF Widths, n
    <3>4. ~(i < WidthStart(spec)) => i > 1
      BY <1>3
    <3> HIDE DEF g
    <3> QED
      BY <1>3, <3>1, <3>2, <3>3, <3>4
  <2> QED
    BY <2>1, <2>2
<1>7. g[n + 1] = w
  BY <1>1
<1> HIDE DEF g
<1>8. Widths(g, longer)
  BY <1>2, <1>5, <1>6 DEF Widths
<1>9. \E h : Widths(h, longer) /\ h[Len(longer)] = w
  BY <1>2, <1>7, <1>8
<1> QED
  BY <1>3, <1>9 DEF longer, n

\* A conversion that is read is kept as its characters ask, and one that has ended has
\* printed its number.
AskedInv ==
  /\ pt.mode \in {"chars", "first", "other"} /\ pt.zero \in BOOLEAN
  /\ pt.before \in Nat \cup {-1} /\ pt.after \in Nat \cup {-1}
  /\ pt.mode # "chars" => PtReading(pt.spec, pt.zero, pt.before, pt.after)
  /\ pt.mode = "first" => pt.spec = <<"%">> /\ pt.before = -1 /\ pt.after = -1
  /\ pt.mode = "other" => Len(pt.spec) > 1
  /\ ConversionsExact

\* A character appended to another.
LEMMA AfterOne ==
  ASSUME NEW S, NEW a \in S, NEW e \in S
  PROVE  Append(<<a>>, e) = <<a, e>>
<1>1. <<a>> \in Seq(S) /\ Len(<<a>>) = 1 /\ <<a>>[1] = a
  OBVIOUS
<1>2. <<a, e>> \in Seq(S) /\ Len(<<a, e>>) = 2 /\ <<a, e>>[1] = a /\ <<a, e>>[2] = e
  OBVIOUS
<1> SUFFICES ASSUME NEW s \in Seq(S), Len(s) = 1, s[1] = a, NEW t \in Seq(S), Len(t) = 2, t[1] = a, t[2] = e
             PROVE  Append(s, e) = t
  BY <1>1, <1>2, Zenon
<1>3. Append(s, e) \in Seq(S) /\ Len(Append(s, e)) = Len(s) + 1
  BY AppendProperties
<1>4. Append(s, e)[2] = e
  <2>1. Append(s, e)[Len(s) + 1] = e
    BY AppendProperties
  <2>2. Len(s) + 1 = 2
    OBVIOUS
  <2> QED
    BY <2>1, <2>2, Zenon
<1>5. Append(s, e)[1] = a
  BY AppendProperties
<1> QED
  BY <1>3, <1>4, <1>5, SeqEqual

\* A %, and a 0 that follows it.
LEMMA ReadingStarts ==
  /\ PtReading(<<"%">>, FALSE, -1, -1)
  /\ PtReading(<<"%", "0">>, TRUE, -1, -1)
<1>1. <<"%">> \in Seq(PtFormat) /\ <<"%", "0">> \in Seq(PtFormat)
  BY DEF PtFormat
<1>2. WidthStart(<<"%">>) = 2 /\ WidthStart(<<"%", "0">>) = 3
  BY DEF WidthStart
<1>3. Widths([i \in 1 .. 1 |-> 0], <<"%">>)
  BY <1>2 DEF Widths
<1>4. Widths([i \in 1 .. 2 |-> 0], <<"%", "0">>)
  BY <1>2 DEF Widths
<1>5. \E f : Widths(f, <<"%">>) /\ f[1] = 0
  <2> DEFINE f == [i \in 1 .. 1 |-> 0]
  <2>1. Widths(f, <<"%">>) /\ f[1] = 0
    BY <1>3
  <2> HIDE DEF f
  <2> QED
    BY <2>1
<1>6. \E f : Widths(f, <<"%", "0">>) /\ f[2] = 0
  <2> DEFINE f == [i \in 1 .. 2 |-> 0]
  <2>1. Widths(f, <<"%", "0">>) /\ f[2] = 0
    BY <1>4
  <2> HIDE DEF f
  <2> QED
    BY <2>1
<1>7. PtReading(<<"%">>, FALSE, -1, -1)
  BY <1>1, <1>2, <1>5 DEF PtReading
<1>8. PtReading(<<"%", "0">>, TRUE, -1, -1)
  BY <1>1, <1>2, <1>6 DEF PtReading
<1> QED
  BY <1>7, <1>8

\* A character of a conversion's width, or an l or a point, is read as it asks.
LEMMA ReadingGrows ==
  ASSUME NEW c \in {"0", "2", "4", ".", "l"}, PtMore(c), pt.zero \in BOOLEAN,
         pt.before \in Nat \cup {-1}, pt.after \in Nat \cup {-1},
         PtReading(pt.spec, pt.zero, pt.before, pt.after), Len(pt.spec) = 1 => c # "0",
         pt = [mode |-> pt.mode, zero |-> pt.zero, before |-> pt.before, after |-> pt.after,
               spec |-> pt.spec]
  PROVE  /\ pt'.mode = "other" /\ pt'.zero \in BOOLEAN
         /\ pt'.before \in Nat \cup {-1} /\ pt'.after \in Nat \cup {-1}
         /\ PtReading(pt'.spec, pt'.zero, pt'.before, pt'.after) /\ Len(pt'.spec) > 1
<1> DEFINE spec   == pt.spec
           longer == Append(spec, c)
           n      == Len(spec)
           after  == IF c = "." THEN 0
                     ELSE IF c = "l" \/ pt.after < 0 THEN pt.after ELSE pt.after * 10 + PtValue(c)
           before == IF c \in {".", "l"} \/ pt.after >= 0 THEN pt.before
                     ELSE (IF pt.before < 0 THEN 0 ELSE pt.before * 10) + PtValue(c)
<1>1. pt' = [mode |-> "other", zero |-> pt.zero, before |-> before, after |-> after, spec |-> longer]
  BY DEF PtMore
<1>2. /\ spec \in Seq(PtFormat) /\ n > 0 /\ pt.zero = (WidthStart(spec) = 3)
      /\ (pt.after >= 0 <=> \E i \in 1 .. n : spec[i] = ".")
  BY DEF PtReading
<1>3. PICK f : Widths(f, spec) /\ f[n] = IF pt.before < 0 THEN 0 ELSE pt.before
  BY DEF PtReading
<1>4. c \in PtFormat /\ (c \notin {".", "l"} => c \in WidthDigits /\ PtValue(c) \in Nat)
      /\ (c \in {".", "l"} => c \notin WidthDigits)
  BY DEF PtFormat, WidthDigits, PtValue
<1> DEFINE w == IF c \in WidthDigits /\ (\A i \in 1 .. n : spec[i] # ".")
                THEN f[n] * 10 + PtValue(c) ELSE f[n]
<1>5. WidthStart(longer) = WidthStart(spec) /\ \E g : Widths(g, longer) /\ g[Len(longer)] = w
  BY <1>2, <1>3, <1>4, WidthsGrow
<1>6. /\ longer \in Seq(PtFormat) /\ Len(longer) = n + 1 /\ longer[n + 1] = c
      /\ n \in Nat /\ \A i \in 1 .. n : longer[i] = spec[i]
  BY <1>2, <1>4
<1> HIDE DEF longer, n
<1>7. after \in Nat \cup {-1} /\ before \in Nat \cup {-1}
  BY <1>4
<1>8. after >= 0 <=> \E i \in 1 .. Len(longer) : longer[i] = "."
  <2>1. (\E i \in 1 .. Len(longer) : longer[i] = ".") <=> c = "." \/ \E i \in 1 .. n : spec[i] = "."
    BY <1>6
  <2>2. after >= 0 <=> c = "." \/ pt.after >= 0
    BY <1>4
  <2> QED
    BY <1>2, <2>1, <2>2
<1>9. w = IF before < 0 THEN 0 ELSE before
  <2>1. (\A i \in 1 .. n : spec[i] # ".") <=> ~(pt.after >= 0)
    BY <1>2
  <2>2. CASE c \in {".", "l"} \/ pt.after >= 0
    BY <1>3, <1>4, <2>1, <2>2
  <2>3. CASE ~(c \in {".", "l"} \/ pt.after >= 0)
    <3>1. w = f[n] * 10 + PtValue(c)
      BY <1>4, <2>1, <2>3
    <3>2. before = (IF pt.before < 0 THEN 0 ELSE pt.before * 10) + PtValue(c)
      BY <2>3
    <3>3. PtValue(c) \in Nat
      BY <1>4, <2>3
    <3> HIDE DEF w, before
    <3> QED
      BY <1>3, <3>1, <3>2, <3>3
  <2> QED
    BY <2>2, <2>3
<1> HIDE DEF after, before, w
<1>10. PtReading(longer, pt.zero, before, after)
  BY <1>2, <1>5, <1>6, <1>8, <1>9 DEF PtReading
<1>11. Len(longer) > 1
  BY <1>2, <1>6 DEF n
<1> QED
  BY <1>1, <1>7, <1>10, <1>11

\* The letter that ends a conversion: what it prints is what was asked for.
LEMMA ConversionEnds ==
  ASSUME NEW c \in PtFormat, c \notin {"0", "2", "4", ".", "l"}, PtConvert(c), pt.zero \in BOOLEAN,
         pt.before \in Nat \cup {-1},
         PtReading(pt.spec, pt.zero, pt.before, pt.after),
         pt = [mode |-> pt.mode, zero |-> pt.zero, before |-> pt.before, after |-> pt.after,
               spec |-> pt.spec]
  PROVE  /\ pt'.mode = "chars" /\ pt'.zero = pt.zero /\ pt'.before = pt.before /\ pt'.after = pt.after
         /\ ConversionsExact'
<1> DEFINE spec   == pt.spec
           longer == Append(spec, c)
           n      == Len(spec)
           asked  == PtAsked(longer)
<1>1. pt' = [mode |-> "chars", zero |-> pt.zero, before |-> pt.before, after |-> pt.after,
             spec |-> longer]
  BY DEF PtConvert
<1>2. spec \in Seq(PtFormat) /\ n > 0 /\ pt.zero = (WidthStart(spec) = 3)
  BY DEF PtReading
<1>3. PICK f : Widths(f, spec) /\ f[n] = IF pt.before < 0 THEN 0 ELSE pt.before
  BY DEF PtReading
<1>4. c \notin WidthDigits /\ c # "0"
  BY DEF WidthDigits
<1>5. WidthStart(longer) = WidthStart(spec) /\ \E g : Widths(g, longer) /\ g[Len(longer)] = f[n]
  BY <1>2, <1>3, <1>4, WidthsGrow
<1>6. PICK g : Widths(g, longer) /\ g[Len(longer)] = f[n]
  BY <1>5
<1>7. longer \in Seq(PtFormat) /\ Len(longer) = n + 1 /\ longer[n + 1] = c /\ n \in Nat
  BY <1>2
<1> HIDE DEF longer, n
<1>8. /\ asked.letter = c /\ asked.width = IF pt.before < 0 THEN 0 ELSE pt.before
      /\ asked.zero = pt.zero
  <2>1. Len(longer) > 0
    BY <1>7
  <2>2. /\ asked.letter = longer[Len(longer)] /\ asked.width = g[Len(longer)]
        /\ asked.zero = (WidthStart(longer) = 3)
    BY <1>6, <1>7, <2>1, AskedIs
  <2> QED
    BY <1>2, <1>3, <1>5, <1>6, <1>7, <2>2
<1> HIDE DEF asked
<1>9. CASE c \in {"d", "u", "o", "x", "X"}
  <2>1. PICK v \in PtArgs : ptArg' = v /\ ptOut' = PtInteger(v, PtBase(c), c = "d")
    BY <1>9 DEF PtConvert
  <2>2. v \in 0 .. PtWord - 1
    BY PtAssumption
  <2>3. PtNumber(asked, v, PtInteger(v, PtBase(asked.letter), asked.letter = "d"))
    BY <1>8, <2>2, IntegerIsNumber
  <2>4. PtNumber(asked, ptArg', ptOut')
    BY <1>8, <2>1, <2>3, Zenon
  <2> QED
    BY <1>1, <2>4 DEF ConversionsExact, asked
<1>10. CASE c \notin {"d", "u", "o", "x", "X"}
  BY <1>1, <1>8, <1>10 DEF ConversionsExact, asked
<1> QED
  BY <1>1, <1>9, <1>10

\* No conversion is read at first, and every character of a format keeps what it asks.
LEMMA AskedStarts == PtInit => AskedInv
BY DEF PtInit, AskedInv, PtBegin, ConversionsExact

\* A step of the formatters: a character, or one of alt_printf, which reads no such conversion.
LEMMA AskedKept ==
  ASSUME AskedInv, [PtNext]_ptVars,
         pt = [mode |-> pt.mode, zero |-> pt.zero, before |-> pt.before, after |-> pt.after,
               spec |-> pt.spec]
  PROVE  AskedInv'
<1>0. /\ pt.mode \in {"chars", "first", "other"} /\ pt.zero \in BOOLEAN
      /\ pt.before \in Nat \cup {-1} /\ pt.after \in Nat \cup {-1}
      /\ pt.mode # "chars" => PtReading(pt.spec, pt.zero, pt.before, pt.after)
      /\ pt.mode = "first" => pt.spec = <<"%">> /\ pt.before = -1 /\ pt.after = -1
      /\ pt.mode = "other" => Len(pt.spec) > 1
  BY DEF AskedInv
<1>1. CASE UNCHANGED <<pt, ptOut, ptArg>>
  BY <1>1 DEF AskedInv, ConversionsExact
<1>2. ASSUME pt' = PtBegin PROVE AskedInv'
  BY <1>2 DEF AskedInv, PtBegin, ConversionsExact
<1>3. ASSUME NEW c \in PtFormat, PtOther(c), pt.mode # "chars", Len(pt.spec) = 1 => c # "0"
      PROVE  AskedInv'
  <2>1. PtReading(pt.spec, pt.zero, pt.before, pt.after)
    BY <1>0, <1>3
  <2>2. CASE c \in {"0", "2", "4", ".", "l"}
    <3>1. PtMore(c)
      BY <1>3, <2>2 DEF PtOther
    <3>2. /\ pt'.mode = "other" /\ pt'.zero \in BOOLEAN
          /\ pt'.before \in Nat \cup {-1} /\ pt'.after \in Nat \cup {-1}
          /\ PtReading(pt'.spec, pt'.zero, pt'.before, pt'.after) /\ Len(pt'.spec) > 1
      BY <1>0, <1>3, <2>1, <2>2, <3>1, ReadingGrows
    <3> QED
      BY <3>2 DEF AskedInv, ConversionsExact
  <2>3. CASE c \notin {"0", "2", "4", ".", "l"}
    <3>1. PtConvert(c)
      BY <1>3, <2>3 DEF PtOther
    <3>2. /\ pt'.mode = "chars" /\ pt'.zero = pt.zero /\ pt'.before = pt.before
          /\ pt'.after = pt.after /\ ConversionsExact'
      BY <1>0, <2>1, <2>3, <3>1, ConversionEnds
    <3> QED
      BY <1>0, <3>2 DEF AskedInv
  <2> QED
    BY <2>2, <2>3
<1>4. CASE alt_log_private_printf
  <2>1. PICK c \in PtFormat :
          CASE pt.mode = "chars" -> PtChars(c)
            [] pt.mode = "first" -> PtFirst(c)
            [] pt.mode = "other" -> PtOther(c)
    BY <1>4 DEF alt_log_private_printf
  <2>2. CASE pt.mode = "chars"
    <3>1. PtChars(c)
      BY <2>1, <2>2
    <3>2. CASE c = "%"
      <4>1. pt' = [mode |-> "first", zero |-> FALSE, before |-> -1, after |-> -1, spec |-> <<"%">>]
        BY <3>1, <3>2 DEF PtChars, PtBegin
      <4>2. Len(<<"%">>) = 1
        OBVIOUS
      <4> QED
        BY <4>1, <4>2, ReadingStarts DEF AskedInv, ConversionsExact
    <3>3. CASE c # "%"
      BY <1>2, <3>1, <3>3 DEF PtChars
    <3> QED
      BY <3>2, <3>3
  <2>3. CASE pt.mode = "first"
    <3>1. PtFirst(c)
      BY <2>1, <2>3
    <3>2. CASE c = "0"
      <4>1. pt' = [mode |-> "other", zero |-> TRUE, before |-> pt.before, after |-> pt.after,
                   spec |-> Append(pt.spec, "0")]
        BY <3>1, <3>2 DEF PtFirst
      <4> QED
        <5>1. pt' = [mode |-> "other", zero |-> TRUE, before |-> -1, after |-> -1,
                     spec |-> <<"%", "0">>]
          <6>1. Append(<<"%">>, "0") = <<"%", "0">>
            <7>1. "%" \in PtFormat /\ "0" \in PtFormat
              BY DEF PtFormat
            <7> QED
              BY <7>1, AfterOne, Zenon
          <6>2. pt.spec = <<"%">> /\ pt.before = -1 /\ pt.after = -1
            BY <1>0, <2>3
          <6> QED
            BY <4>1, <6>1, <6>2
        <5>2. Len(<<"%", "0">>) > 1
          OBVIOUS
        <5> QED
          BY <5>1, <5>2, ReadingStarts DEF AskedInv, ConversionsExact
    <3>3. CASE c = "%"
      BY <1>2, <3>1, <3>3 DEF PtFirst
    <3>4. CASE c # "0" /\ c # "%"
      <4>1. PtOther(c)
        BY <3>1, <3>4 DEF PtFirst
      <4> QED
        BY <1>3, <2>3, <3>4, <4>1
    <3> QED
      BY <3>2, <3>3, <3>4
  <2>4. CASE pt.mode = "other"
    <3>1. PtOther(c)
      BY <2>1, <2>4
    <3> QED
      <4>1. Len(pt.spec) > 1
        BY <1>0, <2>4
      <4>2. Len(pt.spec) = 1 => c # "0"
        BY <4>1
      <4> QED
        BY <1>3, <2>4, <3>1, <4>2
  <2> QED
    BY <1>0, <2>2, <2>3, <2>4
<1> QED
  BY <1>1, <1>4 DEF PtNext, alt_putcharbuf, ApChar, ApFormat, ApEnd, ApCall, ptVars

-----------------------------------------------------------------------------
(* alt_printf and its buffer, and the state of the conversions (alt_printf.c, *)
(* alt_putcharbuf.c, alt_log_printf.c).                                      *)

\* What alt_printf prints: marks of characters, and digits.
PtShown == Int

\* The state of the conversions, and of the buffer: of what was to be printed since the
\* call, what was written, what was lost, what waits and what is still to come are all, and
\* as long as nothing was lost they are it in order.
PtInv ==
  /\ pt \in [mode : {"chars", "first", "other"}, zero : BOOLEAN, before : Nat \cup {-1},
            after : Nat \cup {-1}, spec : Seq(PtFormat)]
  /\ ap \in {"chars", "format", "done"}
  /\ apRest \in Seq(PtShown) /\ apOut \in Seq(PtShown)
  /\ apBuf \in Seq(PtShown) /\ apWritten \in Seq(PtShown) /\ apLost \in Nat
  /\ Len(apBuf) < PtBufSize
  /\ Len(apWritten) + apLost + Len(apBuf) + Len(apRest) = Len(apOut)
  /\ apLost = 0 => (apWritten \o apBuf) \o apRest = apOut
  /\ ap = "done" => apBuf = <<>> /\ apRest = <<>>
  /\ ap = "format" => apRest = <<>>

\* What is printed at a time is a sequence of those.
LEMMA ShownTexts ==
  /\ \A c : <<PtText(c)>> \in Seq(PtShown)
  /\ PtString \in Seq(PtShown)
  /\ \A v \in PtArgs : PtHex(v) \in Seq(PtShown)
<1>1. Int \subseteq PtShown
  BY DEF PtShown
<1>2. \A c : <<PtText(c)>> \in Seq(PtShown)
  <2> SUFFICES ASSUME NEW c
               PROVE  <<PtText(c)>> \in Seq(PtShown)
    OBVIOUS
  <2>1. PtText(c) \in {-4, -5, -6}
    BY DEF PtText
  <2>2. PtText(c) \in PtShown
    BY <2>1, <1>1
  <2> QED
    BY <2>2
<1>3. PtString \in Seq(PtShown)
  <2>1. -7 \in PtShown /\ -8 \in PtShown
    BY <1>1
  <2> QED
    BY <2>1 DEF PtString
<1>4. ASSUME NEW v \in PtArgs
      PROVE  PtHex(v) \in Seq(PtShown)
  <2> DEFINE n == PtLargest(v, 16).digits
  <2>1. v \in 0 .. PtWord - 1 /\ 16 \in Bases
    BY PtAssumption DEF Bases
  <2>2. n \in Nat /\ PtDigits(v, 16) \in [1 .. n -> 0 .. 16 - 1]
    BY <2>1, Numeral
  <2>3. PtHex(v) = PtDigits(v, 16)
    BY <2>1, HexIsDigits
  <2> HIDE DEF n
  <2>4. \A m \in Nat : \A f \in [1 .. m -> Int] : f \in Seq(Int)
    OBVIOUS
  <2>5. PtDigits(v, 16) \in [1 .. n -> Int]
    <3> HIDE DEF n
    <3>1. \A f \in [1 .. n -> 0 .. 16 - 1] : f \in [1 .. n -> Int]
      OBVIOUS
    <3> QED
      BY <2>2, <3>1
  <2> QED
    BY <2>2, <2>3, <2>4, <2>5 DEF PtShown
<1> QED
  BY <1>2, <1>3, <1>4

\* Texts are joined in any order.
LEMMA TextsJoin ==
  \A x \in Seq(PtShown), y \in Seq(PtShown), z \in Seq(PtShown) : (x \o y) \o z = x \o (y \o z)
<1> SUFFICES ASSUME NEW x \in Seq(PtShown), NEW y \in Seq(PtShown), NEW z \in Seq(PtShown)
             PROVE  (x \o y) \o z = x \o (y \o z)
  OBVIOUS
<1> QED
  BY ConcatAssociative

\* The buffer is flushed: what is written of it and what is lost is all of it.
LEMMA FlushKept ==
  ASSUME apWritten \in Seq(PtShown), apLost \in Nat, NEW b \in Seq(PtShown), alt_putbufflush(b)
  PROVE  /\ apBuf' = <<>> /\ apWritten' \in Seq(PtShown) /\ apLost' \in Nat
         /\ Len(apWritten') + apLost' = Len(apWritten) + apLost + Len(b)
         /\ apLost' = 0 => apLost = 0 /\ apWritten' = apWritten \o b
<1>1. PICK taken \in 0 .. Len(b) : /\ apWritten' = apWritten \o SubSeq(b, 1, taken)
                                   /\ apLost' = apLost + (Len(b) - taken)
  BY DEF alt_putbufflush
<1>2. Len(b) \in Nat /\ Len(apWritten) \in Nat
  OBVIOUS
<1>3. SubSeq(b, 1, taken) \in Seq(PtShown) /\ Len(SubSeq(b, 1, taken)) = taken
  BY <1>2
<1>4. /\ apWritten' \in Seq(PtShown) /\ Len(apWritten') = Len(apWritten) + taken
  BY <1>1, <1>3, ConcatProperties
<1>5. apLost' = 0 => apLost = 0 /\ taken = Len(b)
  BY <1>1, <1>2
<1>6. SubSeq(b, 1, Len(b)) = b
  BY SubSeqFull
<1>7. apLost' = 0 => apLost = 0 /\ apWritten' = apWritten \o b
  <2>1. taken = Len(b) => apWritten' = apWritten \o b
    BY <1>1, <1>6, Zenon
  <2> QED
    BY <1>5, <2>1
<1>8. apLost' \in Nat /\ Len(apWritten') + apLost' = Len(apWritten) + apLost + Len(b)
  <2> DEFINE l == Len(b)
  <2> DEFINE w == Len(apWritten)
  <2> DEFINE w2 == Len(apWritten')
  <2>1. l \in Nat /\ w \in Nat /\ taken \in 0 .. l /\ w2 = w + taken /\ apLost' = apLost + (l - taken)
    BY <1>1, <1>2, <1>4
  <2> HIDE DEF l, w, w2
  <2>2. apLost' \in Nat /\ w2 + apLost' = w + apLost + l
    BY <2>1
  <2> QED
    BY <2>2 DEF l, w, w2
<1> QED
  BY <1>4, <1>7, <1>8 DEF alt_putbufflush

\* A character goes through the buffer.
LEMMA PutKept ==
  ASSUME PtInv, alt_putcharbuf
  PROVE  PtInv'
<1> DEFINE h == Head(apRest)
<1> DEFINE t == Tail(apRest)
<1> DEFINE b == Append(apBuf, h)
<1>1. /\ apRest \in Seq(PtShown) /\ apRest # <<>> /\ apOut \in Seq(PtShown)
      /\ apBuf \in Seq(PtShown) /\ apWritten \in Seq(PtShown) /\ apLost \in Nat
      /\ PtBufSize \in Nat \ {0}
  BY PtAssumption DEF PtInv, alt_putcharbuf
<1>2. /\ h \in PtShown /\ t \in Seq(PtShown) /\ Len(t) = Len(apRest) - 1 /\ apRest = <<h>> \o t
      /\ <<h>> \in Seq(PtShown) /\ Len(apRest) \in Nat /\ Len(t) \in Nat
  BY <1>1
<1>3. b = apBuf \o <<h>> /\ b \in Seq(PtShown) /\ Len(b) = Len(apBuf) + 1 /\ Len(apBuf) \in Nat
  BY <1>1, <1>2
<1>4. /\ UNCHANGED <<pt, ap, apOut>> /\ apRest' = t
      /\ IF Len(b) >= PtBufSize THEN alt_putbufflush(b)
         ELSE apBuf' = b /\ apWritten' = apWritten /\ apLost' = apLost
  BY DEF alt_putcharbuf
<1>5. ap' = "chars"
  BY <1>1, <1>4 DEF PtInv
<1>6. /\ Len(apWritten) + apLost + Len(b) + Len(t) = Len(apOut)
      /\ apLost = 0 => (apWritten \o b) \o t = apOut
  <2>1. Len(apWritten) + apLost + Len(b) + Len(t) = Len(apOut)
    BY <1>1, <1>2, <1>3 DEF PtInv
  <2>2. (apWritten \o b) \o t = (apWritten \o apBuf) \o apRest
    <3> HIDE DEF h, t, b
    <3>1. apWritten \o (apBuf \o <<h>>) = (apWritten \o apBuf) \o <<h>>
      BY <1>1, <1>2, TextsJoin, Zenon
    <3>2. apWritten \o apBuf \in Seq(PtShown)
      BY <1>1, ConcatProperties
    <3>3. ((apWritten \o apBuf) \o <<h>>) \o t = (apWritten \o apBuf) \o (<<h>> \o t)
      BY <3>2, <1>2, TextsJoin, Zenon
    <3> QED
      BY <3>1, <3>3, <1>2, <1>3, Zenon
  <2> QED
    BY <2>1, <2>2 DEF PtInv
<1> HIDE DEF h, t, b
<1>9. ASSUME apRest' \in Seq(PtShown), apOut' \in Seq(PtShown), apBuf' \in Seq(PtShown),
             apWritten' \in Seq(PtShown), apLost' \in Nat, Len(apBuf') < PtBufSize,
             Len(apWritten') + apLost' + Len(apBuf') + Len(apRest') = Len(apOut'),
             apLost' = 0 => (apWritten' \o apBuf') \o apRest' = apOut'
      PROVE  PtInv'
  <2>1. pt' = pt /\ ap' = "chars"
    BY <1>4, <1>5
  <2>2. pt \in [mode : {"chars", "first", "other"}, zero : BOOLEAN, before : Nat \cup {-1},
               after : Nat \cup {-1}, spec : Seq(PtFormat)]
    BY DEF PtInv
  <2>3. /\ pt' \in [mode : {"chars", "first", "other"}, zero : BOOLEAN, before : Nat \cup {-1},
                    after : Nat \cup {-1}, spec : Seq(PtFormat)]
        /\ ap' \in {"chars", "format", "done"} /\ ap' # "done" /\ ap' # "format"
    BY <2>1, <2>2
  <2> QED
    BY <1>9, <2>3, Zenon DEF PtInv
<1>7. CASE Len(b) >= PtBufSize
  <2>1. /\ apBuf' = <<>> /\ apWritten' \in Seq(PtShown) /\ apLost' \in Nat
        /\ Len(apWritten') + apLost' = Len(apWritten) + apLost + Len(b)
        /\ apLost' = 0 => apLost = 0 /\ apWritten' = apWritten \o b
    BY <1>1, <1>3, <1>4, <1>7, FlushKept
  <2>2. apBuf' \in Seq(PtShown) /\ Len(apBuf') = 0 /\ apWritten' \o apBuf' = apWritten'
    BY <2>1, ConcatEmptySeq
  <2>3. apLost' = 0 => (apWritten' \o apBuf') \o apRest' = apOut'
    BY <2>1, <2>2, <1>4, <1>6
  <2>4. Len(apWritten') + apLost' + Len(apBuf') + Len(apRest') = Len(apOut')
    <3>1. Len(apWritten') + apLost' + 0 + Len(t) = Len(apWritten) + apLost + Len(b) + Len(t)
      BY <2>1
    <3>2. apRest' = t /\ apOut' = apOut /\ Len(apBuf') = 0
      BY <1>4, <2>2
    <3> QED
      BY <3>1, <3>2, <1>6
  <2>5. apRest' \in Seq(PtShown) /\ apOut' \in Seq(PtShown) /\ Len(apBuf') < PtBufSize
    BY <2>2, <1>1, <1>2, <1>4
  <2> QED
    BY <2>1, <2>2, <2>3, <2>4, <2>5, <1>9
<1>8. CASE ~(Len(b) >= PtBufSize)
  <2>1. apBuf' = b /\ apWritten' = apWritten /\ apLost' = apLost /\ Len(b) < PtBufSize
    BY <1>1, <1>3, <1>4, <1>8
  <2>2. /\ apRest' = t /\ apOut' = apOut /\ apBuf' \in Seq(PtShown) /\ apWritten' \in Seq(PtShown)
        /\ apLost' \in Nat /\ apRest' \in Seq(PtShown) /\ apOut' \in Seq(PtShown)
        /\ Len(apBuf') < PtBufSize
    BY <2>1, <1>1, <1>2, <1>3, <1>4
  <2>3. /\ Len(apWritten') + apLost' + Len(apBuf') + Len(apRest') = Len(apOut')
        /\ apLost' = 0 => (apWritten' \o apBuf') \o apRest' = apOut'
    BY <2>1, <2>2, <1>6
  <2> QED
    BY <2>2, <2>3, <1>9
<1> QED
  BY <1>7, <1>8

\* A text to be printed comes behind the one before it, which is in the buffer.
LEMMA PrintKept ==
  ASSUME PtInv, apRest = <<>>, NEW out \in Seq(PtShown), ApPrint(out), ap' = "chars",
         UNCHANGED <<pt, apBuf, apWritten, apLost>>
  PROVE  PtInv'
<1>1. /\ apOut \in Seq(PtShown) /\ apBuf \in Seq(PtShown) /\ apWritten \in Seq(PtShown)
      /\ apLost \in Nat
  BY DEF PtInv
<1>2. apRest' = out /\ apOut' = apOut \o out
  BY DEF ApPrint
<1>3. apOut' \in Seq(PtShown) /\ Len(apOut') = Len(apOut) + Len(out)
  BY <1>1, <1>2, ConcatProperties
<1>4. Len(apWritten) + apLost + Len(apBuf) = Len(apOut)
  BY <1>1 DEF PtInv
<1>5. apLost = 0 => apWritten \o apBuf = apOut
  <2>1. apWritten \o apBuf \in Seq(PtShown)
    BY <1>1, ConcatProperties
  <2>2. (apWritten \o apBuf) \o <<>> = apWritten \o apBuf
    BY <2>1, ConcatEmptySeq
  <2> QED
    BY <2>2 DEF PtInv
<1>6. apLost' = 0 => (apWritten' \o apBuf') \o apRest' = apOut'
  BY <1>2, <1>5
<1>7. Len(apWritten') + apLost' + Len(apBuf') + Len(apRest') = Len(apOut')
  BY <1>1, <1>2, <1>3, <1>4
<1> QED
  BY <1>1, <1>2, <1>3, <1>6, <1>7 DEF PtInv

\* A letter of a conversion leaves its width -1 or a number.
LEMMA ConversionKept ==
  ASSUME PtInv, alt_log_private_printf
  PROVE  pt' \in [mode : {"chars", "first", "other"}, zero : BOOLEAN, before : Nat \cup {-1},
                  after : Nat \cup {-1}, spec : Seq(PtFormat)]
<1> DEFINE State == [mode : {"chars", "first", "other"}, zero : BOOLEAN, before : Nat \cup {-1},
                     after : Nat \cup {-1}, spec : Seq(PtFormat)]
<1>1. pt \in State
  BY DEF PtInv
<1>2. PtBegin \in State
  BY DEF PtBegin
<1>3. PICK c \in PtFormat :
        CASE pt.mode = "chars" -> PtChars(c)
          [] pt.mode = "first" -> PtFirst(c)
          [] pt.mode = "other" -> PtOther(c)
  BY DEF alt_log_private_printf
<1>4. Append(pt.spec, c) \in Seq(PtFormat)
  BY <1>1
<1>5. CASE PtChars(c)
  <2>1. \/ pt' = PtBegin
        \/ pt' = [mode |-> "first", zero |-> FALSE, before |-> -1, after |-> -1, spec |-> <<c>>]
    BY <1>5 DEF PtChars, PtBegin
  <2>2. <<c>> \in Seq(PtFormat)
    BY <1>3
  <2>3. [mode |-> "first", zero |-> FALSE, before |-> -1, after |-> -1, spec |-> <<c>>] \in State
    BY <2>2
  <2>4. PtBegin \in State
    BY <1>2
  <2>5. pt' \in State
    <3> HIDE DEF State
    <3> QED
      BY <2>1, <2>3, <2>4
  <2> QED
    BY <2>5
<1>6. ASSUME PtOther(c)
      PROVE  pt' \in State
  <2>1. CASE c \in {"0", "2", "4", ".", "l"}
    <3> DEFINE after == IF c = "." THEN 0
                        ELSE IF c = "l" \/ pt.after < 0 THEN pt.after ELSE pt.after * 10 + PtValue(c)
    <3> DEFINE before == IF c \in {".", "l"} \/ pt.after >= 0 THEN pt.before
                         ELSE (IF pt.before < 0 THEN 0 ELSE pt.before * 10) + PtValue(c)
    <3>1. pt' = [pt EXCEPT !.mode = "other", !.spec = Append(@, c), !.after = after, !.before = before]
      BY <1>6, <2>1 DEF PtOther, PtMore
    <3>2. c \in {"0", "2", "4"} => PtValue(c) \in Nat
      BY DEF PtValue
    <3>3. after \in Nat \cup {-1} /\ before \in Nat \cup {-1}
      BY <1>1, <2>1, <3>2
    <3> HIDE DEF after, before
    <3> QED
      BY <1>1, <1>4, <3>1, <3>3
  <2>2. CASE c \notin {"0", "2", "4", ".", "l"}
    <3>1. pt' = [pt EXCEPT !.mode = "chars", !.spec = Append(@, c)]
      BY <1>6, <2>2 DEF PtOther, PtConvert
    <3> QED
      BY <1>1, <1>4, <3>1
  <2> QED
    BY <2>1, <2>2
<1>7. CASE PtFirst(c)
  <2>1. CASE c = "0"
    <3>1. pt' = [pt EXCEPT !.zero = TRUE, !.mode = "other", !.spec = Append(@, c)]
      BY <1>7, <2>1 DEF PtFirst
    <3> QED
      BY <1>1, <1>4, <3>1
  <2>2. CASE c = "%"
    BY <1>2, <1>7, <2>2 DEF PtFirst
  <2>3. CASE c # "0" /\ c # "%"
    BY <1>6, <1>7, <2>3 DEF PtFirst
  <2> QED
    BY <2>1, <2>2, <2>3
<1> QED
  BY <1>1, <1>3, <1>5, <1>6, <1>7

\* The formatters start so, and every character of a format keeps it.
LEMMA PtStarts == PtInit => PtInv
<1> SUFFICES ASSUME PtInit
             PROVE  PtInv
  OBVIOUS
<1>1. <<>> \in Seq(PtShown) /\ <<>> \o <<>> = <<>> /\ Len(<<>>) = 0
  BY ConcatEmptySeq
<1>2. PtBufSize \in Nat \ {0}
  BY PtAssumption
<1> QED
  BY <1>1, <1>2 DEF PtInit, PtInv, PtBegin

LEMMA PtKept == PtInv /\ [PtNext]_ptVars => PtInv'
<1> SUFFICES ASSUME PtInv, [PtNext]_ptVars
             PROVE  PtInv'
  OBVIOUS
<1>1. CASE UNCHANGED ptVars
  BY <1>1 DEF ptVars, apVars, PtInv
<1>2. CASE alt_log_private_printf
  <2>1. UNCHANGED apVars
    BY <1>2 DEF alt_log_private_printf
  <2> QED
    BY <1>2, <2>1, ConversionKept DEF PtInv, apVars
<1>3. CASE alt_putcharbuf
  BY <1>3, PutKept
<1>4. CASE ApChar
  <2>1. PICK c \in {"%", "a"} :
          IF c = "%" THEN ap' = "format" /\ UNCHANGED <<apRest, apOut>>
          ELSE ap' = ap /\ ApPrint(<<PtText(c)>>)
    BY <1>4 DEF ApChar
  <2>2. ap = "chars" /\ apRest = <<>> /\ UNCHANGED <<pt, apBuf, apWritten, apLost>>
    BY <1>4 DEF ApChar
  <2>3. CASE c = "%"
    BY <2>1, <2>2, <2>3 DEF PtInv
  <2>4. CASE c # "%"
    BY <2>1, <2>2, <2>4, PrintKept, ShownTexts
  <2> QED
    BY <2>3, <2>4
<1>5. CASE ApFormat
  <2>1. /\ ap = "format" /\ ap' = "chars" /\ UNCHANGED <<pt, apBuf, apWritten, apLost>>
        /\ apRest = <<>>
    BY <1>5 DEF ApFormat, PtInv
  <2>2. \/ \E out \in Seq(PtShown) : ApPrint(out)
        \/ UNCHANGED <<apRest, apOut>>
    BY <1>5, ShownTexts DEF ApFormat
  <2>3. CASE UNCHANGED <<apRest, apOut>>
    BY <2>1, <2>3 DEF PtInv
  <2>4. CASE \E out \in Seq(PtShown) : ApPrint(out)
    BY <2>1, <2>4, PrintKept
  <2> QED
    BY <2>2, <2>3, <2>4
<1>6. CASE ApEnd
  <2>1. /\ ap' = "done" /\ apRest = <<>> /\ apRest' = <<>> /\ apOut' = apOut /\ pt' = pt
        /\ alt_putbufflush(apBuf)
    BY <1>6 DEF ApEnd
  <2>2. /\ apOut \in Seq(PtShown) /\ apBuf \in Seq(PtShown) /\ apWritten \in Seq(PtShown)
        /\ apLost \in Nat
    BY DEF PtInv
  <2>3. /\ apBuf' = <<>> /\ apWritten' \in Seq(PtShown) /\ apLost' \in Nat
        /\ Len(apWritten') + apLost' = Len(apWritten) + apLost + Len(apBuf)
        /\ apLost' = 0 => apLost = 0 /\ apWritten' = apWritten \o apBuf
    BY <2>1, <2>2, FlushKept
  <2>4. /\ <<>> \in Seq(PtShown) /\ Len(<<>>) = 0 /\ PtBufSize \in Nat \ {0}
        /\ \A x \in Seq(PtShown) : x \o <<>> = x
    BY ConcatEmptySeq, PtAssumption
  <2>5. Len(apWritten') + apLost' + Len(apBuf') + Len(apRest') = Len(apOut')
    BY <2>1, <2>2, <2>3, <2>4 DEF PtInv
  <2>6. apLost' = 0 => (apWritten' \o apBuf') \o apRest' = apOut'
    <3>1. apLost = 0 => apWritten \o apBuf = apOut
      <4>1. apWritten \o apBuf \in Seq(PtShown)
        BY <2>2, ConcatProperties
      <4> QED
        BY <4>1, <2>1, <2>4 DEF PtInv
    <3>2. (apWritten' \o apBuf') \o apRest' = apWritten'
      BY <2>1, <2>3, <2>4
    <3> QED
      BY <3>1, <3>2, <2>1, <2>3
  <2> QED
    BY <2>1, <2>2, <2>3, <2>4, <2>5, <2>6 DEF PtInv
<1>7. CASE ApCall
  <2>1. /\ ap' = "chars" /\ apOut' = <<>> /\ apWritten' = <<>> /\ apBuf' = <<>> /\ apRest' = <<>>
        /\ apLost' = 0 /\ pt' = pt
    BY <1>7 DEF ApCall, PtInv
  <2>2. <<>> \in Seq(PtShown) /\ <<>> \o <<>> = <<>> /\ Len(<<>>) = 0 /\ PtBufSize \in Nat \ {0}
    BY ConcatEmptySeq, PtAssumption
  <2> QED
    BY <2>1, <2>2 DEF PtInv
<1> QED
  BY <1>1, <1>2, <1>3, <1>4, <1>5, <1>6, <1>7 DEF PtNext

LEMMA PtMeans ==
  ASSUME PtInv
  PROVE  PtTypeOK /\ NothingLeftInBuffer
<1>1. ASSUME ap = "done"
      PROVE  /\ apBuf = <<>> /\ Len(apWritten) + apLost = Len(apOut)
             /\ apLost = 0 => apWritten = apOut
  <2>1. apBuf = <<>> /\ apRest = <<>> /\ apWritten \in Seq(PtShown) /\ apLost \in Nat
    BY <1>1 DEF PtInv
  <2>2. (apWritten \o apBuf) \o apRest = apWritten /\ Len(<<>>) = 0
    BY <2>1, ConcatEmptySeq
  <2> QED
    BY <2>1, <2>2 DEF PtInv
<1> QED
  BY <1>1 DEF PtInv, PtTypeOK, NothingLeftInBuffer

\* The formatters' fields and what the conversions ask for, together.
PrintInv == PtInv /\ AskedInv

\* It holds at first.
LEMMA PrintStarts == PtInit => PrintInv
BY PtStarts, AskedStarts DEF PrintInv

\* A step keeps it.
LEMMA PrintsOn == PrintInv /\ [PtNext]_ptVars => PrintInv'
<1> SUFFICES ASSUME PrintInv, [PtNext]_ptVars
             PROVE  PrintInv'
  OBVIOUS
<1>1. pt = [mode |-> pt.mode, zero |-> pt.zero, before |-> pt.before, after |-> pt.after,
            spec |-> pt.spec]
  BY DEF PrintInv, PtInv
<1> QED
  BY <1>1, PtKept, AskedKept DEF PrintInv

\* alt_printf's %x prints the shortest form of every word of the runs.
LEMMA ShortestHex == HexShortest
<1>1. \A v \in PtArgs : v \in 0 .. PtWord - 1
  BY PtAssumption
<1> QED
  BY <1>1, HexIsDigits DEF HexShortest

\* It says what the board promises of the formatters.
LEMMA PrintMeans == PrintInv => ConversionsExact /\ NothingLeftInBuffer /\ HexShortest
BY PtMeans, ShortestHex DEF PrintInv, AskedInv


\* At the end of every alt_printf nothing waits in the buffer and every character has been
\* given to write once; what the standard output did not take is all that is lost, and if it
\* took everything it has the text whole, whatever the buffer's size (alt_printf.c,
\* alt_putcharbuf.c).
THEOREM PrintfIsWhole == PtSpec => []NothingLeftInBuffer
<1> QED
  BY PtStarts, PtKept, PtMeans, PTL DEF PtSpec

\* Every conversion of a format, of any number of characters, prints the number it was given
\* in the width and with the filling asked for, and %x of the other formatter the same digits
\* (alt_log_printf.c, alt_printf.c), in words of up to 8 digits to the base 16.
THEOREM NumbersAreExact == PtSpec => [](ConversionsExact /\ HexShortest)
<1> QED
  BY PrintStarts, PrintsOn, PrintMeans, PTL DEF PtSpec

-----------------------------------------------------------------------------
(* The profile (alt_mcount.S, alt_gmon.c).                                 *)

PfArc   == [from : PfCallers, count : Nat]
PfEntry == [self : PfFns, arcs : Seq(PfArc)]
PfAt    == {"find", "count", "record", "off"}
PfFrame == [self : PfFns, from : PfCallers, interrupt : BOOLEAN, at : PfAt,
            fn : Nat, arc : Nat, count : Nat]

\* What the module says of its lists, of any lists g: the entries, the marks, the copies,
\* and the copies that a newer entry of their function hides.
ArcsOf(g)  == UNION {{i} \X DOMAIN g[i].arcs : i \in DOMAIN g}
MarksOf(g) == UNION {{e} \X (1 .. g[e[1]].arcs[e[2]].count) : e \in ArcsOf(g)}
FnsOf(g, s) == {i \in DOMAIN g : g[i].self = s}
CopiesOf(g, s, p) == {e \in ArcsOf(g) : g[e[1]].self = s /\ g[e[1]].arcs[e[2]].from = p}
HiddenOf(g, s, p) == {e \in CopiesOf(g, s, p) : \E j \in FnsOf(g, s) : e[1] < j}

\* The lists h are g with a new arc (s, p), counted once, at the place e.
Entered(g, h, s, p, e) ==
  /\ h \in Seq(PfEntry) /\ e \in Nat \X Nat
  /\ ArcsOf(h) = ArcsOf(g) \cup {e} /\ e \notin ArcsOf(g)
  /\ \A x \in ArcsOf(g) : /\ h[x[1]].self = g[x[1]].self
                          /\ h[x[1]].arcs[x[2]] = g[x[1]].arcs[x[2]]
  /\ h[e[1]].self = s /\ h[e[1]].arcs[e[2]] = [from |-> p, count |-> 1]
  /\ \A i \in DOMAIN g : /\ i \in DOMAIN h /\ h[i].self = g[i].self
                         /\ DOMAIN g[i].arcs \subseteq DOMAIN h[i].arcs
  /\ \A i \in DOMAIN h \ DOMAIN g : i = e[1] /\ \A j \in DOMAIN g : j < i

\* Records of these sets have their fields and nothing else.
LEMMA PfRecords ==
  /\ \A a \in PfArc : a.from \in PfCallers /\ a.count \in Nat
  /\ \A n \in PfEntry : n.self \in PfFns /\ n.arcs \in Seq(PfArc)
  /\ \A s \in PfFns, q \in Seq(PfArc) : [self |-> s, arcs |-> q] \in PfEntry
  /\ \A p \in PfCallers, c \in Nat : [from |-> p, count |-> c] \in PfArc
  BY DEF PfArc, PfEntry

\* Changing a field of a function's entry, or of an arc, leaves the other.
LEMMA PfChanges ==
  /\ \A n \in PfEntry : \A q : [n EXCEPT !.arcs = q] = [self |-> n.self, arcs |-> q]
  /\ \A a \in PfArc : \A c : [a EXCEPT !.count = c] = [from |-> a.from, count |-> c]
  BY DEF PfArc, PfEntry

\* An entry of the lists is a pair of places.
LEMMA ArcPlaces ==
  ASSUME NEW g, NEW e
  PROVE  e \in ArcsOf(g) <=> \E i \in DOMAIN g : \E k \in DOMAIN g[i].arcs : e = <<i, k>>
  BY DEF ArcsOf

\* A new function's entry is added behind the others, with one arc.
LEMMA EnteredFn ==
  ASSUME NEW g \in Seq(PfEntry), NEW s \in PfFns, NEW p \in PfCallers
  PROVE  Entered(g, Append(g, [self |-> s, arcs |-> <<[from |-> p, count |-> 1]>>]), s, p,
                 <<Len(g) + 1, 1>>)
<1> DEFINE a == [from |-> p, count |-> 1]
<1> DEFINE n == [self |-> s, arcs |-> <<a>>]
<1> DEFINE h == Append(g, n)
<1> DEFINE e == <<Len(g) + 1, 1>>
<1>1. a \in PfArc /\ <<a>> \in Seq(PfArc) /\ n \in PfEntry
  <2>1. a \in PfArc
    BY PfRecords
  <2>2. <<a>> \in Seq(PfArc)
    BY <2>1
  <2> QED
    BY <2>1, <2>2, PfRecords
<1>2. n.self = s /\ n.arcs = <<a>> /\ DOMAIN <<a>> = {1} /\ <<a>>[1] = a
  OBVIOUS
<1> HIDE DEF a, n
<1>3. /\ h \in Seq(PfEntry) /\ Len(g) \in Nat /\ DOMAIN g = 1 .. Len(g)
      /\ DOMAIN h = 1 .. Len(g) + 1 /\ h[Len(g) + 1] = n /\ \A i \in DOMAIN g : h[i] = g[i]
  BY <1>1
<1> HIDE DEF h
<1>4. ArcsOf(h) = ArcsOf(g) \cup {e}
  <2>1. ASSUME NEW x \in ArcsOf(h)
        PROVE  x \in ArcsOf(g) \cup {e}
    <3>1. PICK i, k : i \in DOMAIN h /\ k \in DOMAIN h[i].arcs /\ x = <<i, k>>
      BY <2>1, ArcPlaces
    <3>2. CASE i \in DOMAIN g
      BY <3>1, <3>2, <1>3, ArcPlaces
    <3>3. CASE i = Len(g) + 1
      BY <3>1, <3>3, <1>3, <1>2
    <3>4. i \in DOMAIN g \/ i = Len(g) + 1
      BY <3>1, <1>3
    <3> QED
      BY <3>2, <3>3, <3>4
  <2>2. ASSUME NEW x \in ArcsOf(g)
        PROVE  x \in ArcsOf(h)
    <3>1. PICK i, k : i \in DOMAIN g /\ k \in DOMAIN g[i].arcs /\ x = <<i, k>>
      BY <2>2, ArcPlaces
    <3> QED
      BY <3>1, <1>3, ArcPlaces
  <2>3. e \in ArcsOf(h)
    BY <1>2, <1>3, ArcPlaces
  <2> QED
    BY <2>1, <2>2, <2>3
<1>5. e \notin ArcsOf(g)
  BY <1>3, ArcPlaces
<1>6. \A x \in ArcsOf(g) : x[1] \in DOMAIN g
  BY ArcPlaces
<1>7. e \in Nat \X Nat
  BY <1>3
<1> QED
  BY <1>2, <1>3, <1>4, <1>5, <1>6, <1>7 DEF Entered, a, n, h

\* A new arc is added behind the others of its function.
LEMMA EnteredArc ==
  ASSUME NEW g \in Seq(PfEntry), NEW i \in DOMAIN g, NEW p \in PfCallers
  PROVE  Entered(g, [g EXCEPT ![i].arcs = Append(@, [from |-> p, count |-> 1])], g[i].self, p,
                 <<i, Len(g[i].arcs) + 1>>)
<1> DEFINE a == [from |-> p, count |-> 1]
<1> DEFINE n == [self |-> g[i].self, arcs |-> Append(g[i].arcs, a)]
<1> DEFINE h == [g EXCEPT ![i].arcs = Append(@, a)]
<1> DEFINE e == <<i, Len(g[i].arcs) + 1>>
<1>1. a \in PfArc /\ g[i] \in PfEntry /\ g[i].self \in PfFns /\ g[i].arcs \in Seq(PfArc)
  BY PfRecords
<1>2. /\ n \in PfEntry /\ n.self = g[i].self /\ n.arcs = Append(g[i].arcs, a)
  <2>1. Append(g[i].arcs, a) \in Seq(PfArc)
    BY <1>1
  <2> QED
    BY <1>1, <2>1, PfRecords
<1>3. h = [g EXCEPT ![i] = n]
  <2>1. [g[i] EXCEPT !.arcs = Append(g[i].arcs, a)] = n
    BY <1>1, PfChanges
  <2> QED
    BY <2>1
<1> HIDE DEF a, n, h
<1>4. /\ h \in Seq(PfEntry) /\ DOMAIN h = DOMAIN g /\ h[i] = n
      /\ \A j \in DOMAIN g : j # i => h[j] = g[j]
  BY <1>2, <1>3, Z3
<1>5. /\ DOMAIN n.arcs = DOMAIN g[i].arcs \cup {Len(g[i].arcs) + 1}
      /\ \A k \in DOMAIN g[i].arcs : n.arcs[k] = g[i].arcs[k]
      /\ n.arcs[Len(g[i].arcs) + 1] = a
      /\ Len(g[i].arcs) + 1 \notin DOMAIN g[i].arcs /\ Len(g[i].arcs) + 1 \in Nat /\ i \in Nat
  BY <1>1, <1>2
<1>6. ArcsOf(h) = ArcsOf(g) \cup {e}
  <2>1. ASSUME NEW x \in ArcsOf(h)
        PROVE  x \in ArcsOf(g) \cup {e}
    <3>1. PICK j, k : j \in DOMAIN h /\ k \in DOMAIN h[j].arcs /\ x = <<j, k>>
      BY <2>1, ArcPlaces
    <3>2. CASE j # i
      BY <3>1, <3>2, <1>4, ArcPlaces
    <3>3. CASE j = i
      BY <3>1, <3>3, <1>4, <1>5, ArcPlaces
    <3> QED
      BY <3>2, <3>3
  <2>2. ASSUME NEW x \in ArcsOf(g)
        PROVE  x \in ArcsOf(h)
    <3>1. PICK j, k : j \in DOMAIN g /\ k \in DOMAIN g[j].arcs /\ x = <<j, k>>
      BY <2>2, ArcPlaces
    <3>2. j \in DOMAIN h /\ k \in DOMAIN h[j].arcs
      BY <3>1, <1>4, <1>5
    <3> QED
      BY <3>1, <3>2, ArcPlaces
  <2>3. e \in ArcsOf(h)
    BY <1>4, <1>5, ArcPlaces
  <2> QED
    BY <2>1, <2>2, <2>3
<1>7. e \notin ArcsOf(g)
  BY <1>5, ArcPlaces
<1>8. \A x \in ArcsOf(g) : /\ h[x[1]].self = g[x[1]].self
                           /\ h[x[1]].arcs[x[2]] = g[x[1]].arcs[x[2]]
  <2> SUFFICES ASSUME NEW x \in ArcsOf(g)
               PROVE  h[x[1]].self = g[x[1]].self /\ h[x[1]].arcs[x[2]] = g[x[1]].arcs[x[2]]
    OBVIOUS
  <2>1. PICK j, k : j \in DOMAIN g /\ k \in DOMAIN g[j].arcs /\ x = <<j, k>>
    BY ArcPlaces
  <2>2. x[1] = j /\ x[2] = k
    BY <2>1
  <2> QED
    BY <2>1, <2>2, <1>2, <1>4, <1>5
<1>9. \A j \in DOMAIN g : /\ j \in DOMAIN h /\ h[j].self = g[j].self
                          /\ DOMAIN g[j].arcs \subseteq DOMAIN h[j].arcs
  BY <1>2, <1>4, <1>5
<1>10. h[e[1]].self = g[i].self /\ h[e[1]].arcs[e[2]] = a
  BY <1>2, <1>4, <1>5
<1>11. e \in Nat \X Nat
  BY <1>5
<1> QED
  BY <1>4, <1>6, <1>7, <1>8, <1>9, <1>10, <1>11 DEF Entered, a, h

\* The calls of an entry are as many as its count.
LEMMA CellSize ==
  ASSUME NEW e, NEW n \in Nat
  PROVE  IsFiniteSet({e} \X (1 .. n)) /\ Cardinality({e} \X (1 .. n)) = n
<1>1. IsFiniteSet({e}) /\ Cardinality({e}) = 1
  BY FS_Singleton
<1>2. IsFiniteSet(1 .. n) /\ Cardinality(1 .. n) = n
  BY FS_Interval
<1>3. /\ IsFiniteSet({e} \X (1 .. n))
      /\ Cardinality({e} \X (1 .. n)) = Cardinality({e}) * Cardinality(1 .. n)
  BY <1>1, <1>2, FS_Product
<1> QED
  BY <1>1, <1>2, <1>3

\* The marks of lists are those of each entry.
LEMMA MarkPlaces ==
  ASSUME NEW g, NEW m
  PROVE  m \in MarksOf(g)
         <=> \E e \in ArcsOf(g) : \E n \in 1 .. g[e[1]].arcs[e[2]].count : m = <<e, n>>
  BY DEF MarksOf

\* A new arc adds one mark.
LEMMA EnteredMarks ==
  ASSUME NEW g \in Seq(PfEntry), NEW h, NEW s, NEW p, NEW e, Entered(g, h, s, p, e),
         IsFiniteSet(MarksOf(g))
  PROVE  /\ IsFiniteSet(MarksOf(h))
         /\ Cardinality(MarksOf(h)) = Cardinality(MarksOf(g)) + 1
<1>1. \A x \in ArcsOf(g) : h[x[1]].arcs[x[2]] = g[x[1]].arcs[x[2]]
  BY DEF Entered
<1>2. ArcsOf(h) = ArcsOf(g) \cup {e} /\ e \notin ArcsOf(g)
  BY DEF Entered
<1>3. 1 .. h[e[1]].arcs[e[2]].count = {1}
  BY DEF Entered
<1>4. MarksOf(h) = MarksOf(g) \cup {<<e, 1>>}
  <2>1. ASSUME NEW m \in MarksOf(h)
        PROVE  m \in MarksOf(g) \cup {<<e, 1>>}
    <3>1. PICK x, n : x \in ArcsOf(h) /\ n \in 1 .. h[x[1]].arcs[x[2]].count /\ m = <<x, n>>
      BY <2>1, MarkPlaces
    <3>2. CASE x = e
      BY <3>1, <3>2, <1>3
    <3>3. CASE x \in ArcsOf(g)
      <4>1. n \in 1 .. g[x[1]].arcs[x[2]].count
        BY <3>1, <3>3, <1>1
      <4> QED
        BY <4>1, <3>1, <3>3, MarkPlaces
    <3> QED
      BY <3>1, <3>2, <3>3, <1>2
  <2>2. ASSUME NEW m \in MarksOf(g)
        PROVE  m \in MarksOf(h)
    <3>1. PICK x, n : x \in ArcsOf(g) /\ n \in 1 .. g[x[1]].arcs[x[2]].count /\ m = <<x, n>>
      BY <2>2, MarkPlaces
    <3>2. x \in ArcsOf(h) /\ n \in 1 .. h[x[1]].arcs[x[2]].count
      BY <3>1, <1>1, <1>2
    <3> QED
      BY <3>1, <3>2, MarkPlaces
  <2>3. <<e, 1>> \in MarksOf(h)
    <3>1. e \in ArcsOf(h) /\ 1 \in 1 .. h[e[1]].arcs[e[2]].count
      BY <1>2, <1>3
    <3> QED
      BY <3>1, MarkPlaces
  <2> QED
    BY <2>1, <2>2, <2>3
<1>5. <<e, 1>> \notin MarksOf(g)
  BY <1>2, MarkPlaces
<1> QED
  BY <1>4, <1>5, FS_AddElement

\* A new arc is one more copy of its pair, and of no other.
LEMMA EnteredCopies ==
  ASSUME NEW g \in Seq(PfEntry), NEW h, NEW s, NEW p, NEW e, Entered(g, h, s, p, e),
         IsFiniteSet(ArcsOf(g))
  PROVE  /\ IsFiniteSet(ArcsOf(h))
         /\ \A t, q : CopiesOf(h, t, q) =
               IF t = s /\ q = p THEN CopiesOf(g, t, q) \cup {e} ELSE CopiesOf(g, t, q)
         /\ \A t, q : IsFiniteSet(CopiesOf(g, t, q)) /\ Cardinality(CopiesOf(g, t, q)) \in Nat
         /\ \A t, q : Cardinality(CopiesOf(h, t, q)) =
               IF t = s /\ q = p THEN Cardinality(CopiesOf(g, t, q)) + 1
               ELSE Cardinality(CopiesOf(g, t, q))
<1>1. ArcsOf(h) = ArcsOf(g) \cup {e} /\ e \notin ArcsOf(g)
  BY DEF Entered
<1>2. IsFiniteSet(ArcsOf(h))
  BY <1>1, FS_AddElement
<1>3. ASSUME NEW t, NEW q
      PROVE  CopiesOf(h, t, q) =
               IF t = s /\ q = p THEN CopiesOf(g, t, q) \cup {e} ELSE CopiesOf(g, t, q)
  <2>1. \A x \in ArcsOf(g) : /\ h[x[1]].self = g[x[1]].self
                             /\ h[x[1]].arcs[x[2]] = g[x[1]].arcs[x[2]]
    BY DEF Entered
  <2>2. h[e[1]].self = s /\ h[e[1]].arcs[e[2]].from = p
    BY DEF Entered
  <2>3. \A x : x \in CopiesOf(h, t, q)
               <=> x \in CopiesOf(g, t, q) \/ (x = e /\ t = s /\ q = p)
    BY <1>1, <2>1, <2>2 DEF CopiesOf
  <2> QED
    BY <2>3
<1>4. ASSUME NEW t, NEW q
      PROVE  /\ IsFiniteSet(CopiesOf(g, t, q)) /\ Cardinality(CopiesOf(g, t, q)) \in Nat
             /\ e \notin CopiesOf(g, t, q)
  <2>1. CopiesOf(g, t, q) \in SUBSET ArcsOf(g)
    BY DEF CopiesOf
  <2> QED
    BY <1>1, <2>1, FS_Subset, FS_CardinalityType
<1>5. ASSUME NEW t, NEW q
      PROVE  Cardinality(CopiesOf(h, t, q)) =
               IF t = s /\ q = p THEN Cardinality(CopiesOf(g, t, q)) + 1
               ELSE Cardinality(CopiesOf(g, t, q))
  <2>1. CASE t = s /\ q = p
    <3>1. CopiesOf(h, t, q) = CopiesOf(g, t, q) \cup {e}
      BY <2>1, <1>3
    <3>2. Cardinality(CopiesOf(g, t, q) \cup {e}) = Cardinality(CopiesOf(g, t, q)) + 1
      BY <1>4, FS_AddElement
    <3> QED
      BY <2>1, <3>1, <3>2
  <2>2. CASE ~(t = s /\ q = p)
    BY <2>2, <1>3
  <2> QED
    BY <2>1, <2>2
<1> QED
  BY <1>2, <1>3, <1>4, <1>5

\* An arc under the newest entry of its function hides nothing ...
LEMMA EnteredUnderNewest ==
  ASSUME NEW g \in Seq(PfEntry), NEW h, NEW s, NEW p, NEW e, Entered(g, h, s, p, e),
         e[1] \in DOMAIN g, \A j \in FnsOf(g, s) : j <= e[1]
  PROVE  \A t, q : FnsOf(h, t) = FnsOf(g, t) /\ HiddenOf(h, t, q) = HiddenOf(g, t, q)
<1>1. /\ DOMAIN h = DOMAIN g /\ \A i \in DOMAIN g : h[i].self = g[i].self
  BY DEF Entered
<1>2. ASSUME NEW t
      PROVE  FnsOf(h, t) = FnsOf(g, t)
  BY <1>1 DEF FnsOf
<1>3. /\ ArcsOf(h) = ArcsOf(g) \cup {e} /\ h[e[1]].self = s
      /\ \A x \in ArcsOf(g) : /\ h[x[1]].self = g[x[1]].self
                              /\ h[x[1]].arcs[x[2]] = g[x[1]].arcs[x[2]]
  BY DEF Entered
<1>4. \A j \in FnsOf(g, s) : ~(e[1] < j)
  <2>1. FnsOf(g, s) \subseteq Int /\ e[1] \in Int
    BY DEF FnsOf
  <2> QED
    BY <2>1
<1>5. ASSUME NEW t, NEW q
      PROVE  HiddenOf(h, t, q) = HiddenOf(g, t, q)
  <2>1. \A x \in ArcsOf(g) : x \in CopiesOf(h, t, q) <=> x \in CopiesOf(g, t, q)
    BY <1>3 DEF CopiesOf
  <2>2. \A x \in CopiesOf(h, t, q) : x \in ArcsOf(g) \/ (x = e /\ t = s)
    BY <1>3 DEF CopiesOf
  <2>3. \A x \in CopiesOf(g, t, q) : x \in ArcsOf(g)
    BY DEF CopiesOf
  <2>4. \A x : x \in HiddenOf(h, t, q) <=> x \in HiddenOf(g, t, q)
    BY <1>2, <1>4, <2>1, <2>2, <2>3 DEF HiddenOf
  <2> QED
    BY <2>4
<1> QED
  BY <1>2, <1>5

\* ... and a new entry hides the older ones of its function.
LEMMA EnteredAsNewest ==
  ASSUME NEW g \in Seq(PfEntry), NEW h, NEW s, NEW p, NEW e, Entered(g, h, s, p, e),
         e[1] \notin DOMAIN g
  PROVE  /\ \A t, q : HiddenOf(h, t, q) \subseteq CopiesOf(g, t, q)
         /\ \A t, q : t # s => HiddenOf(h, t, q) = HiddenOf(g, t, q)
         /\ \A t : t # s => FnsOf(h, t) = FnsOf(g, t)
         /\ \A j \in FnsOf(h, s) : j <= e[1]
<1>1. /\ \A i \in DOMAIN g : i \in DOMAIN h /\ h[i].self = g[i].self
      /\ \A i \in DOMAIN h \ DOMAIN g : i = e[1] /\ \A j \in DOMAIN g : j < i
  BY DEF Entered
<1>2. /\ ArcsOf(h) = ArcsOf(g) \cup {e} /\ h[e[1]].self = s
      /\ \A x \in ArcsOf(g) : /\ h[x[1]].self = g[x[1]].self
                              /\ h[x[1]].arcs[x[2]] = g[x[1]].arcs[x[2]]
  BY DEF Entered
<1>3. e[1] \in DOMAIN h /\ e[1] \in Nat
  <2>1. PICK i, k : i \in DOMAIN h /\ k \in DOMAIN h[i].arcs /\ e = <<i, k>>
    BY <1>2, ArcPlaces
  <2>2. h \in Seq(PfEntry)
    BY DEF Entered
  <2> QED
    BY <2>1, <2>2
<1>4. \A j \in DOMAIN h : j <= e[1] /\ ~(e[1] < j)
  <2>1. DOMAIN g \subseteq Nat
    OBVIOUS
  <2>2. \A j \in DOMAIN g : j < e[1]
    BY <1>1, <1>3
  <2> QED
    BY <1>1, <1>3, <2>1, <2>2
<1>5. ASSUME NEW t, t # s
      PROVE  FnsOf(h, t) = FnsOf(g, t)
  BY <1>1, <1>2, <1>5 DEF FnsOf
<1>6. ASSUME NEW t, NEW q
      PROVE  HiddenOf(h, t, q) \subseteq CopiesOf(g, t, q)
  <2>1. ASSUME NEW x \in HiddenOf(h, t, q)
        PROVE  x \in CopiesOf(g, t, q)
    <3>1. x \in CopiesOf(h, t, q) /\ \E j \in DOMAIN h : x[1] < j
      BY <2>1 DEF HiddenOf, FnsOf
    <3>2. x # e
      BY <3>1, <1>4
    <3> QED
      BY <3>1, <3>2, <1>2 DEF CopiesOf
  <2> QED
    BY <2>1
<1>7. ASSUME NEW t, NEW q, t # s
      PROVE  HiddenOf(h, t, q) = HiddenOf(g, t, q)
  <2>1. CopiesOf(h, t, q) = CopiesOf(g, t, q)
    <3>1. \A x : x \in CopiesOf(h, t, q) <=> x \in CopiesOf(g, t, q)
      BY <1>2, <1>7 DEF CopiesOf
    <3> QED
      BY <3>1
  <2> QED
    BY <1>5, <1>7, <2>1 DEF HiddenOf
<1>8. \A j \in FnsOf(h, s) : j <= e[1]
  BY <1>4 DEF FnsOf
<1> QED
  BY <1>5, <1>6, <1>7, <1>8

Stored(g, i, k, c) == [g EXCEPT ![i].arcs[k].count = c]

\* A count that is stored moves no entry, and the marks change by what it changes.
LEMMA CountStored ==
  ASSUME NEW g \in Seq(PfEntry), NEW i \in DOMAIN g, NEW k \in DOMAIN g[i].arcs, NEW c \in Nat,
         IsFiniteSet(MarksOf(g)), NEW h, h = Stored(g, i, k, c)
  PROVE  /\ h \in Seq(PfEntry) /\ DOMAIN h = DOMAIN g
         /\ \A j \in DOMAIN g : h[j].self = g[j].self /\ DOMAIN h[j].arcs = DOMAIN g[j].arcs
         /\ ArcsOf(h) = ArcsOf(g)
         /\ \A t, q : /\ CopiesOf(h, t, q) = CopiesOf(g, t, q) /\ FnsOf(h, t) = FnsOf(g, t)
                      /\ HiddenOf(h, t, q) = HiddenOf(g, t, q)
         /\ IsFiniteSet(MarksOf(h))
         /\ g[i].arcs[k].count \in Nat
         /\ Cardinality(MarksOf(h)) = Cardinality(MarksOf(g)) - g[i].arcs[k].count + c
<1> DEFINE a == [from |-> g[i].arcs[k].from, count |-> c]
<1> DEFINE q == [g[i].arcs EXCEPT ![k] = a]
<1> DEFINE n == [self |-> g[i].self, arcs |-> q]
<1> DEFINE e == <<i, k>>
<1> DEFINE now == g[i].arcs[k].count
<1>1. /\ g[i] \in PfEntry /\ g[i].self \in PfFns /\ g[i].arcs \in Seq(PfArc)
      /\ g[i].arcs[k] \in PfArc /\ now \in Nat /\ a \in PfArc /\ i \in Nat /\ k \in Nat
  <2>1. g[i] \in PfEntry /\ i \in Nat
    OBVIOUS
  <2>2. g[i].self \in PfFns /\ g[i].arcs \in Seq(PfArc)
    BY <2>1, PfRecords
  <2>3. g[i].arcs[k] \in PfArc /\ k \in Nat
    BY <2>2
  <2> QED
    BY <2>1, <2>2, <2>3, PfRecords
<1>2. /\ a.from = g[i].arcs[k].from /\ a.count = c /\ n.self = g[i].self /\ n.arcs = q
  OBVIOUS
<1>3. h = [g EXCEPT ![i] = n]
  <2>1. [g[i].arcs[k] EXCEPT !.count = c] = a
    BY <1>1, PfChanges
  <2>2. [g[i] EXCEPT !.arcs = q] = n
    BY <1>1, PfChanges
  <2> QED
    BY <2>1, <2>2 DEF Stored
<1> HIDE DEF a
<1>4. q \in Seq(PfArc) /\ DOMAIN q = DOMAIN g[i].arcs /\ q[k] = a
      /\ \A j \in DOMAIN q : j # k => q[j] = g[i].arcs[j]
  BY <1>1
<1>5. n \in PfEntry
  BY <1>1, <1>4, PfRecords
<1> HIDE DEF q, n
<1>6. /\ h \in Seq(PfEntry) /\ DOMAIN h = DOMAIN g /\ h[i] = n
      /\ \A j \in DOMAIN g : j # i => h[j] = g[j]
  BY <1>3, <1>5, Z3
<1>7. \A j \in DOMAIN g : /\ h[j].self = g[j].self /\ DOMAIN h[j].arcs = DOMAIN g[j].arcs
                          /\ \A l \in DOMAIN g[j].arcs :
                               h[j].arcs[l] = IF j = i /\ l = k THEN a ELSE g[j].arcs[l]
  BY <1>2, <1>4, <1>6
<1>8. ArcsOf(h) = ArcsOf(g)
  <2>1. \A x : x \in ArcsOf(h) <=> x \in ArcsOf(g)
    BY <1>6, <1>7, ArcPlaces
  <2> QED
    BY <2>1
<1>9. \A x \in ArcsOf(g) : /\ h[x[1]].self = g[x[1]].self
                           /\ h[x[1]].arcs[x[2]] = IF x = e THEN a ELSE g[x[1]].arcs[x[2]]
  <2> SUFFICES ASSUME NEW x \in ArcsOf(g)
               PROVE  /\ h[x[1]].self = g[x[1]].self
                      /\ h[x[1]].arcs[x[2]] = IF x = e THEN a ELSE g[x[1]].arcs[x[2]]
    OBVIOUS
  <2>1. PICK j, l : j \in DOMAIN g /\ l \in DOMAIN g[j].arcs /\ x = <<j, l>>
    BY ArcPlaces
  <2>2. x[1] = j /\ x[2] = l /\ (x = e <=> j = i /\ l = k)
    BY <2>1
  <2> QED
    BY <2>1, <2>2, <1>7
<1>10. e \in ArcsOf(g) /\ e[1] = i /\ e[2] = k
  BY ArcPlaces
<1> HIDE DEF e
<1>11. \A t : FnsOf(h, t) = FnsOf(g, t)
  BY <1>6, <1>7 DEF FnsOf
<1>12. ASSUME NEW t, NEW p
       PROVE  CopiesOf(h, t, p) = CopiesOf(g, t, p)
  <2>1. \A x \in ArcsOf(g) : h[x[1]].arcs[x[2]].from = g[x[1]].arcs[x[2]].from
    BY <1>2, <1>9, <1>10
  <2>2. \A x : x \in CopiesOf(h, t, p) <=> x \in CopiesOf(g, t, p)
    BY <1>8, <1>9, <2>1 DEF CopiesOf
  <2> QED
    BY <2>2
<1>13. \A t, p : HiddenOf(h, t, p) = HiddenOf(g, t, p)
  BY <1>11, <1>12 DEF HiddenOf
<1> DEFINE old == {e} \X (1 .. now)
<1> DEFINE new == {e} \X (1 .. c)
<1>14. now = g[e[1]].arcs[e[2]].count /\ h[e[1]].arcs[e[2]].count = c
  BY <1>2, <1>9, <1>10
<1>15. MarksOf(h) = (MarksOf(g) \ old) \cup new
  <2>1. \A x \in ArcsOf(g) : x # e => h[x[1]].arcs[x[2]] = g[x[1]].arcs[x[2]]
    BY <1>9
  <2> HIDE DEF now
  <2>2. ASSUME NEW m \in MarksOf(h)
        PROVE  m \in (MarksOf(g) \ old) \cup new
    <3>1. PICK x, y : x \in ArcsOf(g) /\ y \in 1 .. h[x[1]].arcs[x[2]].count /\ m = <<x, y>>
      BY <1>8, <2>2, MarkPlaces
    <3>2. CASE x = e
      BY <3>1, <3>2, <1>14
    <3>3. CASE x # e
      <4>1. y \in 1 .. g[x[1]].arcs[x[2]].count
        BY <3>1, <3>3, <2>1
      <4>2. m \in MarksOf(g)
        BY <4>1, <3>1, MarkPlaces
      <4> QED
        BY <4>2, <3>1, <3>3
    <3> QED
      BY <3>2, <3>3
  <2>3. ASSUME NEW m \in MarksOf(g), m \notin old
        PROVE  m \in MarksOf(h)
    <3>1. PICK x, y : x \in ArcsOf(g) /\ y \in 1 .. g[x[1]].arcs[x[2]].count /\ m = <<x, y>>
      BY <2>3, MarkPlaces
    <3>2. x # e
      BY <3>1, <2>3, <1>14
    <3>3. y \in 1 .. h[x[1]].arcs[x[2]].count
      BY <3>1, <3>2, <2>1
    <3> QED
      BY <3>1, <3>3, <1>8, MarkPlaces
  <2>4. ASSUME NEW m \in new
        PROVE  m \in MarksOf(h)
    <3>1. PICK y \in 1 .. h[e[1]].arcs[e[2]].count : m = <<e, y>>
      BY <2>4, <1>14
    <3> QED
      BY <3>1, <1>8, <1>10, MarkPlaces
  <2> QED
    BY <2>2, <2>3, <2>4
<1>16. old \subseteq MarksOf(g) /\ (MarksOf(g) \ old) \cap new = {}
  <2>1. ASSUME NEW m \in old
        PROVE  m \in MarksOf(g)
    <3>1. PICK y \in 1 .. g[e[1]].arcs[e[2]].count : m = <<e, y>>
      BY <2>1, <1>14
    <3> QED
      BY <3>1, <1>10, MarkPlaces
  <2>2. ASSUME NEW m \in MarksOf(g), m \in new
        PROVE  m \in old
    <3>1. PICK x, y : x \in ArcsOf(g) /\ y \in 1 .. g[x[1]].arcs[x[2]].count /\ m = <<x, y>>
      BY <2>2, MarkPlaces
    <3>2. x = e
      BY <3>1, <2>2
    <3> QED
      BY <3>1, <3>2, <1>14
  <2> QED
    BY <2>1, <2>2
<1>17. /\ IsFiniteSet(old) /\ Cardinality(old) = now
       /\ IsFiniteSet(new) /\ Cardinality(new) = c
  <2>1. now \in Nat
    BY <1>1
  <2> HIDE DEF now
  <2> QED
    BY <2>1, CellSize
<1> HIDE DEF old, new, now
<1>18. /\ IsFiniteSet(MarksOf(g) \ old)
       /\ Cardinality(MarksOf(g) \ old) = Cardinality(MarksOf(g)) - Cardinality(old)
  <2>1. MarksOf(g) \cap old = old
    BY <1>16
  <2> QED
    BY <2>1, FS_Difference
<1>19. /\ IsFiniteSet(MarksOf(h))
       /\ Cardinality(MarksOf(h)) = Cardinality(MarksOf(g) \ old) + Cardinality(new) - Cardinality({})
  BY <1>15, <1>16, <1>17, <1>18, FS_Union
<1>20. Cardinality({}) = 0 /\ Cardinality(MarksOf(g)) \in Nat /\ now \in Nat
  BY <1>1, FS_EmptySet, FS_CardinalityType DEF now
<1>21. Cardinality(MarksOf(h)) = Cardinality(MarksOf(g)) - now + c
  BY <1>17, <1>18, <1>19, <1>20
<1> QED
  BY <1>6, <1>7, <1>8, <1>11, <1>12, <1>13, <1>19, <1>20, <1>21 DEF now

-----------------------------------------------------------------------------
(* The calls under way: at most the program's, and over it an interrupt's.   *)

Shaped(k) ==
  /\ k \in Seq(PfFrame) /\ Len(k) <= 2
  /\ Len(k) = 2 => ~k[1].interrupt /\ k[1].at # "off" /\ k[2].interrupt

Adds(f) == f.at \in {"record", "off"}

\* An interrupt may still enter (s, p); the program will; it will, and found no function s.
Entering(k, s, p) ==
  \E x \in DOMAIN k : k[x].interrupt /\ k[x].at # "count" /\ k[x].self = s /\ k[x].from = p
Recording(k, s, p) ==
  \E x \in DOMAIN k : ~k[x].interrupt /\ Adds(k[x]) /\ k[x].self = s /\ k[x].from = p
Unfound(k, s) ==
  \E x \in DOMAIN k : ~k[x].interrupt /\ Adds(k[x]) /\ k[x].self = s /\ k[x].fn = 0

TopOf(k)    == k[Len(k)]
MovedTo(k, f) == [k EXCEPT ![Len(k)] = f]
Ended(k)    == SubSeq(k, 1, Len(k) - 1)

\* The call on top is the interrupt's, or the only one.
LEMMA TopOfCalls ==
  ASSUME NEW k, Shaped(k), k # <<>>
  PROVE  /\ Len(k) \in 1 .. 2 /\ DOMAIN k = 1 .. Len(k) /\ k[Len(k)] \in PfFrame
         /\ Len(k) = 2 => k[Len(k)].interrupt /\ ~k[1].interrupt /\ k[1].at # "off"
<1>1. k \in Seq(PfFrame) /\ Len(k) <= 2 /\ Len(k) \in Nat
  BY DEF Shaped
<1>2. Len(k) # 0
  BY <1>1
<1>3. Len(k) \in 1 .. 2
  <2>1. \A x \in Nat : x <= 2 /\ x # 0 => x \in 1 .. 2
    OBVIOUS
  <2> QED
    BY <2>1, <1>1, <1>2
<1>4. DOMAIN k = 1 .. Len(k) /\ Len(k) \in DOMAIN k
  BY <1>1, <1>3
<1>5. k[Len(k)] \in PfFrame
  BY <1>1, <1>4
<1> QED
  BY <1>3, <1>4, <1>5 DEF Shaped

\* A call that begins enters nothing yet, and an interrupt comes over no other.
LEMMA CallBegins ==
  ASSUME NEW k, Shaped(k), NEW f \in PfFrame, f.at = "find",
         IF f.interrupt THEN Len(k) = 1 \/ Len(k) = 0 ELSE Len(k) = 0,
         k # <<>> => ~k[Len(k)].interrupt /\ k[Len(k)].at # "off"
  PROVE  LET h == Append(k, f)
         IN  /\ Shaped(h) /\ Len(h) = Len(k) + 1 /\ h[Len(h)] = f
             /\ \A x \in DOMAIN h : h[x] = f \/ (x \in DOMAIN k /\ h[x] = k[x])
             /\ \A s, p : /\ ~Entering(k, s, p)
                          /\ Entering(h, s, p) <=> f.interrupt /\ f.self = s /\ f.from = p
                          /\ Recording(h, s, p) <=> Recording(k, s, p)
             /\ \A s : Unfound(h, s) <=> Unfound(k, s)
<1> DEFINE h == Append(k, f)
<1>1. k \in Seq(PfFrame) /\ Len(k) \in 0 .. 1 /\ DOMAIN k = 1 .. Len(k)
  BY DEF Shaped
<1>2. \A x \in DOMAIN k : x = Len(k) /\ k # <<>>
  BY <1>1
<1>3. /\ h \in Seq(PfFrame) /\ Len(h) = Len(k) + 1 /\ h[Len(k) + 1] = f
      /\ DOMAIN h = DOMAIN k \cup {Len(k) + 1} /\ \A x \in DOMAIN k : h[x] = k[x]
  BY <1>1
<1> HIDE DEF h
<1>4. Shaped(h)
  <2>1. CASE Len(k) = 0
    BY <2>1, <1>3 DEF Shaped
  <2>2. CASE Len(k) = 1
    <3>1. h[1] = k[1] /\ h[2] = f /\ Len(h) = 2
      BY <2>2, <1>1, <1>3
    <3>2. f.interrupt /\ k # <<>>
      BY <2>2
    <3>3. ~k[1].interrupt /\ k[1].at # "off"
      BY <2>2, <3>2
    <3> QED
      BY <3>1, <3>2, <3>3, <2>2, <1>3 DEF Shaped
  <2> QED
    BY <2>1, <2>2, <1>1
<1>5. ASSUME NEW x \in DOMAIN h
      PROVE  h[x] = f \/ (x \in DOMAIN k /\ h[x] = k[x])
  <2>1. CASE x = Len(k) + 1
    BY <2>1, <1>3
  <2>2. CASE x \in DOMAIN k
    BY <2>2, <1>3
  <2> QED
    BY <2>1, <2>2, <1>3
<1>6. \A x \in DOMAIN k : x \in DOMAIN h /\ h[x] = k[x] /\ ~k[x].interrupt
  BY <1>2, <1>3
<1>7. Len(k) + 1 \in DOMAIN h /\ h[Len(k) + 1] = f /\ ~Adds(f) /\ f.at # "count"
  BY <1>3 DEF Adds
<1>8. ASSUME NEW s, NEW p
      PROVE  /\ ~Entering(k, s, p)
             /\ Entering(h, s, p) <=> f.interrupt /\ f.self = s /\ f.from = p
             /\ Recording(h, s, p) <=> Recording(k, s, p)
             /\ Unfound(h, s) <=> Unfound(k, s)
  <2>1. ~Entering(k, s, p)
    BY <1>6 DEF Entering
  <2>2. Entering(h, s, p) <=> f.interrupt /\ f.self = s /\ f.from = p
    BY <1>5, <1>6, <1>7 DEF Entering
  <2>3. Recording(h, s, p) <=> Recording(k, s, p)
    BY <1>5, <1>6, <1>7 DEF Recording
  <2>4. Unfound(h, s) <=> Unfound(k, s)
    BY <1>5, <1>6, <1>7 DEF Unfound
  <2> QED
    BY <2>1, <2>2, <2>3, <2>4
<1> QED
  BY <1>3, <1>4, <1>5, <1>8 DEF h

\* A step of the call on top leaves what an interrupted program was about to do.
LEMMA CallMoves ==
  ASSUME NEW k, Shaped(k), k # <<>>, NEW f \in PfFrame,
         NEW t, t = TopOf(k), NEW h, h = MovedTo(k, f),
         f.interrupt = t.interrupt, f.self = t.self, f.from = t.from
  PROVE  /\ Shaped(h) /\ Len(h) = Len(k)
         /\ \A x \in DOMAIN h : h[x] = f \/ (x \in DOMAIN k /\ h[x] = k[x])
         /\ t.interrupt => \A s, p :
              /\ Recording(h, s, p) <=> Recording(k, s, p)
              /\ Unfound(h, s) <=> Unfound(k, s)
              /\ Entering(k, s, p) <=> t.at # "count" /\ t.self = s /\ t.from = p
              /\ Entering(h, s, p) <=> f.at # "count" /\ t.self = s /\ t.from = p
         /\ ~t.interrupt => \A s, p :
              /\ ~Entering(k, s, p) /\ ~Entering(h, s, p)
              /\ Recording(k, s, p) <=> Adds(t) /\ t.self = s /\ t.from = p
              /\ Recording(h, s, p) <=> Adds(f) /\ t.self = s /\ t.from = p
              /\ Unfound(k, s) <=> Adds(t) /\ t.self = s /\ t.fn = 0
              /\ Unfound(h, s) <=> Adds(f) /\ t.self = s /\ f.fn = 0
<1> DEFINE n == Len(k)
<1>1. /\ n \in 1 .. 2 /\ DOMAIN k = 1 .. n /\ k \in Seq(PfFrame)
      /\ n = 2 => t.interrupt /\ ~k[1].interrupt /\ k[1].at # "off"
  BY TopOfCalls DEF Shaped, TopOf
<1>0. t = k[n] /\ h = [k EXCEPT ![n] = f]
  BY DEF TopOf, MovedTo
<1>2. /\ h \in Seq(PfFrame) /\ Len(h) = n /\ DOMAIN h = DOMAIN k /\ h[n] = f /\ n \in DOMAIN k
      /\ \A x \in DOMAIN k : x # n => h[x] = k[x] /\ x = 1 /\ n = 2
  BY <1>0, <1>1
<1>3. Shaped(h)
  BY <1>0, <1>1, <1>2 DEF Shaped
<1>4. ASSUME NEW x \in DOMAIN h
      PROVE  h[x] = f \/ (x \in DOMAIN k /\ h[x] = k[x])
  <2>1. CASE x = n
    BY <2>1, <1>2
  <2>2. CASE x # n
    BY <2>2, <1>2
  <2> QED
    BY <2>1, <2>2
<1>5. /\ f.interrupt = t.interrupt /\ f.self = t.self /\ f.from = t.from
      /\ t.interrupt \in BOOLEAN /\ f.interrupt \in BOOLEAN
  BY <1>0, <1>1, <1>2 DEF PfFrame
<1>6. \A x \in DOMAIN k : x # n => h[x] = k[x] /\ ~k[x].interrupt /\ t.interrupt
  BY <1>1, <1>2
<1>7. n \in DOMAIN k /\ n \in DOMAIN h /\ DOMAIN h = DOMAIN k /\ h[n] = f /\ k[n] = t
  BY <1>0, <1>2
<1> HIDE DEF n
<1>8. ASSUME t.interrupt, NEW s, NEW p
      PROVE  /\ Recording(h, s, p) <=> Recording(k, s, p)
             /\ Unfound(h, s) <=> Unfound(k, s)
             /\ Entering(k, s, p) <=> t.at # "count" /\ t.self = s /\ t.from = p
             /\ Entering(h, s, p) <=> f.at # "count" /\ t.self = s /\ t.from = p
  <2>1. Recording(h, s, p) <=> Recording(k, s, p)
    BY <1>5, <1>6, <1>7, <1>8 DEF Recording
  <2>2. Unfound(h, s) <=> Unfound(k, s)
    BY <1>5, <1>6, <1>7, <1>8 DEF Unfound
  <2>3. Entering(k, s, p) <=> t.at # "count" /\ t.self = s /\ t.from = p
    BY <1>5, <1>6, <1>7, <1>8 DEF Entering
  <2>4. Entering(h, s, p) <=> f.at # "count" /\ t.self = s /\ t.from = p
    BY <1>5, <1>6, <1>7, <1>8 DEF Entering
  <2> QED
    BY <2>1, <2>2, <2>3, <2>4
<1>9. ASSUME ~t.interrupt, NEW s, NEW p
      PROVE  /\ ~Entering(k, s, p) /\ ~Entering(h, s, p)
             /\ Recording(k, s, p) <=> Adds(t) /\ t.self = s /\ t.from = p
             /\ Recording(h, s, p) <=> Adds(f) /\ t.self = s /\ t.from = p
             /\ Unfound(k, s) <=> Adds(t) /\ t.self = s /\ t.fn = 0
             /\ Unfound(h, s) <=> Adds(f) /\ t.self = s /\ f.fn = 0
  <2>1. \A x \in DOMAIN k : x = n
    BY <1>6, <1>9
  <2>2. ~Entering(k, s, p) /\ ~Entering(h, s, p)
    BY <1>5, <1>7, <1>9, <2>1 DEF Entering
  <2>3. Recording(k, s, p) <=> Adds(t) /\ t.self = s /\ t.from = p
    BY <1>7, <1>9, <2>1 DEF Recording
  <2>4. Recording(h, s, p) <=> Adds(f) /\ t.self = s /\ t.from = p
    BY <1>5, <1>7, <1>9, <2>1 DEF Recording
  <2>5. Unfound(k, s) <=> Adds(t) /\ t.self = s /\ t.fn = 0
    BY <1>7, <1>9, <2>1 DEF Unfound
  <2>6. Unfound(h, s) <=> Adds(f) /\ t.self = s /\ f.fn = 0
    BY <1>5, <1>7, <1>9, <2>1 DEF Unfound
  <2> QED
    BY <2>2, <2>3, <2>4, <2>5, <2>6
<1> QED
  BY <1>2, <1>3, <1>4, <1>8, <1>9 DEF n

\* A call that ends leaves the one below as it was.
LEMMA CallEnds ==
  ASSUME NEW k, Shaped(k), k # <<>>, NEW t, t = TopOf(k), NEW h, h = Ended(k)
  PROVE  /\ Shaped(h) /\ Len(h) = Len(k) - 1
         /\ \A x \in DOMAIN h : /\ x \in DOMAIN k /\ h[x] = k[x] /\ t.interrupt
                                /\ ~k[x].interrupt /\ k[x].at # "off"
         /\ t.interrupt => \A s, p :
              /\ Recording(h, s, p) <=> Recording(k, s, p)
              /\ Unfound(h, s) <=> Unfound(k, s)
              /\ Entering(k, s, p) <=> t.at # "count" /\ t.self = s /\ t.from = p
              /\ ~Entering(h, s, p)
         /\ ~t.interrupt => \A s, p :
              /\ ~Entering(k, s, p) /\ ~Entering(h, s, p)
              /\ Recording(k, s, p) <=> Adds(t) /\ t.self = s /\ t.from = p
              /\ Unfound(k, s) <=> Adds(t) /\ t.self = s /\ t.fn = 0
              /\ ~Recording(h, s, p) /\ ~Unfound(h, s)
<1> DEFINE n == Len(k)
<1>1. /\ n \in 1 .. 2 /\ DOMAIN k = 1 .. n /\ k \in Seq(PfFrame)
      /\ n = 2 => t.interrupt /\ ~k[1].interrupt /\ k[1].at # "off"
  BY TopOfCalls DEF Shaped, TopOf
<1>2. t.interrupt \in BOOLEAN
  BY TopOfCalls DEF PfFrame, TopOf
<1>3. /\ h \in Seq(PfFrame) /\ Len(h) = n - 1 /\ DOMAIN h = 1 .. n - 1
      /\ \A x \in 1 .. n - 1 : h[x] = k[x]
  <2>1. n - 1 \in Int /\ \A x \in 1 .. n - 1 : k[x] \in PfFrame
    BY <1>1
  <2> HIDE DEF n
  <2> DEFINE q == SubSeq(k, 1, n - 1)
  <2>2. /\ q \in Seq(PfFrame) /\ Len(q) = IF 1 <= n - 1 THEN n - 1 - 1 + 1 ELSE 0
        /\ \A x \in 1 .. n - 1 - 1 + 1 : q[x] = k[1 + x - 1]
    BY <2>1, SubSeqProperties, SMTT(30)
  <2>3. h = q
    BY DEF n, Ended
  <2> HIDE DEF q
  <2> QED
    BY <1>1, <2>2, <2>3
<1>4. Shaped(h)
  BY <1>1, <1>3 DEF Shaped
<1>5. \A x \in DOMAIN h : /\ x \in DOMAIN k /\ h[x] = k[x] /\ t.interrupt
                          /\ ~k[x].interrupt /\ k[x].at # "off"
  <2> SUFFICES ASSUME NEW x \in DOMAIN h
               PROVE  /\ x \in DOMAIN k /\ h[x] = k[x] /\ t.interrupt
                      /\ ~k[x].interrupt /\ k[x].at # "off"
    OBVIOUS
  <2>1. x = 1 /\ n = 2
    BY <1>1, <1>3
  <2> QED
    BY <2>1, <1>1, <1>3
<1>6. \A x \in DOMAIN k : x = n \/ (x \in DOMAIN h /\ h[x] = k[x] /\ t.interrupt /\ ~k[x].interrupt)
  BY <1>1, <1>3
<1>7. n \in DOMAIN k /\ k[n] = t
  BY <1>1 DEF TopOf
<1> HIDE DEF n
<1>8. ASSUME t.interrupt, NEW s, NEW p
      PROVE  /\ Recording(h, s, p) <=> Recording(k, s, p)
             /\ Unfound(h, s) <=> Unfound(k, s)
             /\ Entering(k, s, p) <=> t.at # "count" /\ t.self = s /\ t.from = p
             /\ ~Entering(h, s, p)
  <2>1. Recording(h, s, p) <=> Recording(k, s, p)
    BY <1>5, <1>6, <1>7, <1>8 DEF Recording
  <2>2. Unfound(h, s) <=> Unfound(k, s)
    BY <1>5, <1>6, <1>7, <1>8 DEF Unfound
  <2>3. Entering(k, s, p) <=> t.at # "count" /\ t.self = s /\ t.from = p
    BY <1>5, <1>6, <1>7, <1>8 DEF Entering
  <2>4. ~Entering(h, s, p)
    BY <1>5, <1>8 DEF Entering
  <2> QED
    BY <2>1, <2>2, <2>3, <2>4
<1>9. ASSUME ~t.interrupt, NEW s, NEW p
      PROVE  /\ ~Entering(k, s, p) /\ ~Entering(h, s, p)
             /\ Recording(k, s, p) <=> Adds(t) /\ t.self = s /\ t.from = p
             /\ Unfound(k, s) <=> Adds(t) /\ t.self = s /\ t.fn = 0
             /\ ~Recording(h, s, p) /\ ~Unfound(h, s)
  <2>1. /\ \A x \in DOMAIN k : x = n
        /\ \A x \in DOMAIN h : FALSE
    BY <1>5, <1>6, <1>9
  <2>2. ~Entering(k, s, p) /\ ~Entering(h, s, p)
    BY <1>7, <1>9, <2>1 DEF Entering
  <2>3. Recording(k, s, p) <=> Adds(t) /\ t.self = s /\ t.from = p
    BY <1>7, <1>9, <2>1 DEF Recording
  <2>4. Unfound(k, s) <=> Adds(t) /\ t.self = s /\ t.fn = 0
    BY <1>7, <1>9, <2>1 DEF Unfound
  <2>5. ~Recording(h, s, p) /\ ~Unfound(h, s)
    BY <2>1 DEF Recording, Unfound
  <2> QED
    BY <2>2, <2>3, <2>4, <2>5
<1> QED
  BY <1>3, <1>4, <1>5, <1>8, <1>9 DEF n

\* The walk finds the newest entry.
LEMMA NewestFound ==
  ASSUME NEW n \in Nat, NEW S, S \subseteq 1 .. n, S # {}
  PROVE  PfFirst(S) \in S /\ \A j \in S : j <= PfFirst(S)
<1> DEFINE T == {n - j : j \in S}
<1>1. T \subseteq Nat /\ T # {}
  <2>1. \A j \in 1 .. n : n - j \in Nat
    OBVIOUS
  <2>2. \A j \in S : n - j \in Nat
    BY <2>1
  <2> QED
    BY <2>2
<1>2. PICK x \in T : \A y \in T : ~(<<y, x>> \in OpToRel(<, Nat))
  BY <1>1, NatLessThanWellFounded, WFMin
<1>3. x \in Nat /\ \A y \in T : ~(y < x) /\ y \in Nat
  BY <1>1, <1>2 DEF OpToRel
<1>4. PICK i \in S : x = n - i
  OBVIOUS
<1>5. ASSUME NEW j \in S
      PROVE  j <= i
  <2>1. ~(n - j < n - i)
    BY <1>3, <1>4
  <2>2. i \in 1 .. n /\ j \in 1 .. n
    BY <1>4
  <2>3. \A a \in 1 .. n, b \in 1 .. n : ~(n - a < n - b) => a <= b
    OBVIOUS
  <2> QED
    BY <2>1, <2>2, <2>3
<1> QED
  BY <1>5 DEF PfFirst

-----------------------------------------------------------------------------
(* The bounds on the copies of an arc.                                       *)

PfCallsOf == Seq(PfFns \X PfCallers \X BOOLEAN)
IntsOf(c) == {x \in DOMAIN c : c[x][3]}
PfOne(b)  == IF b THEN 1 ELSE 0

\* The copies of an arc in the lists g, with the calls k under way and n interrupts so far:
\* those in the lists or about to be entered, those a newer entry hides, and those the
\* program is about to hide.
CopiesFit(g, k, n) ==
  /\ \A s, p : Cardinality(CopiesOf(g, s, p)) + PfOne(Entering(k, s, p))
                + PfOne(Recording(k, s, p)) <= 1 + n
  /\ \A s, p : Cardinality(HiddenOf(g, s, p)) <= n
  /\ \A s, p : Unfound(k, s) => Cardinality(CopiesOf(g, s, p)) + PfOne(Entering(k, s, p)) <= n

\* What a call under way knows of the lists.
Knows(g, f) ==
  /\ f.at = "find" => f.fn = 0
  /\ f.fn # 0 => f.fn \in DOMAIN g /\ g[f.fn].self = f.self
  /\ f.at = "count" => f.fn # 0 /\ f.arc \in DOMAIN g[f.fn].arcs
  /\ Adds(f) /\ f.fn # 0 => \A j \in FnsOf(g, f.self) : j <= f.fn
  /\ Adds(f) /\ f.fn = 0 /\ f.interrupt => FnsOf(g, f.self) = {}

\* The number of interrupts is a number.
LEMMA IntsNumber ==
  ASSUME NEW c \in PfCallsOf
  PROVE  Cardinality(IntsOf(c)) \in Nat /\ Len(c) \in Nat
<1>1. Len(c) \in Nat /\ DOMAIN c = 1 .. Len(c)
  BY DEF PfCallsOf
<1>2. IntsOf(c) \in SUBSET (1 .. Len(c))
  BY <1>1 DEF IntsOf
<1>4. IsFiniteSet(1 .. Len(c))
  <2>1. 1 \in Int /\ Len(c) \in Int
    BY <1>1
  <2> QED
    BY <2>1, FS_Interval, ZenonT(30)
<1>3. IsFiniteSet(IntsOf(c))
  BY <1>2, <1>4, FS_Subset
<1> QED
  BY <1>1, <1>3, FS_CardinalityType

\* A call counts among the interrupts if it is one.
LEMMA InterruptsGrow ==
  ASSUME NEW c \in PfCallsOf, NEW s \in PfFns, NEW p \in PfCallers, NEW b \in BOOLEAN
  PROVE  /\ Append(c, <<s, p, b>>) \in PfCallsOf /\ Len(Append(c, <<s, p, b>>)) = Len(c) + 1
         /\ Cardinality(IntsOf(c)) \in Nat
         /\ Cardinality(IntsOf(Append(c, <<s, p, b>>))) = Cardinality(IntsOf(c)) + PfOne(b)
<1> DEFINE h == Append(c, <<s, p, b>>)
<1>1. /\ h \in PfCallsOf /\ Len(c) \in Nat /\ Len(h) = Len(c) + 1 /\ DOMAIN c = 1 .. Len(c)
      /\ DOMAIN h = DOMAIN c \cup {Len(c) + 1} /\ Len(c) + 1 \notin DOMAIN c
      /\ h[Len(c) + 1] = <<s, p, b>> /\ \A x \in DOMAIN c : h[x] = c[x]
  BY DEF PfCallsOf
<1>2. h[Len(c) + 1][3] = b
  BY <1>1
<1> HIDE DEF h
<1>3. IntsOf(h) = IF b THEN IntsOf(c) \cup {Len(c) + 1} ELSE IntsOf(c)
  <2>1. \A x : x \in IntsOf(h) <=> x \in IntsOf(c) \/ (x = Len(c) + 1 /\ b)
    BY <1>1, <1>2 DEF IntsOf
  <2> QED
    BY <2>1
<1>4. /\ IsFiniteSet(IntsOf(c)) /\ Cardinality(IntsOf(c)) \in Nat
      /\ Len(c) + 1 \notin IntsOf(c)
  <2>1. IntsOf(c) \in SUBSET (1 .. Len(c))
    BY <1>1 DEF IntsOf
  <2>2. 1 \in Int /\ Len(c) \in Int
    BY <1>1
  <2>3. IsFiniteSet(1 .. Len(c))
    BY <2>2, FS_Interval
  <2> QED
    BY <1>1, <2>1, <2>3, FS_Subset, FS_CardinalityType
<1>5. Cardinality(IntsOf(c) \cup {Len(c) + 1}) = Cardinality(IntsOf(c)) + 1
  BY <1>4, FS_AddElement
<1> QED
  BY <1>1, <1>3, <1>4, <1>5 DEF h, PfOne

\* The copies that are hidden are among the copies, and both are as few as the entries.
LEMMA CopySizes ==
  ASSUME NEW g, IsFiniteSet(ArcsOf(g))
  PROVE  \A s, p : /\ IsFiniteSet(CopiesOf(g, s, p)) /\ Cardinality(CopiesOf(g, s, p)) \in Nat
                   /\ Cardinality(HiddenOf(g, s, p)) \in Nat
                   /\ Cardinality(HiddenOf(g, s, p)) <= Cardinality(CopiesOf(g, s, p))
<1> SUFFICES ASSUME NEW s, NEW p
             PROVE  /\ IsFiniteSet(CopiesOf(g, s, p)) /\ Cardinality(CopiesOf(g, s, p)) \in Nat
                    /\ Cardinality(HiddenOf(g, s, p)) \in Nat
                    /\ Cardinality(HiddenOf(g, s, p)) <= Cardinality(CopiesOf(g, s, p))
  OBVIOUS
<1>1. CopiesOf(g, s, p) \in SUBSET ArcsOf(g)
  BY DEF CopiesOf
<1>2. IsFiniteSet(CopiesOf(g, s, p)) /\ Cardinality(CopiesOf(g, s, p)) \in Nat
  BY <1>1, FS_Subset, FS_CardinalityType
<1>3. HiddenOf(g, s, p) \in SUBSET CopiesOf(g, s, p)
  BY DEF HiddenOf
<1>4. IsFiniteSet(HiddenOf(g, s, p)) /\ Cardinality(HiddenOf(g, s, p)) <= Cardinality(CopiesOf(g, s, p))
  BY <1>2, <1>3, FS_Subset
<1> QED
  BY <1>2, <1>4, FS_CardinalityType

\* A function without an entry has no arcs, and an arc its newest entry does not have is in
\* none that is not hidden.
LEMMA NothingFound ==
  ASSUME NEW g \in Seq(PfEntry), NEW s, NEW p
  PROVE  /\ FnsOf(g, s) = {} => CopiesOf(g, s, p) = {}
         /\ \A i \in FnsOf(g, s) :
              (/\ \A j \in FnsOf(g, s) : j <= i
               /\ {k \in DOMAIN g[i].arcs : g[i].arcs[k].from = p} = {})
                => CopiesOf(g, s, p) = HiddenOf(g, s, p)
<1>1. \A e \in CopiesOf(g, s, p) :
        /\ e[1] \in FnsOf(g, s) /\ e[2] \in DOMAIN g[e[1]].arcs /\ e[1] \in Nat
        /\ g[e[1]].arcs[e[2]].from = p
  <2> SUFFICES ASSUME NEW e \in CopiesOf(g, s, p)
               PROVE  /\ e[1] \in FnsOf(g, s) /\ e[2] \in DOMAIN g[e[1]].arcs /\ e[1] \in Nat
                      /\ g[e[1]].arcs[e[2]].from = p
    OBVIOUS
  <2>1. e \in ArcsOf(g) /\ g[e[1]].self = s /\ g[e[1]].arcs[e[2]].from = p
    BY DEF CopiesOf
  <2>2. PICK i, k : i \in DOMAIN g /\ k \in DOMAIN g[i].arcs /\ e = <<i, k>>
    BY <2>1, ArcPlaces
  <2> QED
    BY <2>1, <2>2 DEF FnsOf
<1>2. ASSUME NEW i \in FnsOf(g, s), \A j \in FnsOf(g, s) : j <= i,
             {k \in DOMAIN g[i].arcs : g[i].arcs[k].from = p} = {}
      PROVE  CopiesOf(g, s, p) = HiddenOf(g, s, p)
  <2>1. ASSUME NEW e \in CopiesOf(g, s, p)
        PROVE  e[1] < i
    <3>1. e[1] # i
      BY <1>1, <1>2
    <3>2. e[1] <= i /\ e[1] \in Nat /\ i \in Nat
      BY <1>1, <1>2 DEF FnsOf
    <3> QED
      BY <3>1, <3>2
  <2> QED
    BY <2>1 DEF HiddenOf
<1> QED
  BY <1>1, <1>2

\* How the calls under way become h: a call of (t, q) begins, which is an interrupt's if b;
\* a call moves, and enters no more than before ...
Begins(k, h, b, t, q) ==
  \A s, p : /\ ~Entering(k, s, p)
            /\ Entering(h, s, p) <=> b /\ t = s /\ q = p
            /\ Recording(h, s, p) <=> Recording(k, s, p)
            /\ Unfound(h, s) <=> Unfound(k, s)
Moves(g, k, h) ==
  \A s, p : /\ Entering(h, s, p) => Entering(k, s, p)
            /\ Recording(h, s, p) =>
                 \/ Recording(k, s, p)
                 \/ /\ ~Entering(h, s, p)
                    /\ CopiesOf(g, s, p) = {} \/ CopiesOf(g, s, p) = HiddenOf(g, s, p)
            /\ Unfound(h, s) => \/ Unfound(k, s)
                                \/ ~Entering(h, s, p) /\ CopiesOf(g, s, p) = {}
\* ... and the one that was to enter (t, q) ends.
EndsEntering(k, h, t, q) ==
  /\ \A s, p : /\ Entering(h, s, p) => Entering(k, s, p)
               /\ Recording(h, s, p) => Recording(k, s, p)
               /\ Unfound(h, s) => Unfound(k, s)
  /\ \/ Entering(k, t, q) /\ ~Entering(h, t, q)
     \/ Recording(k, t, q) /\ ~Recording(h, t, q) /\ \A s : ~Unfound(h, s)

\* A call that begins may be of an interrupt, which then is one more.
LEMMA BeginsFitting ==
  ASSUME NEW g, IsFiniteSet(ArcsOf(g)), NEW k, NEW h, NEW n \in Nat, CopiesFit(g, k, n),
         NEW b \in BOOLEAN, NEW t, NEW q, Begins(k, h, b, t, q)
  PROVE  CopiesFit(g, h, n + PfOne(b))
<1>1. \A s, p : Cardinality(CopiesOf(g, s, p)) \in Nat /\ Cardinality(HiddenOf(g, s, p)) \in Nat
  BY CopySizes
<1>2. ASSUME NEW s, NEW p
      PROVE  /\ Cardinality(CopiesOf(g, s, p)) + PfOne(Entering(h, s, p))
                + PfOne(Recording(h, s, p)) <= 1 + (n + PfOne(b))
             /\ Cardinality(HiddenOf(g, s, p)) <= n + PfOne(b)
             /\ Unfound(h, s) => Cardinality(CopiesOf(g, s, p)) + PfOne(Entering(h, s, p))
                                  <= n + PfOne(b)
  <2>1. /\ Cardinality(CopiesOf(g, s, p)) + PfOne(Entering(k, s, p))
           + PfOne(Recording(k, s, p)) <= 1 + n
        /\ Cardinality(HiddenOf(g, s, p)) <= n
        /\ Unfound(k, s) => Cardinality(CopiesOf(g, s, p)) + PfOne(Entering(k, s, p)) <= n
    BY DEF CopiesFit
  <2>2. /\ PfOne(Entering(k, s, p)) = 0 /\ PfOne(Entering(h, s, p)) <= PfOne(b)
        /\ PfOne(Entering(h, s, p)) \in Nat /\ PfOne(b) \in Nat
        /\ PfOne(Recording(h, s, p)) = PfOne(Recording(k, s, p))
        /\ PfOne(Recording(k, s, p)) \in Nat
    BY DEF PfOne, Begins
  <2>3. Unfound(h, s) <=> Unfound(k, s)
    BY DEF Begins
  <2> QED
    BY <1>1, <2>1, <2>2, <2>3
<1> QED
  BY <1>2 DEF CopiesFit

\* Calls that enter no more than before keep the bounds.
LEMMA MovesFitting ==
  ASSUME NEW g, IsFiniteSet(ArcsOf(g)), NEW k, NEW h, NEW n \in Nat, CopiesFit(g, k, n), Moves(g, k, h)
  PROVE  CopiesFit(g, h, n)
<1>1. \A s, p : Cardinality(CopiesOf(g, s, p)) \in Nat /\ Cardinality(HiddenOf(g, s, p)) \in Nat
  BY CopySizes
<1>2. ASSUME NEW s, NEW p
      PROVE  /\ Cardinality(CopiesOf(g, s, p)) + PfOne(Entering(h, s, p))
                + PfOne(Recording(h, s, p)) <= 1 + n
             /\ Cardinality(HiddenOf(g, s, p)) <= n
             /\ Unfound(h, s) => Cardinality(CopiesOf(g, s, p)) + PfOne(Entering(h, s, p)) <= n
  <2> DEFINE c == Cardinality(CopiesOf(g, s, p))
  <2> DEFINE d == Cardinality(HiddenOf(g, s, p))
  <2>1. /\ c + PfOne(Entering(k, s, p)) + PfOne(Recording(k, s, p)) <= 1 + n
        /\ d <= n
        /\ Unfound(k, s) => c + PfOne(Entering(k, s, p)) <= n
    BY DEF CopiesFit
  <2>2. /\ PfOne(Entering(h, s, p)) \in 0 .. 1 /\ PfOne(Entering(k, s, p)) \in 0 .. 1
        /\ PfOne(Recording(h, s, p)) \in 0 .. 1 /\ PfOne(Recording(k, s, p)) \in 0 .. 1
        /\ PfOne(Entering(h, s, p)) <= PfOne(Entering(k, s, p))
    BY DEF PfOne, Moves
  <2>3. Cardinality({}) = 0
    BY FS_EmptySet
  <2>4. c \in Nat /\ d \in Nat
    BY <1>1
  <2>5. c + PfOne(Entering(h, s, p)) + PfOne(Recording(h, s, p)) <= 1 + n
    <3>1. CASE ~Recording(h, s, p)
      <4>1. PfOne(Recording(h, s, p)) = 0
        BY <3>1 DEF PfOne
      <4> HIDE DEF c, d
      <4> QED
        BY <4>1, <2>1, <2>2, <2>4
    <3>2. CASE Recording(k, s, p)
      <4>1. PfOne(Recording(k, s, p)) = 1
        BY <3>2 DEF PfOne
      <4> HIDE DEF c, d
      <4> QED
        BY <4>1, <2>1, <2>2, <2>4
    <3>3. CASE ~Entering(h, s, p) /\ (CopiesOf(g, s, p) = {} \/ CopiesOf(g, s, p) = HiddenOf(g, s, p))
      <4>1. PfOne(Entering(h, s, p)) = 0
        BY <3>3 DEF PfOne
      <4>2. c = 0 \/ c = d
        BY <3>3, <2>3
      <4> HIDE DEF c, d
      <4> QED
        BY <4>1, <4>2, <2>1, <2>2, <2>4
    <3> QED
      BY <3>1, <3>2, <3>3 DEF Moves
  <2>6. Unfound(h, s) => c + PfOne(Entering(h, s, p)) <= n
    <3>1. CASE Unfound(k, s)
      <4> HIDE DEF c, d
      <4> QED
        BY <3>1, <2>1, <2>2, <2>4
    <3>2. CASE ~Entering(h, s, p) /\ CopiesOf(g, s, p) = {}
      <4>1. PfOne(Entering(h, s, p)) = 0
        BY <3>2 DEF PfOne
      <4>2. c = 0
        BY <3>2, <2>3
      <4> HIDE DEF c, d
      <4> QED
        BY <4>1, <4>2, <2>4
    <3> QED
      BY <3>1, <3>2 DEF Moves
  <2> QED
    BY <2>1, <2>5, <2>6
<1> QED
  BY <1>2 DEF CopiesFit

\* The arc a call was about to enter is entered.
LEMMA EntersFitting ==
  ASSUME NEW g \in Seq(PfEntry), IsFiniteSet(ArcsOf(g)), NEW f, NEW k, NEW h, NEW n \in Nat,
         CopiesFit(g, k, n), NEW t, NEW q, NEW e, Entered(g, f, t, q, e),
         EndsEntering(k, h, t, q),
         \/ e[1] \in DOMAIN g /\ \A j \in FnsOf(g, t) : j <= e[1]
         \/ e[1] \notin DOMAIN g /\ (FnsOf(g, t) = {} \/ Unfound(k, t))
  PROVE  CopiesFit(f, h, n)
<1>1. /\ IsFiniteSet(ArcsOf(f))
      /\ \A s, p : Cardinality(CopiesOf(f, s, p)) =
           IF s = t /\ p = q THEN Cardinality(CopiesOf(g, s, p)) + 1
           ELSE Cardinality(CopiesOf(g, s, p))
  BY EnteredCopies
<1>2. ASSUME NEW s, NEW p
      PROVE  /\ Cardinality(CopiesOf(f, s, p)) + PfOne(Entering(h, s, p))
                + PfOne(Recording(h, s, p)) <= 1 + n
             /\ Unfound(h, s) => Cardinality(CopiesOf(f, s, p)) + PfOne(Entering(h, s, p)) <= n
  <2> DEFINE c == Cardinality(CopiesOf(g, s, p))
  <2>1. /\ c + PfOne(Entering(k, s, p)) + PfOne(Recording(k, s, p)) <= 1 + n
        /\ Unfound(k, s) => c + PfOne(Entering(k, s, p)) <= n
    BY DEF CopiesFit
  <2>2. /\ PfOne(Entering(h, s, p)) \in 0 .. 1 /\ PfOne(Entering(k, s, p)) \in 0 .. 1
        /\ PfOne(Recording(h, s, p)) \in 0 .. 1 /\ PfOne(Recording(k, s, p)) \in 0 .. 1
        /\ PfOne(Entering(h, s, p)) <= PfOne(Entering(k, s, p))
        /\ PfOne(Recording(h, s, p)) <= PfOne(Recording(k, s, p))
    BY DEF PfOne, EndsEntering
  <2>3. c \in Nat
    BY CopySizes
  <2>4. Unfound(h, s) => Unfound(k, s)
    BY DEF EndsEntering
  <2>5. CASE s = t /\ p = q
    <3>1. Cardinality(CopiesOf(f, s, p)) = c + 1
      BY <1>1, <2>5
    <3>2. \/ PfOne(Entering(k, s, p)) = 1 /\ PfOne(Entering(h, s, p)) = 0
          \/ PfOne(Recording(k, s, p)) = 1 /\ PfOne(Recording(h, s, p)) = 0 /\ ~Unfound(h, s)
      BY <2>5 DEF PfOne, EndsEntering
    <3> HIDE DEF c
    <3> QED
      BY <3>1, <3>2, <2>1, <2>2, <2>3, <2>4
  <2>6. CASE ~(s = t /\ p = q)
    <3>1. Cardinality(CopiesOf(f, s, p)) = c
      BY <1>1, <2>6
    <3> HIDE DEF c
    <3> QED
      BY <3>1, <2>1, <2>2, <2>3, <2>4
  <2> QED
    BY <2>5, <2>6
<1>3. ASSUME NEW s, NEW p
      PROVE  Cardinality(HiddenOf(f, s, p)) <= n
  <2>1. Cardinality(HiddenOf(g, s, p)) <= n
    BY DEF CopiesFit
  <2>2. CASE HiddenOf(f, s, p) = HiddenOf(g, s, p)
    BY <2>1, <2>2
  <2>3. CASE e[1] \in DOMAIN g /\ \A j \in FnsOf(g, t) : j <= e[1]
    <3>1. HiddenOf(f, s, p) = HiddenOf(g, s, p)
      BY <2>3, EnteredUnderNewest
    <3> QED
      BY <2>1, <3>1
  <2>4. CASE e[1] \notin DOMAIN g /\ s = t /\ (FnsOf(g, t) = {} \/ Unfound(k, t))
    <3>1. HiddenOf(f, s, p) \in SUBSET CopiesOf(g, s, p)
      BY <2>4, EnteredAsNewest
    <3>2. IsFiniteSet(CopiesOf(g, s, p)) /\ Cardinality(CopiesOf(g, s, p)) \in Nat
      BY CopySizes
    <3>3. /\ IsFiniteSet(HiddenOf(f, s, p))
          /\ Cardinality(HiddenOf(f, s, p)) <= Cardinality(CopiesOf(g, s, p))
      BY <3>1, <3>2, FS_Subset
    <3>4. Cardinality(HiddenOf(f, s, p)) \in Nat
      BY <3>3, FS_CardinalityType
    <3>5. Cardinality(CopiesOf(g, s, p)) <= n
      <4>1. CASE FnsOf(g, s) = {}
        <5>1. CopiesOf(g, s, p) = {}
          BY <4>1, NothingFound
        <5>2. Cardinality({}) = 0
          BY FS_EmptySet
        <5> QED
          BY <5>1, <5>2
      <4>2. CASE Unfound(k, s)
        <5>1. Cardinality(CopiesOf(g, s, p)) + PfOne(Entering(k, s, p)) <= n
          BY <4>2 DEF CopiesFit
        <5>2. PfOne(Entering(k, s, p)) \in 0 .. 1
          BY DEF PfOne
        <5> QED
          BY <5>1, <5>2, <3>2
      <4> QED
        BY <4>1, <4>2, <2>4
    <3> QED
      BY <3>2, <3>3, <3>4, <3>5
  <2>5. CASE e[1] \notin DOMAIN g /\ s # t
    <3>1. HiddenOf(f, s, p) = HiddenOf(g, s, p)
      BY <2>5, EnteredAsNewest
    <3> QED
      BY <2>1, <3>1
  <2> QED
    BY <2>3, <2>4, <2>5
<1> QED
  BY <1>2, <1>3 DEF CopiesFit

-----------------------------------------------------------------------------
(* The steps.                                                                *)

\* The histogram: its buckets begin inside the text.
Sampled(r) ==
  /\ r = [need |-> r.need, samples |-> r.samples] /\ r.need \in BOOLEAN
  /\ \A b \in DOMAIN r.samples : b \in Nat /\ b * PfBucket < PfText

PfInv ==
  /\ pf_fns \in Seq(PfEntry) /\ Shaped(pf_stack) /\ pf_calls \in PfCallsOf /\ pf_lost \in Int
  /\ Sampled(pf_sampler)
  /\ \A x \in DOMAIN pf_stack : Knows(pf_fns, pf_stack[x])
  /\ IsFiniteSet(ArcsOf(pf_fns)) /\ IsFiniteSet(MarksOf(pf_fns))
  /\ Cardinality(MarksOf(pf_fns)) + pf_lost + Len(pf_stack) = Len(pf_calls)
  /\ CopiesFit(pf_fns, pf_stack, Cardinality(IntsOf(pf_calls)))

\* The invariant says what the runs check.
LEMMA PfMeans ==
  ASSUME PfInv
  PROVE  PfTypeOK /\ ProfileSafe
<1>1. PfArcs = ArcsOf(pf_fns) /\ PfInterrupts = IntsOf(pf_calls)
  BY DEF PfArcs, ArcsOf, PfInterrupts, IntsOf
<1>2. PfMarks = MarksOf(pf_fns) /\ \A s, p : PfCopies(s, p) = CopiesOf(pf_fns, s, p)
  BY <1>1 DEF PfMarks, MarksOf, PfCopies, CopiesOf
<1>3. PfTypeOK
  BY DEF PfInv, PfTypeOK, Shaped, Sampled
<1>4. CallsCounted
  BY <1>2 DEF PfInv, CallsCounted
<1>5. CopiesBounded
  <2> SUFFICES ASSUME NEW s \in PfFns, NEW p \in PfCallers
               PROVE  Cardinality(CopiesOf(pf_fns, s, p)) <= 1 + Cardinality(IntsOf(pf_calls))
    BY <1>1, <1>2 DEF CopiesBounded
  <2>1. Cardinality(CopiesOf(pf_fns, s, p)) + PfOne(Entering(pf_stack, s, p))
          + PfOne(Recording(pf_stack, s, p)) <= 1 + Cardinality(IntsOf(pf_calls))
    BY DEF PfInv, CopiesFit
  <2>2. Cardinality(CopiesOf(pf_fns, s, p)) \in Nat
    BY CopySizes DEF PfInv
  <2>3. PfOne(Entering(pf_stack, s, p)) \in 0 .. 1 /\ PfOne(Recording(pf_stack, s, p)) \in 0 .. 1
    BY DEF PfOne
  <2>4. Cardinality(IntsOf(pf_calls)) \in Nat
    BY IntsNumber DEF PfInv
  <2> QED
    BY <2>1, <2>2, <2>3, <2>4
<1> QED
  BY <1>3, <1>4, <1>5 DEF ProfileSafe

\* At the start nothing is entered, counted or under way.
LEMMA PfStarts == PfInit => PfInv
<1> SUFFICES ASSUME PfInit
             PROVE  PfInv
  OBVIOUS
<1>1. /\ ArcsOf(<<>>) = {} /\ MarksOf(<<>>) = {} /\ IntsOf(<<>>) = {}
      /\ \A s, p : CopiesOf(<<>>, s, p) = {} /\ HiddenOf(<<>>, s, p) = {}
  <2>1. DOMAIN <<>> = {}
    OBVIOUS
  <2>2. ArcsOf(<<>>) = {} /\ IntsOf(<<>>) = {}
    BY <2>1 DEF ArcsOf, IntsOf
  <2>3. MarksOf(<<>>) = {} /\ \A s, p : CopiesOf(<<>>, s, p) = {}
    BY <2>2 DEF MarksOf, CopiesOf
  <2> QED
    BY <2>2, <2>3 DEF HiddenOf
<1>2. Shaped(<<>>) /\ \A s, p : ~Entering(<<>>, s, p) /\ ~Recording(<<>>, s, p) /\ ~Unfound(<<>>, s)
  BY DEF Shaped, Entering, Recording, Unfound
<1>3. IsFiniteSet({}) /\ Cardinality({}) = 0
  BY FS_EmptySet
<1>4. CopiesFit(<<>>, <<>>, 0)
  <2>1. ASSUME NEW s, NEW p
        PROVE  /\ Cardinality(CopiesOf(<<>>, s, p)) = 0 /\ Cardinality(HiddenOf(<<>>, s, p)) = 0
               /\ PfOne(Entering(<<>>, s, p)) = 0 /\ PfOne(Recording(<<>>, s, p)) = 0
    BY <1>1, <1>2, <1>3 DEF PfOne
  <2> QED
    BY <2>1, <1>2 DEF CopiesFit
<1>5. Sampled(pf_sampler)
  BY DEF PfInit, Sampled
<1>6. /\ <<>> \in PfCallsOf /\ <<>> \in Seq(PfEntry) /\ Len(<<>>) = 0 /\ DOMAIN <<>> = {}
  BY DEF PfCallsOf
<1>7. pf_fns = <<>> /\ pf_stack = <<>> /\ pf_calls = <<>> /\ pf_lost = 0
  BY DEF PfInit
<1>8. \A x \in DOMAIN pf_stack : Knows(pf_fns, pf_stack[x])
  BY <1>6, <1>7
<1>9. Cardinality(MarksOf(pf_fns)) + pf_lost + Len(pf_stack) = Len(pf_calls)
  BY <1>1, <1>3, <1>6, <1>7
<1>10. CopiesFit(pf_fns, pf_stack, Cardinality(IntsOf(pf_calls)))
  BY <1>1, <1>3, <1>4, <1>7
<1>11. Shaped(pf_stack) /\ pf_fns \in Seq(PfEntry) /\ pf_calls \in PfCallsOf /\ pf_lost \in Int
  BY <1>2, <1>6, <1>7
<1>12. IsFiniteSet(ArcsOf(pf_fns)) /\ IsFiniteSet(MarksOf(pf_fns))
  BY <1>1, <1>3, <1>7
<1> QED
  BY <1>5, <1>8, <1>9, <1>10, <1>11, <1>12 DEF PfInv

\* mcount is called.
LEMMA CallKept ==
  ASSUME PfInv, PfCall
  PROVE  PfInv'
<1>1. PICK self \in PfFns, from \in PfCallers, b \in BOOLEAN :
        /\ IF b THEN PfDepth(1) \/ PfDepth(0) ELSE PfDepth(0)
        /\ pf_stack # <<>> => ~PfRunning.interrupt /\ PfRunning.at # "off"
        /\ pf_calls' = Append(pf_calls, <<self, from, b>>)
        /\ pf_stack' = Append(pf_stack, [self |-> self, from |-> from, interrupt |-> b,
                                         at |-> "find", fn |-> 0, arc |-> 0, count |-> 0])
  BY DEF PfCall
<1> DEFINE f == [self |-> self, from |-> from, interrupt |-> b, at |-> "find", fn |-> 0,
                 arc |-> 0, count |-> 0]
<1>2. /\ f \in PfFrame /\ f.at = "find" /\ f.self = self /\ f.from = from
      /\ f.interrupt = b /\ f.fn = 0
  BY DEF PfFrame, PfAt
<1>3. Knows(pf_fns, f)
  BY <1>2 DEF Knows, Adds
<1> HIDE DEF f
<1>4. /\ pf_stack' = Append(pf_stack, f)
      /\ IF f.interrupt THEN Len(pf_stack) = 1 \/ Len(pf_stack) = 0 ELSE Len(pf_stack) = 0
      /\ pf_stack # <<>> => ~pf_stack[Len(pf_stack)].interrupt /\ pf_stack[Len(pf_stack)].at # "off"
  BY <1>1, <1>2 DEF f, PfDepth, PfRunning
<1>5. /\ Shaped(pf_stack') /\ Len(pf_stack') = Len(pf_stack) + 1
      /\ \A x \in DOMAIN pf_stack' : pf_stack'[x] = f \/ (x \in DOMAIN pf_stack /\ pf_stack'[x] = pf_stack[x])
      /\ \A s, p : /\ ~Entering(pf_stack, s, p)
                   /\ Entering(pf_stack', s, p) <=> b /\ self = s /\ from = p
                   /\ Recording(pf_stack', s, p) <=> Recording(pf_stack, s, p)
      /\ \A s : Unfound(pf_stack', s) <=> Unfound(pf_stack, s)
  <2>1. Shaped(pf_stack)
    BY DEF PfInv
  <2> QED
    BY <2>1, <1>2, <1>4, CallBegins
<1>6. /\ pf_calls' \in PfCallsOf /\ Len(pf_calls') = Len(pf_calls) + 1
      /\ Cardinality(IntsOf(pf_calls)) \in Nat
      /\ Cardinality(IntsOf(pf_calls')) = Cardinality(IntsOf(pf_calls)) + PfOne(b)
  BY <1>1, InterruptsGrow DEF PfInv
<1>7. CopiesFit(pf_fns, pf_stack', Cardinality(IntsOf(pf_calls)) + PfOne(b))
  <2>1. /\ IsFiniteSet(ArcsOf(pf_fns))
        /\ CopiesFit(pf_fns, pf_stack, Cardinality(IntsOf(pf_calls)))
    BY DEF PfInv
  <2> DEFINE n == Cardinality(IntsOf(pf_calls))
  <2>2. n \in Nat
    BY <1>6
  <2> HIDE DEF n
  <2>3. CopiesFit(pf_fns, pf_stack', n + PfOne(b))
    <3>1. CopiesFit(pf_fns, pf_stack, n)
      BY <2>1 DEF n
    <3>2. Begins(pf_stack, pf_stack', b, self, from)
      BY <1>5 DEF Begins
    <3> QED
      BY <3>1, <3>2, <2>1, <2>2, BeginsFitting, Zenon
  <2> QED
    BY <2>3 DEF n
<1>8. \A x \in DOMAIN pf_stack' : Knows(pf_fns, pf_stack'[x])
  BY <1>3, <1>5 DEF PfInv
<1>9. pf_fns' = pf_fns /\ pf_lost' = pf_lost /\ pf_sampler' = pf_sampler
  BY DEF PfCall
<1>10. Cardinality(MarksOf(pf_fns)) + pf_lost + Len(pf_stack') = Len(pf_calls')
  <2>1. Cardinality(MarksOf(pf_fns)) + pf_lost + Len(pf_stack) = Len(pf_calls)
    BY DEF PfInv
  <2>2. Cardinality(MarksOf(pf_fns)) \in Nat
    BY FS_CardinalityType DEF PfInv
  <2>3. pf_lost \in Int /\ Len(pf_stack) \in Nat /\ Len(pf_calls) \in Nat
    BY DEF PfInv, Shaped, PfCallsOf
  <2> QED
    BY <2>1, <2>2, <2>3, <1>5, <1>6
<1> QED
  BY <1>5, <1>6, <1>7, <1>8, <1>9, <1>10 DEF PfInv

\* What the call under way does to the lists, for a step that changes only its frame.
LEMMA FrameKept ==
  ASSUME PfInv, pf_stack # <<>>, NEW f \in PfFrame, Knows(pf_fns, f),
         f.interrupt = PfRunning.interrupt, f.self = PfRunning.self, f.from = PfRunning.from,
         f.at # "count" => PfRunning.at # "count",
         ~f.interrupt /\ Adds(f) =>
           \/ Adds(PfRunning) /\ PfRunning.fn = f.fn
           \/ /\ CopiesOf(pf_fns, f.self, f.from) = {}
                 \/ CopiesOf(pf_fns, f.self, f.from) = HiddenOf(pf_fns, f.self, f.from)
              /\ f.fn = 0 => \A p : CopiesOf(pf_fns, f.self, p) = {},
         PfSetTop(f), UNCHANGED <<pf_fns, pf_calls, pf_lost>>, Sampled(pf_sampler')
  PROVE  PfInv'
<1> DEFINE t == TopOf(pf_stack)
<1>1. t = PfRunning /\ pf_stack' = MovedTo(pf_stack, f) /\ Shaped(pf_stack)
  BY DEF PfRunning, PfSetTop, PfInv, TopOf, MovedTo
<1>2. /\ f.interrupt = t.interrupt /\ f.self = t.self /\ f.from = t.from
      /\ f.at # "count" => t.at # "count"
  BY <1>1
<1>3. f.interrupt \in BOOLEAN
  BY DEF PfFrame
<1>4. /\ Shaped(pf_stack') /\ Len(pf_stack') = Len(pf_stack)
      /\ \A x \in DOMAIN pf_stack' : pf_stack'[x] = f \/ (x \in DOMAIN pf_stack /\ pf_stack'[x] = pf_stack[x])
  BY <1>1, <1>2, CallMoves
<1>5. t.interrupt => \A s, p :
        /\ Recording(pf_stack', s, p) <=> Recording(pf_stack, s, p)
        /\ Unfound(pf_stack', s) <=> Unfound(pf_stack, s)
        /\ Entering(pf_stack, s, p) <=> t.at # "count" /\ t.self = s /\ t.from = p
        /\ Entering(pf_stack', s, p) <=> f.at # "count" /\ t.self = s /\ t.from = p
  <2> HIDE DEF t
  <2> SUFFICES ASSUME t.interrupt, NEW s, NEW p
               PROVE  /\ Recording(pf_stack', s, p) <=> Recording(pf_stack, s, p)
                      /\ Unfound(pf_stack', s) <=> Unfound(pf_stack, s)
                      /\ Entering(pf_stack, s, p) <=> t.at # "count" /\ t.self = s /\ t.from = p
                      /\ Entering(pf_stack', s, p) <=> f.at # "count" /\ t.self = s /\ t.from = p
    OBVIOUS
  <2>1. t = TopOf(pf_stack)
    BY DEF t
  <2> QED
    BY <1>1, <1>2, <2>1, CallMoves, SMTT(40)
<1>6. ~t.interrupt => \A s, p :
        /\ ~Entering(pf_stack, s, p) /\ ~Entering(pf_stack', s, p)
        /\ Recording(pf_stack, s, p) <=> Adds(t) /\ t.self = s /\ t.from = p
        /\ Recording(pf_stack', s, p) <=> Adds(f) /\ t.self = s /\ t.from = p
        /\ Unfound(pf_stack, s) <=> Adds(t) /\ t.self = s /\ t.fn = 0
        /\ Unfound(pf_stack', s) <=> Adds(f) /\ t.self = s /\ f.fn = 0
  BY <1>1, <1>2, CallMoves
<1> DEFINE n == Cardinality(IntsOf(pf_calls))
<1>7. n \in Nat
  BY IntsNumber DEF PfInv
<1>8. CopiesFit(pf_fns, pf_stack', n)
  <2>1. IsFiniteSet(ArcsOf(pf_fns)) /\ CopiesFit(pf_fns, pf_stack, n)
    BY DEF PfInv
  <2> HIDE DEF n
  <2>2. \A s, p : Entering(pf_stack', s, p) => Entering(pf_stack, s, p)
    BY <1>2, <1>5, <1>6
  <2>3. ASSUME NEW s, NEW p, Recording(pf_stack', s, p), ~Recording(pf_stack, s, p)
        PROVE  /\ ~Entering(pf_stack', s, p)
               /\ CopiesOf(pf_fns, s, p) = {} \/ CopiesOf(pf_fns, s, p) = HiddenOf(pf_fns, s, p)
    <3>1. ~t.interrupt
      BY <2>3, <1>5
    <3>2. Adds(f) /\ t.self = s /\ t.from = p /\ ~Adds(t)
      BY <2>3, <3>1, <1>6
    <3> QED
      BY <3>1, <3>2, <1>1, <1>2, <1>6
  <2>4. ASSUME NEW s, Unfound(pf_stack', s), ~Unfound(pf_stack, s), NEW p
        PROVE  ~Entering(pf_stack', s, p) /\ CopiesOf(pf_fns, s, p) = {}
    <3>1. ~t.interrupt
      BY <2>4, <1>5
    <3>2. Adds(f) /\ t.self = s /\ f.fn = 0 /\ ~(Adds(t) /\ t.fn = 0)
      BY <2>4, <3>1, <1>6
    <3> QED
      BY <3>1, <3>2, <1>1, <1>2, <1>6
  <2>5. Moves(pf_fns, pf_stack, pf_stack')
    BY <2>2, <2>3, <2>4 DEF Moves
  <2> QED
    BY <2>1, <2>5, <1>7, MovesFitting
<1>9. \A x \in DOMAIN pf_stack' : Knows(pf_fns, pf_stack'[x])
  BY <1>4 DEF PfInv
<1> QED
  BY <1>4, <1>8, <1>9 DEF PfInv

\* The walk of the lists: the function and the arc are found, or one of them is not.
LEMMA FindKept ==
  ASSUME PfInv, mcount_find
  PROVE  PfInv'
<1> DEFINE t == PfRunning
<1> DEFINE fns == PfFnAt(t.self)
<1>1. /\ pf_stack # <<>> /\ t.at = "find" /\ t \in PfFrame /\ Knows(pf_fns, t)
      /\ pf_fns \in Seq(PfEntry) /\ UNCHANGED <<pf_fns, pf_calls, pf_lost, pf_sampler>>
  <2>1. Shaped(pf_stack) /\ pf_stack # <<>>
    BY DEF PfInv, mcount_find
  <2>2. Len(pf_stack) \in DOMAIN pf_stack /\ pf_stack[Len(pf_stack)] \in PfFrame
    BY <2>1, TopOfCalls
  <2> QED
    BY <2>2 DEF PfInv, mcount_find, PfRunning
<1>2. fns = FnsOf(pf_fns, t.self)
  BY DEF PfFnAt, FnsOf
<1>3. Sampled(pf_sampler')
  BY <1>1 DEF PfInv
<1>4. t.fn = 0 /\ t.at # "count" /\ ~Adds(t)
  BY <1>1 DEF Knows, Adds
<1>5. CASE fns = {}
  <2> DEFINE f == [t EXCEPT !.at = "record"]
  <2>1. /\ f \in PfFrame /\ f.at = "record" /\ f.self = t.self /\ f.from = t.from
        /\ f.interrupt = t.interrupt /\ f.fn = 0
    BY <1>1, <1>4 DEF PfFrame, PfAt
  <2>2. PfSetTop(f)
    BY <1>5 DEF mcount_find
  <2> HIDE DEF f
  <2>3. Knows(pf_fns, f)
    BY <2>1, <1>2, <1>5 DEF Knows
  <2>4. \A p : CopiesOf(pf_fns, f.self, p) = {}
    BY <2>1, <1>1, <1>2, <1>5, NothingFound
  <2> QED
    BY <2>1, <2>2, <2>3, <2>4, <1>1, <1>3, <1>4, FrameKept
<1>6. CASE fns # {}
  <2> DEFINE i == PfFirst(fns)
  <2> DEFINE arcs == PfArcAt(i, t.from)
  <2>1. i \in fns /\ \A j \in fns : j <= i
    <3>1. fns \subseteq 1 .. Len(pf_fns) /\ Len(pf_fns) \in Nat
      BY <1>1, <1>2 DEF FnsOf
    <3> QED
      BY <3>1, <1>6, NewestFound
  <2>2. /\ i \in DOMAIN pf_fns /\ pf_fns[i].self = t.self /\ i \in Nat /\ i # 0
        /\ pf_fns[i] \in PfEntry
    BY <2>1, <1>1, <1>2 DEF FnsOf
  <2>3. pf_fns[i].arcs \in Seq(PfArc)
    BY <2>2, PfRecords
  <2>4. CASE arcs = {}
    <3> DEFINE f == [t EXCEPT !.at = "record", !.fn = i]
    <3>1. PfSetTop(f)
      BY <1>6, <2>4 DEF mcount_find
    <3> HIDE DEF i
    <3>2. /\ f \in PfFrame /\ f.at = "record" /\ f.self = t.self /\ f.from = t.from
          /\ f.interrupt = t.interrupt /\ f.fn = i
      BY <1>1, <2>2 DEF PfFrame, PfAt
    <3> HIDE DEF f
    <3>3. Knows(pf_fns, f)
      BY <3>2, <2>1, <2>2, <1>2 DEF Knows, Adds
    <3>4. CopiesOf(pf_fns, f.self, f.from) = HiddenOf(pf_fns, f.self, f.from)
      <4>1. {k \in DOMAIN pf_fns[i].arcs : pf_fns[i].arcs[k].from = t.from} = {}
        BY <2>4 DEF PfArcAt
      <4> QED
        BY <4>1, <3>2, <2>1, <1>1, <1>2, NothingFound
    <3>5. ~(f.fn = 0)
      BY <3>2, <2>2
    <3> QED
      BY <3>1, <3>2, <3>3, <3>4, <3>5, <1>1, <1>3, <1>4, FrameKept
  <2>5. CASE arcs # {}
    <3> DEFINE k == PfFirst(arcs)
    <3> DEFINE f == [t EXCEPT !.at = "count", !.fn = i, !.arc = k, !.count = pf_fns[i].arcs[k].count]
    <3>1. PfSetTop(f)
      BY <1>6, <2>5 DEF mcount_find
    <3>2. k \in DOMAIN pf_fns[i].arcs /\ k \in Nat /\ pf_fns[i].arcs[k].count \in Nat
      <4>1. arcs \subseteq 1 .. Len(pf_fns[i].arcs) /\ Len(pf_fns[i].arcs) \in Nat
        BY <2>3 DEF PfArcAt
      <4>2. k \in arcs
        BY <4>1, <2>5, NewestFound
      <4>3. k \in DOMAIN pf_fns[i].arcs /\ pf_fns[i].arcs[k] \in PfArc
        BY <4>1, <4>2, <2>3
      <4> QED
        BY <4>3, <2>3, PfRecords
    <3> HIDE DEF i, k
    <3>3. /\ f \in PfFrame /\ f.at = "count" /\ f.self = t.self /\ f.from = t.from
          /\ f.interrupt = t.interrupt /\ f.fn = i /\ f.arc = k
      BY <1>1, <2>2, <3>2 DEF PfFrame, PfAt
    <3> HIDE DEF f
    <3>4. Knows(pf_fns, f) /\ ~Adds(f)
      BY <3>2, <3>3, <2>2 DEF Knows, Adds
    <3> QED
      BY <3>1, <3>3, <3>4, <1>1, <1>3, <1>4, FrameKept
  <2> QED
    BY <2>4, <2>5
<1> QED
  BY <1>5, <1>6

\* A bucket that a byte of the text is in begins inside the text.
LEMMA BucketOf ==
  ASSUME NEW a \in Nat, NEW d \in Nat \ {0}
  PROVE  /\ a \div d \in Nat /\ (a \div d) * d <= a
         /\ \A b \in 0 .. (a \div d) - 1 : b \in Nat /\ b * d < a
<1>1. \E q \in Nat, r \in 0..(d - 1) : a \div d = q /\ a % d = r /\ a = d * q + r
  OBVIOUS
<1>2. PICK q \in Nat : a \div d = q /\ d * q <= a
  <2>1. \A x \in Nat : d * x \in Nat
    OBVIOUS
  <2> QED
    BY <1>1, <2>1
<1>3. \A x, y \in Nat : x < y => d * x + d <= d * y
  <2> SUFFICES ASSUME NEW x \in Nat, NEW y \in Nat, x < y
               PROVE  d * x + d <= d * y
    OBVIOUS
  <2>1. PICK z \in Nat : y = x + 1 + z
    <3>1. y - x - 1 \in Nat /\ y = x + 1 + (y - x - 1)
      OBVIOUS
    <3> QED
      BY <3>1
  <2>2. d * (x + 1 + z) = d * x + d + d * z /\ d * z \in Nat /\ d * x \in Nat
    OBVIOUS
  <2> QED
    BY <2>1, <2>2
<1>4. \A x \in Nat : d * x = x * d /\ d * x \in Nat
  OBVIOUS
<1>5. ASSUME NEW b \in 0 .. q - 1
      PROVE  b \in Nat /\ b * d < a
  <2>1. b \in Nat /\ b < q
    OBVIOUS
  <2>2. d * b + d <= d * q /\ d * b \in Nat /\ d * q \in Nat /\ d * b = b * d
    BY <2>1, <1>3, <1>4
  <2> QED
    BY <2>1, <2>2, <1>2
<1> QED
  BY <1>2, <1>4, <1>5

\* __mcount_record starts the sampler.
LEMMA SamplerKept ==
  ASSUME PfInv, mcount_record_sampler
  PROVE  PfInv'
<1> DEFINE t == PfRunning
<1>1. /\ pf_stack # <<>> /\ t.at = "record" /\ t \in PfFrame /\ Knows(pf_fns, t)
      /\ UNCHANGED <<pf_fns, pf_calls, pf_lost>>
  <2>1. Shaped(pf_stack) /\ pf_stack # <<>>
    BY DEF PfInv, mcount_record_sampler
  <2>2. Len(pf_stack) \in DOMAIN pf_stack /\ pf_stack[Len(pf_stack)] \in PfFrame
    BY <2>1, TopOfCalls
  <2> QED
    BY <2>2 DEF PfInv, mcount_record_sampler, PfRunning
<1> DEFINE f == [t EXCEPT !.at = "off"]
<1>2. /\ f \in PfFrame /\ f.at = "off" /\ f.self = t.self /\ f.from = t.from
      /\ f.interrupt = t.interrupt /\ f.fn = t.fn
  BY <1>1 DEF PfFrame, PfAt
<1>3. PfSetTop(f)
  BY DEF mcount_record_sampler
<1> HIDE DEF f
<1>4. Knows(pf_fns, f) /\ Adds(t) /\ t.at # "count"
  BY <1>1, <1>2 DEF Knows, Adds
<1>5. Sampled(pf_sampler')
  <2>1. Sampled(pf_sampler)
    BY DEF PfInv
  <2> DEFINE fresh == [b \in 0 .. (PfText \div PfBucket) - 1 |-> 0]
  <2>2. pf_sampler' = pf_sampler \/ pf_sampler' = [pf_sampler EXCEPT !.need = FALSE, !.samples = fresh]
    BY DEF mcount_record_sampler
  <2>3. \A b \in DOMAIN fresh : b \in Nat /\ b * PfBucket < PfText
    BY PfAssumption, BucketOf
  <2> HIDE DEF fresh
  <2>4. CASE pf_sampler' = [pf_sampler EXCEPT !.need = FALSE, !.samples = fresh]
    <3>1. pf_sampler' = [need |-> FALSE, samples |-> fresh]
      BY <2>1, <2>4 DEF Sampled
    <3> QED
      BY <3>1, <2>3 DEF Sampled
  <2> QED
    BY <2>1, <2>2, <2>4
<1> QED
  BY <1>1, <1>2, <1>3, <1>4, <1>5, FrameKept

\* The alarm counts a sample.
LEMMA SampleKept ==
  ASSUME PfInv, nios2_pcsample
  PROVE  PfInv'
<1>1. UNCHANGED <<pf_fns, pf_stack, pf_calls, pf_lost>>
  BY DEF nios2_pcsample
<1>2. Sampled(pf_sampler')
  <2>1. Sampled(pf_sampler)
    BY DEF PfInv
  <2>2. PICK pc \in 0 .. PfText :
          pf_sampler' = IF pc < PfText
                        THEN [pf_sampler EXCEPT !.samples =
                                [b \in DOMAIN @ \cup {pc \div PfBucket} |->
                                   IF b = pc \div PfBucket THEN 1 ELSE @[b]]]
                        ELSE pf_sampler
    BY DEF nios2_pcsample
  <2> DEFINE old == pf_sampler.samples
  <2> DEFINE more == [b \in DOMAIN old \cup {pc \div PfBucket} |->
                       IF b = pc \div PfBucket THEN 1 ELSE old[b]]
  <2>3. CASE pc < PfText
    <3>1. pf_sampler' = [pf_sampler EXCEPT !.samples = more]
      BY <2>2, <2>3
    <3>2. DOMAIN more = DOMAIN old \cup {pc \div PfBucket}
      OBVIOUS
    <3> HIDE DEF more
    <3>3. pf_sampler' = [need |-> pf_sampler.need, samples |-> more]
      BY <3>1, <2>1 DEF Sampled
    <3>4. pc \div PfBucket \in Nat /\ (pc \div PfBucket) * PfBucket < PfText
      <4>1. pc \in Nat /\ PfBucket \in Nat \ {0} /\ PfText \in Nat
        BY PfAssumption
      <4>2. pc \div PfBucket \in Nat /\ (pc \div PfBucket) * PfBucket <= pc
        BY <4>1, BucketOf
      <4>3. (pc \div PfBucket) * PfBucket \in Int
        BY <4>1, <4>2
      <4> QED
        BY <4>1, <4>2, <4>3, <2>3
    <3>5. ASSUME NEW b \in DOMAIN more
          PROVE  b \in Nat /\ b * PfBucket < PfText
      <4>1. CASE b = pc \div PfBucket
        BY <4>1, <3>4
      <4>2. CASE b \in DOMAIN old
        BY <4>2, <2>1 DEF Sampled
      <4> QED
        BY <4>1, <4>2, <3>2
    <3> QED
      BY <3>3, <3>5, <2>1 DEF Sampled
  <2>4. CASE ~(pc < PfText)
    BY <2>1, <2>2, <2>4
  <2> QED
    BY <2>3, <2>4
<1> QED
  BY <1>1, <1>2 DEF PfInv

\* The call on top ends: what it leaves.
LEMMA TopEnds ==
  ASSUME PfInv, pf_stack # <<>>, PfPop
  PROVE  LET t == PfRunning
         IN  /\ Shaped(pf_stack') /\ Len(pf_stack') = Len(pf_stack) - 1 /\ Len(pf_stack) \in Nat
             /\ t \in PfFrame /\ Knows(pf_fns, t)
             /\ \A x \in DOMAIN pf_stack' : /\ pf_stack'[x] \in PfFrame /\ ~pf_stack'[x].interrupt
                                            /\ t.interrupt /\ Knows(pf_fns, pf_stack'[x])
             /\ \A s, p : /\ Entering(pf_stack', s, p) => Entering(pf_stack, s, p)
                          /\ Recording(pf_stack', s, p) => Recording(pf_stack, s, p)
                          /\ Unfound(pf_stack', s) => Unfound(pf_stack, s)
             /\ Adds(t) => EndsEntering(pf_stack, pf_stack', t.self, t.from)
             /\ Adds(t) /\ ~t.interrupt /\ t.fn = 0 => Unfound(pf_stack, t.self)
<1>0. PICK t : t = PfRunning
  OBVIOUS
<1>1. /\ Shaped(pf_stack) /\ t = TopOf(pf_stack) /\ pf_stack' = Ended(pf_stack)
      /\ \A x \in DOMAIN pf_stack : Knows(pf_fns, pf_stack[x])
  BY <1>0 DEF PfInv, PfRunning, TopOf, PfPop, Ended
<1>2. Len(pf_stack) \in DOMAIN pf_stack /\ t \in PfFrame /\ Len(pf_stack) \in Nat
  BY <1>1, TopOfCalls DEF TopOf
<1>3. Knows(pf_fns, t)
  BY <1>1, <1>2 DEF TopOf
<1>4. t.interrupt \in BOOLEAN
  BY <1>2 DEF PfFrame
<1>5. /\ Shaped(pf_stack') /\ Len(pf_stack') = Len(pf_stack) - 1
      /\ \A x \in DOMAIN pf_stack' : /\ x \in DOMAIN pf_stack /\ pf_stack'[x] = pf_stack[x] /\ t.interrupt
                                     /\ ~pf_stack[x].interrupt /\ pf_stack[x].at # "off"
  BY <1>1, CallEnds
<1>6. t.interrupt => \A s, p :
        /\ Recording(pf_stack', s, p) <=> Recording(pf_stack, s, p)
        /\ Unfound(pf_stack', s) <=> Unfound(pf_stack, s)
        /\ Entering(pf_stack, s, p) <=> t.at # "count" /\ t.self = s /\ t.from = p
        /\ ~Entering(pf_stack', s, p)
  BY <1>1, CallEnds, SMTT(40)
<1>7. ~t.interrupt => \A s, p :
        /\ ~Entering(pf_stack, s, p) /\ ~Entering(pf_stack', s, p)
        /\ Recording(pf_stack, s, p) <=> Adds(t) /\ t.self = s /\ t.from = p
        /\ Unfound(pf_stack, s) <=> Adds(t) /\ t.self = s /\ t.fn = 0
        /\ ~Recording(pf_stack', s, p) /\ ~Unfound(pf_stack', s)
  BY <1>1, CallEnds, SMTT(40)
<1>8. \A x \in DOMAIN pf_stack' : /\ pf_stack'[x] \in PfFrame /\ ~pf_stack'[x].interrupt
                                  /\ t.interrupt /\ Knows(pf_fns, pf_stack'[x])
  BY <1>1, <1>5 DEF Shaped
<1>9. \A s, p : /\ Entering(pf_stack', s, p) => Entering(pf_stack, s, p)
                /\ Recording(pf_stack', s, p) => Recording(pf_stack, s, p)
                /\ Unfound(pf_stack', s) => Unfound(pf_stack, s)
  BY <1>4, <1>6, <1>7
<1>10. ASSUME Adds(t)
       PROVE  EndsEntering(pf_stack, pf_stack', t.self, t.from)
  <2>1. t.at # "count"
    BY <1>10 DEF Adds
  <2>2. CASE t.interrupt
    <3>1. Entering(pf_stack, t.self, t.from) /\ ~Entering(pf_stack', t.self, t.from)
      BY <2>1, <2>2, <1>6
    <3>2. \A s, p : /\ Entering(pf_stack', s, p) => Entering(pf_stack, s, p)
                    /\ Recording(pf_stack', s, p) => Recording(pf_stack, s, p)
                    /\ Unfound(pf_stack', s) => Unfound(pf_stack, s)
      BY <1>9
    <3> QED
      BY <3>1, <3>2 DEF EndsEntering
  <2>3. CASE ~t.interrupt
    <3>1. /\ Recording(pf_stack, t.self, t.from) /\ ~Recording(pf_stack', t.self, t.from)
          /\ \A s : ~Unfound(pf_stack', s)
      BY <1>10, <2>3, <1>7
    <3>2. \A s, p : /\ Entering(pf_stack', s, p) => Entering(pf_stack, s, p)
                    /\ Recording(pf_stack', s, p) => Recording(pf_stack, s, p)
                    /\ Unfound(pf_stack', s) => Unfound(pf_stack, s)
      BY <1>9
    <3> QED
      BY <3>1, <3>2 DEF EndsEntering
  <2> QED
    BY <2>2, <2>3
<1>11. Adds(t) /\ ~t.interrupt /\ t.fn = 0 => Unfound(pf_stack, t.self)
  BY <1>7
<1> QED
  BY <1>0, <1>2, <1>3, <1>5, <1>8, <1>9, <1>10, <1>11

\* The count is stored, whatever an interrupt added since it was read.
LEMMA StoreKept ==
  ASSUME PfInv, mcount_store
  PROVE  PfInv'
<1> DEFINE t == PfRunning
<1>1. /\ pf_stack # <<>> /\ t.at = "count" /\ PfPop /\ UNCHANGED <<pf_calls, pf_sampler>>
      /\ pf_fns' = [pf_fns EXCEPT ![t.fn].arcs[t.arc].count = t.count + 1]
      /\ pf_lost' = pf_lost + pf_fns[t.fn].arcs[t.arc].count - t.count
  BY DEF mcount_store
<1>2. /\ Shaped(pf_stack') /\ Len(pf_stack') = Len(pf_stack) - 1 /\ Len(pf_stack) \in Nat
      /\ t \in PfFrame /\ Knows(pf_fns, t)
      /\ \A x \in DOMAIN pf_stack' : Knows(pf_fns, pf_stack'[x])
      /\ \A s, p : /\ Entering(pf_stack', s, p) => Entering(pf_stack, s, p)
                   /\ Recording(pf_stack', s, p) => Recording(pf_stack, s, p)
                   /\ Unfound(pf_stack', s) => Unfound(pf_stack, s)
  BY <1>1, TopEnds
<1>3. /\ t.fn \in DOMAIN pf_fns /\ t.arc \in DOMAIN pf_fns[t.fn].arcs /\ t.count \in Nat
      /\ pf_fns \in Seq(PfEntry) /\ IsFiniteSet(MarksOf(pf_fns)) /\ IsFiniteSet(ArcsOf(pf_fns))
  BY <1>1, <1>2 DEF Knows, PfFrame, PfInv
<1> HIDE DEF t
<1> DEFINE c == t.count + 1
<1> DEFINE now == pf_fns[t.fn].arcs[t.arc].count
<1>4. c \in Nat /\ pf_fns' = Stored(pf_fns, t.fn, t.arc, c)
  BY <1>1, <1>3 DEF Stored
<1>5. /\ pf_fns' \in Seq(PfEntry) /\ DOMAIN pf_fns' = DOMAIN pf_fns
      /\ \A j \in DOMAIN pf_fns : /\ pf_fns'[j].self = pf_fns[j].self
                                  /\ DOMAIN pf_fns'[j].arcs = DOMAIN pf_fns[j].arcs
      /\ ArcsOf(pf_fns') = ArcsOf(pf_fns)
      /\ \A s, p : /\ CopiesOf(pf_fns', s, p) = CopiesOf(pf_fns, s, p)
                   /\ FnsOf(pf_fns', s) = FnsOf(pf_fns, s)
                   /\ HiddenOf(pf_fns', s, p) = HiddenOf(pf_fns, s, p)
      /\ IsFiniteSet(MarksOf(pf_fns'))
      /\ now \in Nat
      /\ Cardinality(MarksOf(pf_fns')) = Cardinality(MarksOf(pf_fns)) - now + c
  <2> HIDE DEF c
  <2> QED
    BY <1>3, <1>4, CountStored
<1>6. \A x \in DOMAIN pf_stack' : Knows(pf_fns', pf_stack'[x])
  <2> SUFFICES ASSUME NEW x \in DOMAIN pf_stack'
               PROVE  Knows(pf_fns', pf_stack'[x])
    OBVIOUS
  <2>1. Knows(pf_fns, pf_stack'[x])
    BY <1>2
  <2> QED
    BY <2>1, <1>5 DEF Knows
<1> DEFINE n == Cardinality(IntsOf(pf_calls))
<1>7. CopiesFit(pf_fns', pf_stack', n)
  <2>1. n \in Nat /\ CopiesFit(pf_fns, pf_stack, n)
    BY IntsNumber DEF PfInv
  <2> HIDE DEF n
  <2>2. Moves(pf_fns, pf_stack, pf_stack')
    BY <1>2 DEF Moves
  <2>3. CopiesFit(pf_fns, pf_stack', n)
    BY <2>1, <2>2, <1>3, MovesFitting
  <2> QED
    BY <2>3, <1>5 DEF CopiesFit
<1>8. Cardinality(MarksOf(pf_fns')) + pf_lost' + Len(pf_stack') = Len(pf_calls)
  <2>1. Cardinality(MarksOf(pf_fns)) \in Nat
    BY <1>3, FS_CardinalityType
  <2>2. /\ pf_lost \in Int /\ Len(pf_calls) \in Nat
        /\ Cardinality(MarksOf(pf_fns)) + pf_lost + Len(pf_stack) = Len(pf_calls)
    BY IntsNumber DEF PfInv
  <2>3. pf_lost' = pf_lost + now - t.count
    BY <1>1
  <2>4. /\ now \in Nat /\ Cardinality(MarksOf(pf_fns')) = Cardinality(MarksOf(pf_fns)) - now + (t.count + 1)
        /\ Len(pf_stack') = Len(pf_stack) - 1 /\ Len(pf_stack) \in Nat /\ t.count \in Nat
    BY <1>2, <1>3, <1>5
  <2> HIDE DEF now
  <2>5. ASSUME NEW m \in Nat, NEW m1, m1 = m - now + (t.count + 1)
        PROVE  m1 + (pf_lost + now - t.count) + (Len(pf_stack) - 1) = m + pf_lost + Len(pf_stack)
    BY <2>2, <2>4, <2>5
  <2> QED
    BY <2>1, <2>2, <2>3, <2>4, <2>5
<1>9. pf_lost' \in Int /\ Sampled(pf_sampler') /\ pf_calls' \in PfCallsOf
  <2>1. pf_lost \in Int
    BY DEF PfInv
  <2>2. pf_lost' = pf_lost + now - t.count
    BY <1>1
  <2> HIDE DEF now
  <2> QED
    BY <2>1, <2>2, <1>1, <1>3, <1>5 DEF PfInv
<1>10. pf_calls' = pf_calls
  BY <1>1
<1> QED
  BY <1>2, <1>3, <1>5, <1>6, <1>7, <1>8, <1>9, <1>10 DEF PfInv

\* What an interrupted call knows stays true when the interrupt enters an arc.
LEMMA KnowsEntered ==
  ASSUME NEW g \in Seq(PfEntry), NEW h, NEW s, NEW p, NEW e, Entered(g, h, s, p, e),
         NEW f, ~f.interrupt, Knows(g, f),
         \/ e[1] \in DOMAIN g /\ \A j \in FnsOf(g, s) : j <= e[1]
         \/ e[1] \notin DOMAIN g /\ FnsOf(g, s) = {}
  PROVE  Knows(h, f)
<1>1. \A i \in DOMAIN g : /\ i \in DOMAIN h /\ h[i].self = g[i].self
                          /\ DOMAIN g[i].arcs \subseteq DOMAIN h[i].arcs
  BY DEF Entered
<1>2. f.fn # 0 => FnsOf(h, f.self) = FnsOf(g, f.self)
  <2>1. CASE e[1] \in DOMAIN g /\ \A j \in FnsOf(g, s) : j <= e[1]
    BY <2>1, EnteredUnderNewest
  <2>2. CASE e[1] \notin DOMAIN g /\ FnsOf(g, s) = {} /\ f.fn # 0
    <3>1. f.self # s
      BY <2>2 DEF Knows, FnsOf
    <3> QED
      BY <3>1, <2>2, EnteredAsNewest
  <2> QED
    BY <2>1, <2>2
<1> QED
  BY <1>1, <1>2 DEF Knows

\* The new arc is entered, by the program or an interrupt.
LEMMA ArcKept ==
  ASSUME PfInv, mcount_record_arc
  PROVE  PfInv'
<1> DEFINE t == PfRunning
<1> DEFINE a == [from |-> t.from, count |-> 1]
<1>1. /\ pf_stack # <<>> /\ t.at = "off" /\ PfPop /\ UNCHANGED <<pf_calls, pf_lost, pf_sampler>>
      /\ pf_fns' = IF t.fn = 0 THEN Append(pf_fns, [self |-> t.self, arcs |-> <<a>>])
                    ELSE [pf_fns EXCEPT ![t.fn].arcs = Append(@, a)]
  BY DEF mcount_record_arc
<1>2. /\ Shaped(pf_stack') /\ Len(pf_stack') = Len(pf_stack) - 1 /\ Len(pf_stack) \in Nat
      /\ t \in PfFrame /\ Knows(pf_fns, t)
      /\ \A x \in DOMAIN pf_stack' : /\ ~pf_stack'[x].interrupt
                                     /\ t.interrupt /\ Knows(pf_fns, pf_stack'[x])
      /\ Adds(t) => EndsEntering(pf_stack, pf_stack', t.self, t.from)
      /\ Adds(t) /\ ~t.interrupt /\ t.fn = 0 => Unfound(pf_stack, t.self)
  BY <1>1, TopEnds
<1>3. Adds(t) /\ t.self \in PfFns /\ t.from \in PfCallers /\ t.interrupt \in BOOLEAN
  BY <1>1, <1>2 DEF Adds, PfFrame
<1>4. /\ pf_fns \in Seq(PfEntry) /\ IsFiniteSet(MarksOf(pf_fns)) /\ IsFiniteSet(ArcsOf(pf_fns))
  BY DEF PfInv
<1> HIDE DEF t
<1>5. \E e : /\ Entered(pf_fns, pf_fns', t.self, t.from, e)
             /\ \/ e[1] \in DOMAIN pf_fns /\ \A j \in FnsOf(pf_fns, t.self) : j <= e[1]
                \/ e[1] \notin DOMAIN pf_fns /\ t.fn = 0
  <2>1. CASE t.fn = 0
    <3> DEFINE e == <<Len(pf_fns) + 1, 1>>
    <3>1. Entered(pf_fns, pf_fns', t.self, t.from, e)
      BY <2>1, <1>1, <1>3, <1>4, EnteredFn
    <3>2. e[1] \notin DOMAIN pf_fns
      BY <1>4
    <3> QED
      BY <3>1, <3>2, <2>1
  <2>2. CASE t.fn # 0
    <3> DEFINE e == <<t.fn, Len(pf_fns[t.fn].arcs) + 1>>
    <3>1. /\ t.fn \in DOMAIN pf_fns /\ pf_fns[t.fn].self = t.self
          /\ \A j \in FnsOf(pf_fns, t.self) : j <= t.fn
      BY <2>2, <1>2, <1>3 DEF Knows
    <3>2. Entered(pf_fns, pf_fns', pf_fns[t.fn].self, t.from, e)
      BY <3>1, <2>2, <1>1, <1>3, <1>4, EnteredArc
    <3>3. e[1] = t.fn
      OBVIOUS
    <3> QED
      BY <3>1, <3>2, <3>3
  <2> QED
    BY <2>1, <2>2
<1>6. PICK e : /\ Entered(pf_fns, pf_fns', t.self, t.from, e)
               /\ \/ e[1] \in DOMAIN pf_fns /\ \A j \in FnsOf(pf_fns, t.self) : j <= e[1]
                  \/ e[1] \notin DOMAIN pf_fns /\ t.fn = 0
  BY <1>5
<1>7. pf_fns' \in Seq(PfEntry)
  BY <1>6 DEF Entered
<1>8. /\ IsFiniteSet(MarksOf(pf_fns')) /\ IsFiniteSet(ArcsOf(pf_fns'))
      /\ Cardinality(MarksOf(pf_fns')) = Cardinality(MarksOf(pf_fns)) + 1
  BY <1>4, <1>6, EnteredMarks, EnteredCopies
<1>9. \A x \in DOMAIN pf_stack' : Knows(pf_fns', pf_stack'[x])
  <2> SUFFICES ASSUME NEW x \in DOMAIN pf_stack'
               PROVE  Knows(pf_fns', pf_stack'[x])
    OBVIOUS
  <2>1. ~pf_stack'[x].interrupt /\ t.interrupt /\ Knows(pf_fns, pf_stack'[x])
    BY <1>2
  <2>2. t.fn = 0 => FnsOf(pf_fns, t.self) = {}
    BY <2>1, <1>2, <1>3 DEF Knows
  <2> QED
    BY <2>1, <2>2, <1>4, <1>6, KnowsEntered
<1> DEFINE n == Cardinality(IntsOf(pf_calls))
<1>10. CopiesFit(pf_fns', pf_stack', n)
  <2>1. n \in Nat /\ CopiesFit(pf_fns, pf_stack, n)
    BY IntsNumber DEF PfInv
  <2> HIDE DEF n
  <2>2. EndsEntering(pf_stack, pf_stack', t.self, t.from)
    BY <1>2, <1>3
  <2>3. t.fn = 0 => FnsOf(pf_fns, t.self) = {} \/ Unfound(pf_stack, t.self)
    BY <1>2, <1>3 DEF Knows
  <2> QED
    BY <2>1, <2>2, <2>3, <1>4, <1>6, EntersFitting
<1>11. Cardinality(MarksOf(pf_fns')) + pf_lost + Len(pf_stack') = Len(pf_calls)
  <2>1. Cardinality(MarksOf(pf_fns)) \in Nat
    BY <1>4, FS_CardinalityType
  <2>2. /\ pf_lost \in Int /\ Len(pf_calls) \in Nat
        /\ Cardinality(MarksOf(pf_fns)) + pf_lost + Len(pf_stack) = Len(pf_calls)
    BY IntsNumber DEF PfInv
  <2> QED
    BY <2>1, <2>2, <1>2, <1>8
<1>12. pf_calls' = pf_calls /\ pf_lost' = pf_lost /\ pf_sampler' = pf_sampler
  BY <1>1
<1> QED
  BY <1>2, <1>7, <1>8, <1>9, <1>10, <1>11, <1>12 DEF PfInv

\* Every step of the profiler keeps the invariant.
LEMMA PfKept == PfInv /\ [PfNext]_pfVars => PfInv'
<1>1. ASSUME PfInv, PfNext
      PROVE  PfInv'
  BY <1>1, CallKept, FindKept, StoreKept, SamplerKept, ArcKept, SampleKept DEF PfNext
<1>2. ASSUME PfInv, UNCHANGED pfVars
      PROVE  PfInv'
  BY <1>2 DEF PfInv, pfVars
<1> QED
  BY <1>1, <1>2

\* Whenever interrupts come and call profiled functions themselves: every call is counted in
\* some copy of its arc but those under way and those a cut increment overwrote, and an arc
\* is never in the lists more often than interrupts recorded it, and once
\* (alt_mcount.S, alt_gmon.c).
THEOREM ProfileIsTrue == PfSpec => []ProfileSafe
<1> QED
  BY PfStarts, PfKept, PfMeans, PTL DEF PfSpec

=============================================================================
