----------------------------- MODULE Impressao -----------------------------
(***************************************************************************)
(* The two formatters of the board support package, character of the       *)
(* format by character: alt_log_private_printf (HAL/src/alt_log_printf.c)  *)
(* and alt_printf (HAL/src/alt_printf.c), the second with the buffer of    *)
(* alt_putcharbuf.  The format may be any sequence of characters, and an   *)
(* argument any word the runs name.                                        *)
(***************************************************************************)
EXTENDS Integers, Sequences

CONSTANTS PtWord,       \* values of a word: 2^32 in the code
          PtArgs,       \* the words that are printed
          PtMaxSpec,    \* bound: characters of one conversion, or printed by one alt_printf
          PtBufSize     \* ALT_PUTBUF_SIZE

\* The place values of the 8 digits of a word to the base 16.
PtPlace[n \in 1 .. 8] == IF n = 1 THEN 1 ELSE 16 * PtPlace[n - 1]

ASSUME PtAssumption == /\ PtWord \in Nat /\ PtWord > 1 /\ PtArgs \subseteq 0 .. PtWord - 1
                       /\ (PtWord - 1) \div 16 < PtPlace[8]      \* 32 bits at most
                       /\ PtMaxSpec \in Nat /\ PtBufSize \in Nat \ {0}

VARIABLES pt,        \* state of alt_log_private_printf; spec is the conversion read so far
          ptOut,     \* what the last character of the format, or conversion, printed
          ptArg,     \* the argument that conversion took, or PtNone
          ap,        \* state of alt_printf
          apRest,    \* what it still hands to alt_putchar before it reads on
          apOut,     \* history: what alt_printf was to print since it was called
          apBuf,     \* buf, up to fill_index
          apWritten, \* history: what the standard output took in this call
          apLost     \* history: characters that it was given and did not take

apVars == <<ap, apRest, apOut, apBuf, apWritten, apLost>>
ptVars == <<pt, ptOut, ptArg, apVars>>

PtNone == -1
PtFormat == {"0", "2", "4", ".", "l", "d", "u", "o", "x", "X", "c", "s", "%", "a"}
PtValue(c) == CASE c = "0" -> 0 [] c = "2" -> 2 [] c = "4" -> 4

(* What is printed: a digit is its number (the case of its letter is left  *)
(* out), and anything else a number below 0.                               *)
PtMinus == -1
PtBlank == -2
PtFill  == -3                \* a 0 that fills the width
PtText(c) == CASE c = "%" -> -4 [] c = "c" -> -5 [] OTHER -> -6
PtString == <<-7, -8>>       \* what %s prints: a string of the program, always this one

-----------------------------------------------------------------------------
(* alt_log_private_printf. *)

PtBegin == [mode |-> "chars", zero |-> FALSE, before |-> -1, after |-> -1, spec |-> <<>>]

PtChars(c) ==
  IF c = "%" THEN pt' = [PtBegin EXCEPT !.mode = "first", !.spec = <<c>>] /\ ptOut' = <<>> /\ ptArg' = PtNone
  ELSE pt' = PtBegin /\ ptOut' = <<PtText(c)>> /\ ptArg' = PtNone

(* alt_log_repchar *)
PtRepeat(c, n) == [i \in 1 .. (IF n > 0 THEN n ELSE 0) |-> c]

(* Digits are counted by dividing; the place value of the first is kept.   *)
PtLargest(v, base) ==
  LET Count[x \in 0 .. PtWord - 1] ==
        IF x \div base > 0
        THEN [digits |-> Count[x \div base].digits + 1, p |-> Count[x \div base].p * base]
        ELSE [digits |-> 1, p |-> 1]
  IN  Count[v]

PtDigits(v, base) ==
  LET Down[p \in 0 .. PtWord] ==
        [x \in 0 .. PtWord - 1 |-> IF p = 0 THEN <<>>
                                   ELSE <<x \div p>> \o Down[p \div base][x % p]]
  IN  Down[PtLargest(v, base).p][v]

PtInteger_SignPads(v, base, signed) ==
  LET sign == signed /\ v >= PtWord \div 2
      mag  == IF sign THEN PtWord - v ELSE v
      pad  == pt.before - PtLargest(mag, base).digits
  IN  (IF pt.zero THEN (IF sign THEN <<PtMinus>> ELSE <<>>) \o PtRepeat(PtFill, pad)
       ELSE PtRepeat(PtBlank, pad) \o (IF sign THEN <<PtMinus>> ELSE <<>>))
      \o PtDigits(mag, base)
PtInteger(v, base, signed) ==
  LET sign == signed /\ v >= PtWord \div 2
      mag  == IF sign THEN PtWord - v ELSE v
      pad  == pt.before - PtLargest(mag, base).digits - (IF sign THEN 1 ELSE 0)
  IN  (IF pt.zero THEN (IF sign THEN <<PtMinus>> ELSE <<>>) \o PtRepeat(PtFill, pad)
       ELSE PtRepeat(PtBlank, pad) \o (IF sign THEN <<PtMinus>> ELSE <<>>))
      \o PtDigits(mag, base)

PtBase(letter) == CASE letter \in {"d", "u"} -> 10 [] letter = "o" -> 8 [] OTHER -> 16

(* The letter that ends a conversion. Any other than these prints nothing  *)
(* and takes no argument.                                                  *)
PtConvert(c) ==
  /\ pt' = [pt EXCEPT !.mode = "chars", !.spec = Append(@, c)]
  /\ CASE c \in {"d", "u", "o", "x", "X"} ->
            \E v \in PtArgs :
              /\ ptArg' = v
              /\ ptOut' = PtInteger(v, PtBase(c), c = "d")
       [] c = "c" -> ptArg' = 0 /\ ptOut' = PtRepeat(PtBlank, pt.before - 1) \o <<PtText(c)>>
       [] c = "s" -> ptArg' = 0 /\ ptOut' = PtRepeat(PtBlank, pt.before - Len(PtString)) \o PtString
       [] OTHER -> ptArg' = PtNone /\ ptOut' = <<>>

PtMore(c) ==
  /\ pt' = [pt EXCEPT !.mode = "other", !.spec = Append(@, c),
              !.after  = IF c = "." THEN 0
                         ELSE IF c = "l" \/ @ < 0 THEN @ ELSE @ * 10 + PtValue(c),
              !.before = IF c \in {".", "l"} \/ pt.after >= 0 THEN @
                         ELSE (IF @ < 0 THEN 0 ELSE @ * 10) + PtValue(c)]
  /\ UNCHANGED <<ptOut, ptArg>>

PtOther(c) == IF c \in {"0", "2", "4", ".", "l"} THEN PtMore(c) ELSE PtConvert(c)

PtFirst(c) ==
  CASE c = "0" -> /\ pt' = [pt EXCEPT !.zero = TRUE, !.mode = "other", !.spec = Append(@, c)]
                  /\ UNCHANGED <<ptOut, ptArg>>
    [] c = "%" -> pt' = PtBegin /\ ptOut' = <<PtText(c)>> /\ UNCHANGED ptArg
    [] OTHER   -> PtOther(c)

alt_log_private_printf ==
  /\ \E c \in PtFormat :
       /\ Len(pt.spec) >= PtMaxSpec => c \notin {"0", "2", "4", ".", "l"}
       /\ CASE pt.mode = "chars" -> PtChars(c)
            [] pt.mode = "first" -> PtFirst(c)
            [] pt.mode = "other" -> PtOther(c)
  /\ UNCHANGED apVars

-----------------------------------------------------------------------------
(* alt_printf, with ALT_SEMIHOSTING: alt_putchar is alt_putcharbuf.        *)

(* %x finds the first digit that is not 0 from the top, then prints from   *)
(* it down: digit_shift is 4 * (n - 1) at the digit of place PtPlace[n].   *)
PtHex(v) ==
  IF v = 0 THEN <<0>>
  ELSE LET top == CHOOSE n \in 1 .. 8 : /\ (v \div PtPlace[n]) % 16 # 0
                                        /\ \A m \in n + 1 .. 8 : (v \div PtPlace[m]) % 16 = 0
       IN  [i \in 1 .. top |-> (v \div PtPlace[top + 1 - i]) % 16]

(* alt_putbufflush: write may take less than it is given, or fail; the     *)
(* buffer is empty all the same.                                           *)
alt_putbufflush(buf) ==
  /\ \E taken \in 0 .. Len(buf) :
       /\ apWritten' = apWritten \o SubSeq(buf, 1, taken)
       /\ apLost' = apLost + (Len(buf) - taken)
  /\ apBuf' = <<>>

alt_putcharbuf ==
  /\ apRest # <<>> /\ apRest' = Tail(apRest)
  /\ LET buf == Append(apBuf, Head(apRest))
     IN  IF Len(buf) >= PtBufSize THEN alt_putbufflush(buf)
         ELSE apBuf' = buf /\ UNCHANGED <<apWritten, apLost>>
  /\ UNCHANGED <<pt, ptOut, ptArg, ap, apOut>>

ApPrint(out) == apRest' = out /\ apOut' = apOut \o out

ApChar ==
  /\ ap = "chars" /\ apRest = <<>>
  /\ Len(apOut) < PtMaxSpec
  /\ \E c \in {"%", "a"} :
       IF c = "%" THEN ap' = "format" /\ UNCHANGED <<apRest, apOut>>
       ELSE ap' = ap /\ ApPrint(<<PtText(c)>>)
  /\ UNCHANGED <<pt, ptOut, ptArg, apBuf, apWritten, apLost>>

ApFormat ==
  /\ ap = "format" /\ ap' = "chars"
  /\ \E c \in {"%", "c", "x", "s", "a"} :
       CASE c \in {"%", "c"} -> ApPrint(<<PtText(c)>>)
         [] c = "x" -> \E v \in PtArgs : ApPrint(PtHex(v))
         [] c = "s" -> ApPrint(PtString)
         [] OTHER   -> UNCHANGED <<apRest, apOut>>
  /\ UNCHANGED <<pt, ptOut, ptArg, apBuf, apWritten, apLost>>

(* The end of the format, also behind a lone %.                            *)
ApEnd ==
  /\ ap \in {"chars", "format"} /\ apRest = <<>> /\ ap' = "done"
  /\ alt_putbufflush(apBuf)
  /\ UNCHANGED <<pt, ptOut, ptArg, apRest, apOut>>

ApCall ==
  /\ ap = "done" /\ ap' = "chars" /\ apOut' = <<>> /\ apWritten' = <<>> /\ apLost' = 0
  /\ UNCHANGED <<pt, ptOut, ptArg, apRest, apBuf>>

PtInit ==
  /\ pt = PtBegin /\ ptOut = <<>> /\ ptArg = PtNone
  /\ ap = "done" /\ apRest = <<>> /\ apOut = <<>> /\ apBuf = <<>> /\ apWritten = <<>> /\ apLost = 0

PtNext ==
  \/ ap = "done" /\ apOut = <<>> /\ alt_log_private_printf
  \/ pt = PtBegin /\ ptOut = <<>> /\ (alt_putcharbuf \/ ApChar \/ ApFormat \/ ApEnd \/ ApCall)

PtSpec == PtInit /\ [][PtNext]_ptVars

-----------------------------------------------------------------------------
(* The fields of the formatters: a width is -1 until its first digit was   *)
(* read, and fill_index stays inside alt_putcharbuf's buffer.              *)
PtTypeOK ==
  /\ pt \in [mode : {"chars", "first", "other"}, zero : BOOLEAN, before : Nat \cup {-1},
            after : Nat \cup {-1}, spec : Seq(PtFormat)]
  /\ ap \in {"chars", "format", "done"}
  /\ Len(apBuf) < PtBufSize

(* What a conversion asks for, read from its characters alone: the letter, *)
(* the leading 0 and the width.                                            *)
PtAsked(spec) ==
  LET n     == Len(spec)
      start == IF n > 1 /\ spec[2] = "0" THEN 3 ELSE 2
      Width[i \in 1 .. n] ==
        IF i < start THEN 0
        ELSE IF spec[i] \in {"0", "2", "4"} /\ (\A j \in 1 .. i : spec[j] # ".")
             THEN Width[i - 1] * 10 + PtValue(spec[i])
             ELSE Width[i - 1]
  IN  [letter |-> spec[n], zero |-> start = 3, width |-> Width[n]]

(* What a sequence of digits is read as. *)
PtRead(digits, base) ==
  LET Read[i \in 0 .. Len(digits)] == IF i = 0 THEN 0 ELSE Read[i - 1] * base + digits[i]
  IN  Read[Len(digits)]

(* Every conversion prints the number it was given: sign, padding and      *)
(* digits have the width asked for or more only if the number needs more,  *)
(* the digits have no leading 0, and read back in the base they give the   *)
(* argument.                                                               *)
PtNumber(asked, v, out) ==
  LET base == PtBase(asked.letter)
      sign == IF asked.letter = "d" /\ v >= PtWord \div 2 THEN <<PtMinus>> ELSE <<>>
  IN  \E n \in 1 .. Len(out) :
        LET digits == SubSeq(out, Len(out) - n + 1, Len(out))
            need   == Len(sign) + n
            pads   == Len(out) - need
        IN  /\ \A i \in 1 .. n : digits[i] \in 0 .. base - 1
            /\ digits[1] = 0 => n = 1
            /\ PtRead(digits, base) = IF sign = <<>> THEN v ELSE PtWord - v
            /\ Len(out) = IF asked.width > need THEN asked.width ELSE need
            /\ out = (IF asked.zero THEN sign \o PtRepeat(PtFill, pads)
                      ELSE PtRepeat(PtBlank, pads) \o sign) \o digits

ConversionsExact ==
  (pt.mode = "chars" /\ pt.spec # <<>> /\ ptArg # PtNone
     /\ PtAsked(pt.spec).letter \in {"d", "u", "o", "x", "X"})
    => PtNumber(PtAsked(pt.spec), ptArg, ptOut)

(* At the end of every alt_printf nothing waits in the buffer, and all     *)
(* that was to be printed has been given to write, once: what the standard *)
(* output did not take is lost for good, and if it took everything it has  *)
(* all, in order, however the ends of the buffer fall in the text.         *)
NothingLeftInBuffer ==
  ap = "done" =>
    /\ apBuf = <<>> /\ Len(apWritten) + apLost = Len(apOut)
    /\ apLost = 0 => apWritten = apOut

(* alt_printf's %x prints the shortest form of the number.                 *)
HexShortest ==
  \A v \in PtArgs : PtHex(v) = PtDigits(v, 16)
=============================================================================
