---------------------------- MODULE Tempo_proofs ----------------------------
(* Interrupts and time: handlers nest by priority on a table that is never   *)
(* half written, the clock counts every period and timestamps every edge,    *)
(* the time of day follows the ticks, and the alarms are called when they    *)
(* are due.                                                                  *)
EXTENDS Interrupcoes, Temporizador, HoraDoDia, Alarmes, FiniteSetTheorems, SequenceTheorems, WellFoundedInduction, TLAPS

-----------------------------------------------------------------------------
(* Naturals without induction over data.                                   *)

\* Every nonempty set of naturals has a least element.
LEMMA LeastNatural ==
  ASSUME NEW T, T \subseteq Nat, T # {}
  PROVE  \E x \in T : \A y \in T : x <= y
<1>1. PICK x \in T : \A y \in T : ~(<<y, x>> \in OpToRel(<, Nat))
  BY NatLessThanWellFounded, WFMin
<1>2. \A y \in T : ~(y < x)
  BY <1>1 DEF OpToRel
<1> QED
  BY <1>2

\* A set of naturals with 0 and the successors of its members has them all.
LEMMA NaturalSteps ==
  ASSUME NEW S, 0 \in S, \A n \in Nat : n \in S => n + 1 \in S
  PROVE  Nat \subseteq S
<1> SUFFICES ASSUME Nat \ S # {} PROVE FALSE
  OBVIOUS
<1>1. PICK x \in Nat \ S : \A y \in Nat \ S : x <= y
  BY LeastNatural
<1>2. x - 1 \in Nat /\ x - 1 \in S
  BY <1>1
<1> QED
  BY <1>2

-----------------------------------------------------------------------------
(* Interrupts (alt_irq_handler.c, alt_iic_isr_register.c, alt_legacy_irq.h). *)

\* What a frame keeps.
Frame == [pc : 0..(Wrap - 1), pie : BOOLEAN, at : Places, irq : IrqLines \cup {NoIrq},
          old : SUBSET IrqLines, served : BOOLEAN]

Depth == Len(frames)

\* The sections remember that interrupts were on before the outermost only.
Sections ==
  /\ \A k \in 1..Len(prog.contexts) : prog.contexts[k] = (k = 1)
  /\ prog.step # "run" => prog.contexts # <<>>

\* All frames but the innermost are open handlers; only these let an interrupt in.
Nesting ==
  /\ \A k \in 1..(Depth - 1) : frames[k].at = "open"
  /\ \A k \in 1..Depth : frames[k].irq # NoIrq <=> frames[k].at \in {"isr", "open"}
  /\ \A k \in 2..Depth : frames[k].pie
  /\ \A k \in 2..Depth : /\ frames[k].at \notin {"notirq", "stopped"}
                         /\ frames[k].at = "entry" => alt_irq_pending # {}
  /\ cpu.pie <=> IF frames = <<>> THEN prog.contexts = <<>> ELSE frames[Depth].at = "open"

\* What was interrupted is a whole call of the program, and in a section only an
\* exception was taken.
Outermost ==
  frames # <<>> =>
    /\ frames[1].pie <=> prog.contexts = <<>>
    /\ prog.step = "run"
    /\ prog.contexts # <<>> => \A k \in 1..Depth : frames[k].at \in {"entry", "notirq", "stopped"}
    /\ frames[1].pc = prog.pc

\* The mask below the frame k.
Below(fr, k) == IF k = 1 THEN IrqLines ELSE MoreUrgent(fr[k - 1].irq)

Masks ==
  /\ cpu.alt_priority_mask = IF frames = <<>> THEN IrqLines
                             ELSE IF frames[Depth].at = "open" THEN MoreUrgent(frames[Depth].irq)
                             ELSE Below(frames, Depth)
  /\ \A k \in 1..Depth : frames[k].at = "open" => frames[k].old = Below(frames, k)
  /\ cpu.ienable = cpu.alt_irq_active \cap cpu.alt_priority_mask

\* The entry under registration may be half written.
Table ==
  /\ \A i \in IrqLines : (i = prog.irq /\ prog.step = "context") \/ alt_irq[i].handler = alt_irq[i].context
  /\ \A i \in cpu.alt_irq_active :
       (i = prog.irq /\ prog.step \in {"context", "ienable"}) \/ alt_irq[i].handler # 0
  /\ prog.step \in {"context", "ienable"} => alt_irq[prog.irq].handler = prog.isr

IrqInv ==
  /\ IrqTypeOK /\ frames \in Seq(Frame)
  /\ Sections /\ Nesting /\ Outermost /\ Masks /\ Table
  /\ TableConsistent /\ NestedByPriority /\ prog.pc = prog.executed

-----------------------------------------------------------------------------
\* The most urgent of some lines is one of them, and none is more urgent.
LEMMA MostUrgent ==
  ASSUME NEW S, S \subseteq IrqLines, S # {}
  PROVE  Min(S) \in S /\ \A j \in S : Min(S) <= j
<1>1. S \subseteq Nat
  BY IrqAssumption
<1>2. \E x \in S : \A y \in S : x <= y
  BY <1>1, LeastNatural
<1> QED
  BY <1>2 DEF Min

\* The innermost frame changes, one is added, one is taken away.
LEMMA FrameChanges ==
  ASSUME NEW s \in Seq(Frame), s # <<>>, NEW f \in Frame
  PROVE  LET t == [s EXCEPT ![Len(s)] = f]
         IN  /\ t \in Seq(Frame) /\ Len(t) = Len(s) /\ t # <<>>
             /\ t[Len(s)] = f /\ \A k \in 1..(Len(s) - 1) : t[k] = s[k]
<1>1. Len(s) \in Nat \ {0}
  BY EmptySeq
<1> QED
  BY <1>1, ExceptSeq, EmptySeq

\* An exception appends its frame and moves none of those below it
\* (alt_exception_entry.S:93-196).
LEMMA FrameAdded ==
  ASSUME NEW s \in Seq(Frame), NEW f \in Frame
  PROVE  LET t == Append(s, f)
         IN  /\ t \in Seq(Frame) /\ Len(t) = Len(s) + 1 /\ t # <<>>
             /\ t[Len(s) + 1] = f /\ \A k \in 1..Len(s) : t[k] = s[k]
BY AppendProperties

\* A sequence without its last element.
LEMMA Shortened ==
  ASSUME NEW S, NEW s \in Seq(S), s # <<>>
  PROVE  LET t == SubSeq(s, 1, Len(s) - 1)
         IN  /\ t \in Seq(S) /\ Len(t) = Len(s) - 1 /\ (t = <<>> <=> Len(s) = 1)
             /\ \A k \in 1..(Len(s) - 1) : t[k] = s[k]
<1> DEFINE n == Len(s) - 1
           t == SubSeq(s, 1, n)
<1>1. n \in Nat /\ Len(s) = n + 1
  BY EmptySeq
<1>2. \A k \in 1..n : s[k] \in S
  BY <1>1, ElementOfSeq
<1> HIDE DEF n
<1>3. /\ t \in Seq(S)
      /\ Len(t) = IF 1 <= n THEN n - 1 + 1 ELSE 0
      /\ \A i \in 1..(n - 1 + 1) : t[i] = s[1 + i - 1]
  BY <1>1, <1>2, SubSeqProperties
<1> HIDE DEF t
<1>4. Len(t) = n /\ \A k \in 1..n : t[k] = s[k]
  BY <1>1, <1>3
<1>5. t = <<>> <=> n = 0
  BY <1>1, <1>3, <1>4, EmptySeq
<1> QED
  BY <1>1, <1>3, <1>4, <1>5 DEF t, n

-----------------------------------------------------------------------------
\* The program's steps find no frame and leave none.
LEMMA ProgramKeepsFrames ==
  ASSUME IrqInv, frames = <<>>, frames' = frames
  PROVE  /\ frames' \in Seq(Frame) /\ Outermost' /\ TableConsistent' /\ NestedByPriority'
         /\ (\A k \in DOMAIN frames' : frames'[k] \in Frame)
         /\ ((cpu'.pie <=> prog'.contexts = <<>>) => Nesting')
         /\ (/\ cpu'.alt_priority_mask = IrqLines
             /\ cpu'.ienable = cpu'.alt_irq_active \cap cpu'.alt_priority_mask
             => Masks')
<1>1. Len(frames) = 0 /\ DOMAIN frames = {} /\ frames' = <<>>
  BY EmptySeq
<1> QED
  BY <1>1 DEF IrqInv, Outermost, TableConsistent, NestedByPriority, Nesting, Masks, Depth

\* The program's own steps keep the invariant: sections, registrations, enables and
\* disables, and the exception handler (alt_irq.h:113-159,
\* alt_iic_isr_register.c:75-101, alt_iic.c:72-86).
LEMMA ProgramKeeps ==
  ASSUME IrqInv,
         \/ alt_irq_disable_all \/ alt_irq_enable_all
         \/ \E i \in IrqLines, isr \in 0..IsrVersions : RegisterBegin(i, isr)
         \/ RegisterHandler \/ RegisterContext \/ RegisterEnable \/ RegisterEnd
         \/ \E i \in IrqLines : alt_ic_irq_enable(i) \/ alt_ic_irq_disable(i)
         \/ \E a \in {"none", "reissue", "skip"} : alt_instruction_exception_register(a)
  PROVE  IrqInv'
<1> DEFINE fwd == (prog.pc + 1) % Wrap
<1>1. frames = <<>> /\ frames' = frames /\ lines' = lines
  BY DEF alt_irq_disable_all, alt_irq_enable_all, RegisterBegin, RegisterHandler, RegisterContext,
         RegisterEnable, RegisterEnd, alt_ic_irq_enable, alt_ic_irq_disable,
         alt_instruction_exception_register, Runs
<1>2. /\ prog \in [pc : 0..2, executed : 0..2, step : Steps, irq : IrqLines,
                   isr : 0..IsrVersions, contexts : Seq(BOOLEAN)]
      /\ cpu \in [pie : BOOLEAN, ienable : SUBSET IrqLines, alt_irq_active : SUBSET IrqLines,
                  alt_priority_mask : SUBSET IrqLines]
      /\ alt_irq \in [IrqLines -> [handler : 0..IsrVersions, context : 0..IsrVersions]]
      /\ cpu.alt_priority_mask = IrqLines /\ cpu.ienable = cpu.alt_irq_active
      /\ (cpu.pie <=> prog.contexts = <<>>)
      /\ Sections /\ Table /\ prog.pc = prog.executed /\ lines \subseteq IrqLines
      /\ alt_instruction_exception_handler \in {"none", "reissue", "skip"}
  BY <1>1 DEF IrqInv, IrqTypeOK, Wrap, Masks, Nesting
<1>3. fwd \in 0..2
  BY <1>2 DEF Wrap
<1>4. SUFFICES /\ prog' \in [pc : 0..2, executed : 0..2, step : Steps, irq : IrqLines,
                             isr : 0..IsrVersions, contexts : Seq(BOOLEAN)]
               /\ cpu' \in [pie : BOOLEAN, ienable : SUBSET IrqLines, alt_irq_active : SUBSET IrqLines,
                            alt_priority_mask : SUBSET IrqLines]
               /\ alt_irq' \in [IrqLines -> [handler : 0..IsrVersions, context : 0..IsrVersions]]
               /\ alt_instruction_exception_handler' \in {"none", "reissue", "skip"}
               /\ cpu'.alt_priority_mask = IrqLines /\ cpu'.ienable = cpu'.alt_irq_active
               /\ (cpu'.pie <=> prog'.contexts = <<>>)
               /\ Sections' /\ Table' /\ prog'.pc = prog'.executed
  <2>1. /\ frames' \in Seq(Frame) /\ Outermost' /\ TableConsistent' /\ NestedByPriority'
        /\ \A k \in DOMAIN frames' : frames'[k] \in Frame
    BY <1>1, ProgramKeepsFrames
  <2>2. Nesting' /\ Masks'
    BY <1>1, <1>4, ProgramKeepsFrames
  <2>3. IrqTypeOK'
    BY <1>1, <1>2, <1>4, <2>1 DEF IrqTypeOK, Wrap, Frame
  <2> QED
    BY <1>4, <2>1, <2>2, <2>3 DEF IrqInv
<1> USE DEF Steps
<1> HIDE DEF fwd
<1>5. CASE alt_irq_disable_all
  <2>1. /\ prog' = [prog EXCEPT !.contexts = Append(@, cpu.pie), !.pc = fwd, !.executed = fwd]
        /\ cpu' = [cpu EXCEPT !.pie = FALSE] /\ UNCHANGED <<alt_irq, alt_instruction_exception_handler>>
        /\ prog.step = "run"
    BY <1>2, <1>5 DEF alt_irq_disable_all, Forward, fwd
  <2>2. /\ prog'.contexts \in Seq(BOOLEAN) /\ Len(prog'.contexts) = Len(prog.contexts) + 1
        /\ prog'.contexts # <<>>
        /\ \A k \in 1..Len(prog.contexts) : prog'.contexts[k] = prog.contexts[k]
        /\ prog'.contexts[Len(prog.contexts) + 1] = cpu.pie
    BY <1>2, <2>1, AppendProperties
  <2>3. Sections'
    BY <1>2, <2>1, <2>2, EmptySeq DEF Sections
  <2>4. Table'
    BY <1>2, <2>1 DEF Table
  <2> QED
    BY <1>2, <1>3, <2>1, <2>2, <2>3, <2>4
<1>6. CASE alt_irq_enable_all \/ RegisterEnd
  <2>1. /\ prog' = [prog EXCEPT !.step = "run", !.pc = fwd, !.executed = fwd,
                                !.contexts = SubSeq(@, 1, Len(@) - 1)]
        /\ prog.contexts # <<>> /\ prog.step \in {"run", "restore"}
        /\ cpu' = [cpu EXCEPT !.pie = prog.contexts[Len(prog.contexts)]]
        /\ UNCHANGED <<alt_irq, alt_instruction_exception_handler>>
    <3>1. CASE alt_irq_enable_all
      BY <1>2, <3>1 DEF alt_irq_enable_all, Forward, fwd
    <3>2. CASE RegisterEnd
      BY <1>2, <3>2 DEF RegisterEnd, Forward, fwd, Sections
    <3> QED
      BY <1>6, <3>1, <3>2
  <2>2. Len(prog.contexts) \in Nat \ {0}
    BY <1>2, <2>1, EmptySeq
  <2>3. /\ prog'.contexts \in Seq(BOOLEAN) /\ Len(prog'.contexts) = Len(prog.contexts) - 1
        /\ (prog'.contexts = <<>> <=> Len(prog.contexts) = 1)
        /\ \A k \in 1..(Len(prog.contexts) - 1) : prog'.contexts[k] = prog.contexts[k]
    BY <1>2, <2>1, <2>2, Shortened
  <2>4. prog.contexts[Len(prog.contexts)] = (Len(prog.contexts) = 1)
    <3>1. Len(prog.contexts) \in 1..Len(prog.contexts)
      BY <2>2
    <3>2. \A k \in 1..Len(prog.contexts) : prog.contexts[k] = (k = 1)
      BY <1>2 DEF Sections
    <3> QED
      BY <3>1, <3>2, Zenon
  <2>5. Sections' /\ Table'
    BY <1>2, <2>1, <2>2, <2>3 DEF Sections, Table
  <2> QED
    BY <1>2, <1>3, <2>1, <2>3, <2>4, <2>5
<1>7. CASE \E i \in IrqLines, isr \in 0..IsrVersions : RegisterBegin(i, isr)
  <2>1. PICK i \in IrqLines, isr \in 0..IsrVersions : RegisterBegin(i, isr)
    BY <1>7
  <2>2. /\ prog' = [prog EXCEPT !.step = "handler", !.irq = i, !.isr = isr,
                                !.contexts = Append(@, cpu.pie), !.pc = fwd, !.executed = fwd]
        /\ cpu' = [cpu EXCEPT !.pie = FALSE] /\ UNCHANGED <<alt_irq, alt_instruction_exception_handler>>
        /\ prog.step = "run"
    BY <1>2, <2>1 DEF RegisterBegin, Forward, fwd
  <2>3. /\ prog'.contexts \in Seq(BOOLEAN) /\ Len(prog'.contexts) = Len(prog.contexts) + 1
        /\ prog'.contexts # <<>>
        /\ \A k \in 1..Len(prog.contexts) : prog'.contexts[k] = prog.contexts[k]
        /\ prog'.contexts[Len(prog.contexts) + 1] = cpu.pie
    BY <1>2, <2>2, AppendProperties
  <2>4. Sections'
    BY <1>2, <2>2, <2>3, EmptySeq DEF Sections
  <2>5. Table'
    BY <1>2, <2>2 DEF Table
  <2> QED
    BY <1>2, <1>3, <2>2, <2>3, <2>4, <2>5
<1>8. CASE RegisterHandler
  <2>1. /\ prog' = [prog EXCEPT !.step = "context", !.pc = fwd, !.executed = fwd]
        /\ alt_irq' = [alt_irq EXCEPT ![prog.irq].handler = prog.isr]
        /\ UNCHANGED <<cpu, alt_instruction_exception_handler>> /\ prog.step = "handler"
    BY <1>2, <1>8 DEF RegisterHandler, Forward, fwd
  <2>2. Sections' /\ Table'
    BY <1>2, <2>1 DEF Sections, Table
  <2> QED
    BY <1>2, <1>3, <2>1, <2>2
<1>9. CASE RegisterContext
  <2>1. /\ prog' = [prog EXCEPT !.step = "ienable", !.pc = fwd, !.executed = fwd]
        /\ alt_irq' = [alt_irq EXCEPT ![prog.irq].context = prog.isr]
        /\ UNCHANGED <<cpu, alt_instruction_exception_handler>> /\ prog.step = "context"
    BY <1>2, <1>9 DEF RegisterContext, Forward, fwd
  <2>2. Sections' /\ Table'
    BY <1>2, <2>1 DEF Sections, Table
  <2> QED
    BY <1>2, <1>3, <2>1, <2>2
<1>10. CASE RegisterEnable
  <2>1. /\ prog' = [prog EXCEPT !.step = "restore", !.pc = fwd, !.executed = fwd]
        /\ UNCHANGED <<alt_irq, alt_instruction_exception_handler>> /\ prog.step = "ienable"
        /\ \E new \in SUBSET IrqLines :
             /\ new = IF prog.isr # 0 THEN cpu.alt_irq_active \cup {prog.irq}
                      ELSE cpu.alt_irq_active \ {prog.irq}
             /\ cpu' = [cpu EXCEPT !.alt_irq_active = new, !.ienable = new]
    BY <1>2, <1>10 DEF RegisterEnable, Forward, fwd, Unmask, Mask
  <2>2. Sections' /\ Table'
    BY <1>2, <2>1 DEF Sections, Table
  <2> QED
    BY <1>2, <1>3, <2>1, <2>2
<1>11. CASE \E i \in IrqLines : alt_ic_irq_enable(i) \/ alt_ic_irq_disable(i)
  <2>1. /\ prog' = [prog EXCEPT !.pc = fwd, !.executed = fwd]
        /\ UNCHANGED <<alt_irq, alt_instruction_exception_handler>> /\ prog.step = "run"
        /\ \E new \in SUBSET IrqLines :
             /\ \A j \in new : j \in cpu.alt_irq_active \/ alt_irq[j].handler # 0
             /\ cpu' = [cpu EXCEPT !.alt_irq_active = new, !.ienable = new]
    <3>1. PICK i \in IrqLines : alt_ic_irq_enable(i) \/ alt_ic_irq_disable(i)
      BY <1>11
    <3>2. CASE alt_ic_irq_enable(i)
      BY <1>2, <3>2 DEF alt_ic_irq_enable, Forward, fwd, Unmask
    <3>3. CASE alt_ic_irq_disable(i)
      BY <1>2, <3>3 DEF alt_ic_irq_disable, Forward, fwd, Mask
    <3> QED
      BY <3>1, <3>2, <3>3
  <2>2. Sections' /\ Table'
    BY <1>2, <2>1 DEF Sections, Table
  <2> QED
    BY <1>2, <1>3, <2>1, <2>2
<1>12. CASE \E a \in {"none", "reissue", "skip"} : alt_instruction_exception_register(a)
  <2>1. /\ prog' = [prog EXCEPT !.pc = fwd, !.executed = fwd]
        /\ UNCHANGED <<cpu, alt_irq>>
        /\ alt_instruction_exception_handler' \in {"none", "reissue", "skip"}
    BY <1>2, <1>12 DEF alt_instruction_exception_register, Forward, fwd
  <2>2. Sections' /\ Table'
    BY <1>2, <2>1 DEF Sections, Table
  <2> QED
    BY <1>2, <1>3, <2>1, <2>2
<1> QED
  BY <1>5, <1>6, <1>7, <1>8, <1>9, <1>10, <1>11, <1>12

-----------------------------------------------------------------------------
CpuType == [pie : BOOLEAN, ienable : SUBSET IrqLines, alt_irq_active : SUBSET IrqLines,
            alt_priority_mask : SUBSET IrqLines]

\* The depth of the nesting as a number, and the frames' fields.
LEMMA FrameFacts ==
  ASSUME IrqInv
  PROVE  /\ Depth \in Nat /\ (frames # <<>> <=> Depth > 0) /\ DOMAIN frames = 1..Depth
         /\ \A k \in 1..Depth : frames[k] \in Frame
         /\ cpu \in CpuType /\ lines \subseteq IrqLines /\ NoIrq \notin IrqLines
         /\ IrqLines \subseteq Nat
         /\ \A k \in 1..Depth : frames[k].at \in {"isr", "open"} => frames[k].irq \in IrqLines
<1>1. /\ Depth \in Nat /\ (frames # <<>> <=> Depth > 0) /\ DOMAIN frames = 1..Depth
      /\ \A k \in 1..Depth : frames[k] \in Frame
  BY LenProperties, EmptySeq, ElementOfSeq DEF IrqInv, Depth
<1>2. /\ cpu \in CpuType /\ lines \subseteq IrqLines /\ NoIrq \notin IrqLines /\ IrqLines \subseteq Nat
  BY IrqAssumption DEF IrqInv, IrqTypeOK, CpuType, NoIrq
<1>3. \A k \in 1..Depth : frames[k].irq # NoIrq <=> frames[k].at \in {"isr", "open"}
  BY DEF IrqInv, Nesting
<1>4. \A k \in 1..Depth : frames[k].irq \in IrqLines \cup {NoIrq}
  BY <1>1 DEF Frame
<1> QED
  BY <1>1, <1>2, <1>3, <1>4

\* A request of a device changes only the lines, so it keeps the invariant.
LEMMA RequestKeeps ==
  ASSUME IrqInv, NEW i \in IrqLines, Request(i)
  PROVE  IrqInv'
<1>1. /\ lines' = lines \cup {i}
      /\ UNCHANGED <<cpu, alt_irq, alt_instruction_exception_handler, frames, prog>>
  BY DEF Request
<1>2. /\ alt_irq_pending # {} => alt_irq_pending' # {}
  BY <1>1 DEF alt_irq_pending
<1>3. Nesting'
  BY <1>1, <1>2 DEF IrqInv, Nesting, Depth
<1>4. Sections' /\ Outermost' /\ Masks' /\ Table' /\ TableConsistent' /\ NestedByPriority'
  BY <1>1 DEF IrqInv, Sections, Outermost, Masks, Table, TableConsistent, NestedByPriority, Depth,
              Below
<1>5. IrqTypeOK'
  BY <1>1 DEF IrqInv, IrqTypeOK
<1> QED
  BY <1>1, <1>3, <1>4, <1>5 DEF IrqInv

\* A frame is pushed on nothing or on an open handler, whose mask stays in force.
LEMMA PushKeeps ==
  ASSUME IrqInv, Interrupt \/ Exception
  PROVE  IrqInv'
<1> DEFINE f == [pc |-> prog.pc, pie |-> cpu.pie, at |-> "entry", irq |-> NoIrq,
                 old |-> {}, served |-> FALSE]
<1>1. /\ frames' = Append(frames, f)
      /\ cpu' = [cpu EXCEPT !.pie = FALSE]
      /\ UNCHANGED <<lines, alt_irq, alt_instruction_exception_handler, prog>>
  BY DEF Interrupt, Exception, Push
<1>2. /\ frames # <<>> => frames[Depth].at = "open" /\ cpu.pie /\ alt_irq_pending # {}
      /\ frames = <<>> => prog.step = "run" /\ (cpu.pie <=> prog.contexts = <<>>)
  BY DEF Interrupt, Exception, Runs, Depth, IrqInv, Nesting, Sections
<1>3. f \in Frame /\ cpu' \in CpuType /\ cpu'.alt_priority_mask = cpu.alt_priority_mask
      /\ cpu'.ienable = cpu.ienable /\ cpu'.alt_irq_active = cpu.alt_irq_active /\ cpu'.pie = FALSE
  BY <1>1, FrameFacts DEF Frame, Places, IrqInv, IrqTypeOK, CpuType
<1>4. /\ frames' \in Seq(Frame) /\ Depth' = Depth + 1 /\ frames' # <<>>
      /\ frames'[Depth + 1] = f /\ \A k \in 1..Depth : frames'[k] = frames[k]
  BY <1>1, <1>3, FrameAdded DEF IrqInv, Depth
<1>5. f.at = "entry" /\ f.irq = NoIrq /\ f.pie = cpu.pie /\ f.pc = prog.pc
  OBVIOUS
<1> HIDE DEF f
<1>6. DOMAIN frames' = 1..(Depth + 1) /\ alt_irq_pending' = alt_irq_pending
  BY <1>1, <1>3, <1>4, LenProperties DEF Depth, alt_irq_pending
<1>7. Sections' /\ Table' /\ prog'.pc = prog'.executed
  BY <1>1, <1>3 DEF IrqInv, Sections, Table
<1>8. IrqTypeOK'
  <2>1. \A k \in DOMAIN frames' : frames'[k] \in Frame
    BY <1>4, <1>6, ElementOfSeq DEF Depth
  <2> QED
    BY <1>1, <1>3, <2>1 DEF IrqInv, IrqTypeOK, CpuType, Frame
<1>9. Nesting'
  <2>1. \A k \in 1..Depth : frames[k].at = "open"
    BY <1>2, FrameFacts DEF IrqInv, Nesting
  <2>2. Depth > 0 => f.pie /\ alt_irq_pending # {}
    BY <1>2, <1>5, FrameFacts
  <2>3. \A k \in 1..Depth : frames[k].irq # NoIrq /\ (k > 1 => frames[k].pie)
    BY <2>1, FrameFacts DEF IrqInv, Nesting
  <2> QED
    BY <1>1, <1>3, <1>4, <1>5, <1>6, <2>1, <2>2, <2>3, FrameFacts DEF Nesting
<1>10. Outermost'
  BY <1>1, <1>2, <1>4, <1>5, FrameFacts DEF IrqInv, Outermost
<1>11. Masks'
  <2>1. \A k \in 1..(Depth + 1) : Below(frames', k) = Below(frames, k)
    <3> SUFFICES ASSUME NEW k \in 1..(Depth + 1)
                 PROVE  Below(frames', k) = Below(frames, k)
      OBVIOUS
    <3>1. CASE k = 1
      BY <3>1 DEF Below
    <3>2. CASE k # 1
      <4>1. frames'[k - 1] = frames[k - 1]
        BY <3>2, <1>4, FrameFacts
      <4> QED
        BY <3>2, <4>1 DEF Below
    <3> QED
      BY <3>1, <3>2
  <2>2. cpu.alt_priority_mask = Below(frames, Depth + 1)
    BY <1>2, FrameFacts DEF IrqInv, Masks, Below
  <2>3. \A k \in 1..Depth : frames[k].at = "open" => frames[k].old = Below(frames, k)
    BY DEF IrqInv, Masks
  <2>5. cpu.ienable = cpu.alt_irq_active \cap cpu.alt_priority_mask
    BY DEF IrqInv, Masks
  <2> QED
    BY <1>3, <1>4, <1>5, <2>1, <2>2, <2>3, <2>5, FrameFacts DEF Masks
<1>12. TableConsistent'
  BY <1>1, <1>4, <1>5, <1>6, FrameFacts DEF IrqInv, TableConsistent
<1>13. NestedByPriority'
  BY <1>4, <1>5, <1>6, FrameFacts DEF IrqInv, NestedByPriority
<1> QED
  BY <1>4, <1>7, <1>8, <1>9, <1>10, <1>11, <1>12, <1>13 DEF IrqInv

\* The innermost frame goes on to its next place.
LEMMA TopKeeps ==
  ASSUME IrqInv, frames # <<>>, NEW f \in Frame, Becomes(f), f.pc = Top.pc, f.pie = Top.pie,
         UNCHANGED <<alt_irq, alt_instruction_exception_handler, prog>>,
         cpu' \in CpuType, lines' \subseteq IrqLines,
         f.irq # NoIrq <=> f.at \in {"isr", "open"}, f.at # "entry",
         Depth > 1 => f.at \notin {"notirq", "stopped"},
         prog.contexts # <<>> => f.at \in {"notirq", "stopped"},
         cpu'.pie <=> f.at = "open",
         cpu'.alt_priority_mask = IF f.at = "open" THEN MoreUrgent(f.irq) ELSE Below(frames, Depth),
         f.at = "open" => f.old = Below(frames, Depth),
         cpu'.ienable = cpu'.alt_irq_active \cap cpu'.alt_priority_mask,
         cpu'.alt_irq_active = cpu.alt_irq_active,
         f.irq # NoIrq => \/ f.irq = Top.irq
                          \/ f.irq \in cpu.ienable /\ Top.at = "pending"
  PROVE  IrqInv'
<1>1. /\ frames' \in Seq(Frame) /\ Depth' = Depth /\ frames' # <<>>
      /\ frames'[Depth] = f /\ \A k \in 1..(Depth - 1) : frames'[k] = frames[k]
  BY FrameChanges DEF Becomes, IrqInv, Depth
<1>2. Depth \in Nat /\ Depth > 0 /\ Top = frames[Depth]
  BY FrameFacts DEF Top, Depth
<1>3. DOMAIN frames' = 1..Depth
  BY <1>1, LenProperties DEF Depth
<1>4. Sections' /\ Table' /\ prog'.pc = prog'.executed
  BY DEF IrqInv, Sections, Table
<1>5. IrqTypeOK'
  <2>1. \A k \in DOMAIN frames' : frames'[k] \in Frame
    BY <1>1, <1>3, ElementOfSeq DEF Depth
  <2> QED
    BY <2>1 DEF IrqInv, IrqTypeOK, CpuType, Frame
<1>6. Nesting'
  <2>1. \A k \in 1..(Depth - 1) : /\ frames[k].at = "open" /\ frames[k].irq # NoIrq
                                  /\ (k > 1 => frames[k].pie)
    BY <1>2, FrameFacts DEF IrqInv, Nesting
  <2>2. Depth > 1 => f.pie
    BY <1>2 DEF IrqInv, Nesting
  <2> QED
    BY <1>1, <1>2, <2>1, <2>2 DEF Nesting
<1>7. Outermost'
  BY <1>1, <1>2 DEF IrqInv, Outermost
<1>8. \A k \in 1..Depth : Below(frames', k) = Below(frames, k)
  <2> SUFFICES ASSUME NEW k \in 1..Depth
               PROVE  Below(frames', k) = Below(frames, k)
    OBVIOUS
  <2>1. CASE k = 1
    BY <2>1 DEF Below
  <2>2. CASE k # 1
    <3>1. frames'[k - 1] = frames[k - 1]
      BY <2>2, <1>1, <1>2
    <3> QED
      BY <2>2, <3>1 DEF Below
  <2> QED
    BY <2>1, <2>2
<1>9. Masks'
  <2>1. \A k \in 1..Depth : frames[k].at = "open" => frames[k].old = Below(frames, k)
    BY DEF IrqInv, Masks
  <2> QED
    BY <1>1, <1>2, <1>8, <2>1 DEF Masks, MoreUrgent
<1>10. f.irq # NoIrq => (f.irq \in cpu.alt_irq_active /\ Top.at = "pending") \/ f.irq = Top.irq
  BY DEF IrqInv, Masks
<1>11. TableConsistent'
  <2>1. f.irq # NoIrq => LET entry == alt_irq[f.irq] IN entry.handler # 0 /\ entry.handler = entry.context
    <3>1. CASE f.irq = Top.irq /\ f.irq # NoIrq
      BY <1>2, <3>1, FrameFacts DEF IrqInv, Nesting, TableConsistent
    <3>2. CASE f.irq \in cpu.alt_irq_active
      BY <1>2, <3>2, FrameFacts DEF IrqInv, Table, Outermost, CpuType
    <3> QED
      BY <1>10, <3>1, <3>2
  <2> QED
    BY <1>1, <1>2, <1>3, <2>1, FrameFacts DEF IrqInv, TableConsistent
<1>12. NestedByPriority'
  <2>1. \A k \in 1..(Depth - 1) : f.irq # NoIrq => f.irq < frames[k].irq
    <3> SUFFICES ASSUME NEW k \in 1..(Depth - 1), f.irq # NoIrq
                 PROVE  f.irq < frames[k].irq
      OBVIOUS
    <3>1. CASE f.irq = Top.irq
      BY <1>2, <3>1, FrameFacts DEF IrqInv, NestedByPriority
    <3>2. CASE f.irq \in cpu.ienable /\ Top.at = "pending"
      <4>1. f.irq \in MoreUrgent(frames[Depth - 1].irq)
        BY <1>2, <3>2 DEF IrqInv, Masks, Below
      <4>2. frames[Depth - 1].at = "open" /\ frames[Depth - 1].irq \in IrqLines
        BY <1>2, FrameFacts DEF IrqInv, Nesting
      <4>3. f.irq < frames[Depth - 1].irq /\ f.irq \in Nat
        BY <4>1, FrameFacts DEF MoreUrgent
      <4>4. CASE k = Depth - 1
        BY <4>3, <4>4
      <4>5. CASE k < Depth - 1
        <5>1. frames[Depth - 1].irq < frames[k].irq
          BY <1>2, <4>2, <4>5, FrameFacts DEF IrqInv, NestedByPriority
        <5>2. frames[k].irq \in Nat
          BY <1>2, FrameFacts DEF IrqInv, Nesting
        <5> QED
          BY <4>2, <4>3, <5>1, <5>2, FrameFacts
      <4> QED
        BY <1>2, <4>4, <4>5
    <3> QED
      BY <3>1, <3>2
  <2> QED
    BY <1>1, <1>2, <1>3, <2>1, FrameFacts DEF IrqInv, NestedByPriority
<1> QED
  BY <1>1, <1>4, <1>5, <1>6, <1>7, <1>9, <1>11, <1>12 DEF IrqInv

\* What the innermost frame says of the controller.
LEMMA TopFacts ==
  ASSUME IrqInv, frames # <<>>
  PROVE  /\ Top = frames[Depth] /\ Top \in Frame /\ Depth \in Nat \ {0}
         /\ (Top.irq # NoIrq <=> Top.at \in {"isr", "open"})
         /\ (Top.at \in {"isr", "open"} => Top.irq \in IrqLines)
         /\ (Depth > 1 => Top.pie /\ Top.at \notin {"notirq", "stopped"})
         /\ (Depth > 1 /\ Top.at = "entry" => alt_irq_pending # {})
         /\ (prog.contexts # <<>> => Top.at \in {"entry", "notirq", "stopped"})
         /\ (prog.contexts # <<>> => Depth = 1 /\ ~Top.pie)
         /\ (cpu.pie <=> Top.at = "open")
         /\ cpu.alt_priority_mask = (IF Top.at = "open" THEN MoreUrgent(Top.irq)
                                     ELSE Below(frames, Depth))
         /\ (Top.at = "open" => Top.old = Below(frames, Depth))
         /\ cpu.ienable = cpu.alt_irq_active \cap cpu.alt_priority_mask
<1>1. /\ Top = frames[Depth] /\ Depth \in Nat \ {0} /\ Top \in Frame
  BY FrameFacts DEF Top, Depth
<1>2. Depth \in 1..Depth /\ 1 \in 1..Depth /\ (Depth > 1 => Depth \in 2..Depth /\ Depth - 1 \in 1..(Depth - 1))
  BY <1>1
<1>3. /\ (Top.irq # NoIrq <=> Top.at \in {"isr", "open"})
      /\ (Top.at \in {"isr", "open"} => Top.irq \in IrqLines)
      /\ (Depth > 1 => Top.pie /\ Top.at \notin {"notirq", "stopped"})
      /\ (Depth > 1 /\ Top.at = "entry" => alt_irq_pending # {})
      /\ (cpu.pie <=> Top.at = "open")
  BY <1>1, <1>2, FrameFacts DEF IrqInv, Nesting
<1>4. prog.contexts # <<>> => Top.at \in {"entry", "notirq", "stopped"}
  BY <1>1, <1>2 DEF IrqInv, Outermost
<1>5. prog.contexts # <<>> => Depth = 1
  <2>1. Depth > 1 => frames[Depth - 1].at = "open" /\ Depth - 1 \in 1..Depth
    BY <1>1, <1>2 DEF IrqInv, Nesting
  <2> QED
    BY <1>1, <2>1 DEF IrqInv, Outermost
<1>6. prog.contexts # <<>> => ~Top.pie
  BY <1>1, <1>5 DEF IrqInv, Outermost
<1>7. /\ cpu.alt_priority_mask = (IF Top.at = "open" THEN MoreUrgent(Top.irq)
                                  ELSE Below(frames, Depth))
      /\ (Top.at = "open" => Top.old = Below(frames, Depth))
      /\ cpu.ienable = cpu.alt_irq_active \cap cpu.alt_priority_mask
  BY <1>1, <1>2 DEF IrqInv, Masks
<1> QED
  BY <1>1, <1>3, <1>4, <1>5, <1>6, <1>7

\* The test of estatus and ipending on entry only moves the innermost frame to its
\* next place (alt_irq_entry.S:55-95).
LEMMA EntryTestKeeps ==
  ASSUME IrqInv, EntryTest
  PROVE  IrqInv'
<1> DEFINE f == [Top EXCEPT !.at = IF Top.pie /\ alt_irq_pending # {} THEN "pending" ELSE "notirq"]
<1>1. /\ frames # <<>> /\ Top.at = "entry" /\ Becomes(f)
      /\ UNCHANGED <<cpu, lines, alt_irq, alt_instruction_exception_handler, prog>>
  BY DEF EntryTest, At
<1>2. f \in Frame
  BY <1>1, TopFacts DEF Frame, Places
<1>3. f.pc = Top.pc /\ f.pie = Top.pie /\ f.irq = Top.irq /\ f.at \in {"pending", "notirq"}
      /\ (f.at = "pending" <=> Top.pie /\ alt_irq_pending # {})
  BY <1>1, TopFacts DEF Frame
<1> HIDE DEF f
<1>4. cpu' \in CpuType /\ lines' \subseteq IrqLines /\ UNCHANGED cpu
  BY <1>1, FrameFacts
<1>5. f.irq = NoIrq
  BY <1>1, <1>3, TopFacts
<1> QED
  BY <1>1, <1>2, <1>3, <1>4, <1>5, TopFacts, TopKeeps

\* A handler that returns leads back to the loop, or out of it with nothing pending;
\* a handler that was interruptible has closed that before
\* (alt_irq_handler.c:146-159).
LEMMA IsrReturnKeeps ==
  ASSUME IrqInv, IsrReturn
  PROVE  IrqInv'
<1> DEFINE f == [Top EXCEPT !.at = "pending", !.irq = NoIrq]
<1>1. /\ frames # <<>> /\ Top.at = "isr" /\ Becomes(f)
      /\ UNCHANGED <<cpu, lines, alt_irq, alt_instruction_exception_handler, prog>>
  BY DEF IsrReturn, At
<1>2. f \in Frame /\ f.pc = Top.pc /\ f.pie = Top.pie /\ f.irq = NoIrq /\ f.at = "pending"
  BY <1>1, TopFacts DEF Frame, Places
<1> HIDE DEF f
<1>3. cpu' \in CpuType /\ lines' \subseteq IrqLines /\ UNCHANGED cpu
  BY <1>1, FrameFacts
<1> QED
  BY <1>1, <1>2, <1>3, TopFacts, TopKeeps

\* A device that is served takes its request back; the frame that serves it remembers
\* it.
LEMMA ServeKeeps ==
  ASSUME IrqInv, Serve
  PROVE  IrqInv'
<1> DEFINE f == [Top EXCEPT !.served = TRUE]
<1>1. /\ frames # <<>> /\ Top.at \in {"isr", "open"} /\ Becomes(f) /\ lines' = lines \ {Top.irq}
      /\ UNCHANGED <<cpu, alt_irq, alt_instruction_exception_handler, prog>>
  BY DEF Serve, At
<1>2. /\ f \in Frame /\ f.pc = Top.pc /\ f.pie = Top.pie /\ f.irq = Top.irq /\ f.at = Top.at
      /\ f.old = Top.old
  BY <1>1, TopFacts DEF Frame, Places
<1> HIDE DEF f
<1>3. cpu' \in CpuType /\ lines' \subseteq IrqLines /\ UNCHANGED cpu
  BY <1>1, FrameFacts
<1> QED
  BY <1>1, <1>2, <1>3, TopFacts, TopKeeps

\* alt_irq_interruptible masks the less urgent lines and lets interrupts in, with the
\* old mask kept in the frame (alt_legacy_irq.h:118-133).
LEMMA OpenKeeps ==
  ASSUME IrqInv, alt_irq_interruptible
  PROVE  IrqInv'
<1> DEFINE f == [Top EXCEPT !.at = "open", !.old = cpu.alt_priority_mask]
<1>1. /\ frames # <<>> /\ Top.at = "isr" /\ Becomes(f)
      /\ cpu' = [cpu EXCEPT !.alt_priority_mask = MoreUrgent(Top.irq),
                            !.ienable = cpu.alt_irq_active \cap MoreUrgent(Top.irq),
                            !.pie = TRUE]
      /\ UNCHANGED <<lines, alt_irq, alt_instruction_exception_handler, prog>>
  BY DEF alt_irq_interruptible, At
<1>2. cpu \in CpuType /\ lines \subseteq IrqLines
  BY FrameFacts
<1>3. /\ f \in Frame /\ f.pc = Top.pc /\ f.pie = Top.pie /\ f.irq = Top.irq /\ f.at = "open"
      /\ f.old = cpu.alt_priority_mask
  BY <1>1, <1>2, TopFacts DEF Frame, Places, CpuType
<1> HIDE DEF f
<1>4. MoreUrgent(Top.irq) \subseteq IrqLines
  BY DEF MoreUrgent
<1>5. /\ cpu' \in CpuType /\ cpu'.alt_priority_mask = MoreUrgent(Top.irq) /\ cpu'.pie = TRUE
      /\ cpu'.ienable = cpu.alt_irq_active \cap MoreUrgent(Top.irq)
      /\ cpu'.alt_irq_active = cpu.alt_irq_active
  BY <1>1, <1>2, <1>4 DEF CpuType
<1> QED
  BY <1>1, <1>2, <1>3, <1>5, TopFacts, TopKeeps

\* alt_irq_non_interruptible restores the mask that was in force below the frame
\* (alt_legacy_irq.h:139-149).
LEMMA CloseKeeps ==
  ASSUME IrqInv, alt_irq_non_interruptible
  PROVE  IrqInv'
<1> DEFINE f == [Top EXCEPT !.at = "isr"]
<1>1. /\ frames # <<>> /\ Top.at = "open" /\ Becomes(f)
      /\ cpu' = [cpu EXCEPT !.alt_priority_mask = Top.old,
                            !.ienable = Top.old \cap cpu.alt_irq_active, !.pie = FALSE]
      /\ UNCHANGED <<lines, alt_irq, alt_instruction_exception_handler, prog>>
  BY DEF alt_irq_non_interruptible, At
<1>2. cpu \in CpuType /\ lines \subseteq IrqLines
  BY FrameFacts
<1>3. f \in Frame /\ f.pc = Top.pc /\ f.pie = Top.pie /\ f.irq = Top.irq /\ f.at = "isr"
  BY <1>1, TopFacts DEF Frame, Places
<1> HIDE DEF f
<1>4. Top.old \subseteq IrqLines
  BY <1>1, TopFacts DEF Frame
<1>5. /\ cpu' \in CpuType /\ cpu'.alt_priority_mask = Top.old /\ cpu'.pie = FALSE
      /\ cpu'.ienable = Top.old \cap cpu.alt_irq_active
      /\ cpu'.alt_irq_active = cpu.alt_irq_active
  BY <1>1, <1>2, <1>4 DEF CpuType
<1> QED
  BY <1>1, <1>2, <1>3, <1>5, TopFacts, TopKeeps

\* The return from the innermost frame: the interrupted handler finds its own mask, the
\* program none.
ProgType == [pc : 0..(Wrap - 1), executed : 0..(Wrap - 1), step : Steps, irq : IrqLines,
             isr : 0..IsrVersions, contexts : Seq(BOOLEAN)]

WithoutTop == SubSeq(frames, 1, Len(frames) - 1)

\* A frame that is left gives back the PIE bit and the place it was pushed with; what
\* is below was untouched meanwhile (alt_exception_entry.S:350-396).
LEMMA PopKeeps ==
  ASSUME IrqInv, frames # <<>>, Top.at \in {"notirq", "pending"},
         frames' = WithoutTop,
         cpu' = [cpu EXCEPT !.pie = Top.pie],
         prog' \in ProgType,
         UNCHANGED <<lines, alt_irq, alt_instruction_exception_handler>>,
         prog'.step = prog.step, prog'.irq = prog.irq, prog'.isr = prog.isr,
         prog'.contexts = prog.contexts, prog'.pc = prog'.executed,
         Depth > 1 => prog' = prog
  PROVE  IrqInv'
<1> PICK n \in Nat : n = Depth - 1
  BY TopFacts
<1>1. /\ frames' \in Seq(Frame) /\ Depth' = n /\ (frames' = <<>> <=> n = 0)
      /\ \A k \in 1..n : frames'[k] = frames[k]
  <2>1. frames \in Seq(Frame)
    BY DEF IrqInv
  <2> QED
    BY <2>1, TopFacts, Shortened DEF Depth, WithoutTop
<1>2. /\ Depth \in Nat /\ n \in Nat /\ Depth = n + 1 /\ Depth > 0 /\ Top = frames[Depth]
      /\ Top \in Frame /\ \A k \in 1..n : k \in 1..Depth
  BY TopFacts
<1>3. DOMAIN frames' = 1..n
  BY <1>1, LenProperties DEF Depth
<1>4. /\ cpu' \in CpuType /\ cpu'.pie = Top.pie /\ cpu'.alt_priority_mask = cpu.alt_priority_mask
      /\ cpu'.ienable = cpu.ienable /\ cpu'.alt_irq_active = cpu.alt_irq_active
  BY <1>2, FrameFacts DEF CpuType, Frame
<1>5. Sections' /\ Table' /\ prog'.pc = prog'.executed
  BY <1>4 DEF IrqInv, Sections, Table
<1>6. IrqTypeOK'
  <2>1. \A k \in DOMAIN frames' : frames'[k] \in Frame
    BY <1>1, <1>3, <1>2, FrameFacts
  <2> QED
    BY <1>4, <2>1 DEF IrqInv, IrqTypeOK, CpuType, Frame, ProgType
<1>7. Nesting'
  <2>1. \A k \in 1..n : frames[k].at = "open"
    BY <1>2 DEF IrqInv, Nesting
  <2>2. \A k \in 1..n : /\ frames[k].irq # NoIrq <=> frames[k].at \in {"isr", "open"}
                        /\ (k > 1 => frames[k].pie)
    BY <1>2 DEF IrqInv, Nesting
  <2>3. n > 0 => Top.pie
    BY <1>2, TopFacts
  <2>4. n = 0 => (Top.pie <=> prog.contexts = <<>>)
    <3>1. n = 0 => Top = frames[1]
      <4>1. n = 0 => Depth = 1
        BY <1>2
      <4>2. Top = frames[Depth]
        BY <1>2
      <4> QED
        BY <4>1, <4>2, Zenon
    <3>2. frames[1].pie <=> prog.contexts = <<>>
      BY DEF IrqInv, Outermost
    <3> QED
      BY <3>1, <3>2, Zenon
  <2>5. cpu'.pie <=> IF frames' = <<>> THEN prog'.contexts = <<>> ELSE frames'[n].at = "open"
    <3>1. CASE n = 0
      <4>1. frames' = <<>>
        BY <1>1, <3>1
      <4> QED
        BY <4>1, <1>4, <2>4, <3>1, Zenon
    <3>2. CASE n > 0
      BY <1>1, <1>2, <1>4, <2>1, <2>3, <3>2
    <3>3. n = 0 \/ n > 0
      BY <1>2
    <3> QED
      BY <3>1, <3>2, <3>3, Zenon
  <2>6. /\ \A k \in 1..n : frames'[k].at = "open"
        /\ \A k \in 1..n : /\ frames'[k].irq # NoIrq /\ (k > 1 => frames'[k].pie)
    <3> SUFFICES ASSUME NEW k \in 1..n
                 PROVE  /\ frames'[k].at = "open" /\ frames'[k].irq # NoIrq
                        /\ (k > 1 => frames'[k].pie)
      OBVIOUS
    <3>1. frames'[k] = frames[k]
      BY <1>1
    <3>2. frames[k].at = "open" /\ frames[k].irq # NoIrq
      BY <2>1, <2>2, Zenon
    <3>3. k > 1 => frames[k].pie
      BY <2>2, Zenon
    <3> QED
      BY <3>1, <3>2, <3>3, Zenon
  <2> QED
    BY <1>1, <2>5, <2>6 DEF Nesting
<1>8. Outermost'
  <2> SUFFICES ASSUME n > 0
               PROVE  /\ frames'[1].pie <=> prog.contexts = <<>>
                      /\ prog.step = "run"
                      /\ prog.contexts # <<>> =>
                           \A k \in 1..n : frames'[k].at \in {"entry", "notirq", "stopped"}
                      /\ frames'[1].pc = prog.pc /\ prog' = prog
    BY <1>1, <1>2 DEF Outermost
  <2>1. frames'[1] = frames[1] /\ prog' = prog
    BY <1>1, <1>2
  <2>2. \A k \in 1..n : frames'[k].at = frames[k].at /\ k \in 1..Depth
    BY <1>1, <1>2
  <2>3. Outermost
    BY DEF IrqInv
  <2> QED
    BY <2>1, <2>2, <2>3 DEF Outermost
<1>9. Masks'
  <2>1. cpu.alt_priority_mask = Below(frames, Depth)
    BY TopFacts
  <2>2. n = 0 => Below(frames, Depth) = IrqLines
    BY <1>2 DEF Below
  <2>3. n > 0 => Below(frames, Depth) = MoreUrgent(frames[n].irq)
    BY <1>2 DEF Below
  <2>4. n > 0 => frames[n].at = "open"
    BY <1>2 DEF IrqInv, Nesting
  <2>5. \A k \in 1..n : frames[k].at = "open" => frames[k].old = Below(frames, k)
    BY <1>2 DEF IrqInv, Masks
  <2>6. \A k \in 1..n : Below(frames', k) = Below(frames, k)
    <3> SUFFICES ASSUME NEW k \in 1..n
                 PROVE  Below(frames', k) = Below(frames, k)
      OBVIOUS
    <3>1. CASE k = 1
      BY <3>1 DEF Below
    <3>2. CASE k # 1
      <4>1. frames'[k - 1] = frames[k - 1]
        BY <1>1, <1>2, <3>2
      <4> QED
        BY <3>2, <4>1 DEF Below
    <3> QED
      BY <3>1, <3>2
  <2>7. cpu.ienable = cpu.alt_irq_active \cap cpu.alt_priority_mask
    BY DEF IrqInv, Masks
  <2> QED
    BY <1>1, <1>2, <1>4, <2>1, <2>2, <2>3, <2>4, <2>5, <2>6, <2>7 DEF Masks
<1>10. TableConsistent'
  BY <1>1, <1>2, <1>3, FrameFacts DEF IrqInv, TableConsistent
<1>11. NestedByPriority'
  <2>1. \A k \in 1..n : frames'[k] = frames[k] /\ k \in DOMAIN frames
    BY <1>1, <1>2, FrameFacts
  <2>2. NestedByPriority
    BY DEF IrqInv
  <2> QED
    BY <1>3, <2>1, <2>2 DEF NestedByPriority
<1> QED
  BY <1>1, <1>5, <1>6, <1>7, <1>8, <1>9, <1>10, <1>11 DEF IrqInv

\* The program's record.
LEMMA ProgFacts ==
  ASSUME IrqInv, frames # <<>>
  PROVE  /\ prog \in ProgType
         /\ prog.pc = prog.executed
         /\ (Depth = 1 => Top.pc = prog.pc)
BY TopFacts DEF IrqInv, IrqTypeOK, Outermost, ProgType

\* An exception that is no interrupt is reissued, skipped or stops the program, in
\* each case with the invariant (alt_instruction_exception_entry.c:67-161).
LEMMA NotIrqKeeps ==
  ASSUME IrqInv, NotIrq
  PROVE  IrqInv'
<1>1. /\ frames # <<>> /\ Top.at = "notirq" /\ Depth = 1
      /\ UNCHANGED <<lines, alt_irq, alt_instruction_exception_handler>>
      /\ alt_instruction_exception_handler \in {"none", "reissue", "skip"}
  <2>1. frames # <<>> /\ Top.at = "notirq" /\ UNCHANGED <<lines, alt_irq, alt_instruction_exception_handler>>
    BY DEF NotIrq, At
  <2> QED
    BY <2>1, TopFacts DEF IrqInv, IrqTypeOK
<1>2. CASE alt_instruction_exception_handler = "none"
  <2> DEFINE f == [Top EXCEPT !.at = "stopped"]
  <2>1. Becomes(f) /\ UNCHANGED <<cpu, prog>>
    BY <1>2 DEF NotIrq
  <2>2. f \in Frame /\ f.pc = Top.pc /\ f.pie = Top.pie /\ f.irq = Top.irq /\ f.at = "stopped"
    BY <1>1, TopFacts DEF Frame, Places
  <2> HIDE DEF f
  <2>3. cpu' \in CpuType /\ lines' \subseteq IrqLines
    BY <1>1, <2>1, FrameFacts
  <2> QED
    BY <1>1, <2>1, <2>2, <2>3, TopFacts, TopKeeps
<1>3. CASE alt_instruction_exception_handler = "reissue"
  <2>1. /\ frames' = WithoutTop /\ cpu' = [cpu EXCEPT !.pie = Top.pie]
        /\ prog' = [prog EXCEPT !.pc = Top.pc]
    BY <1>1, <1>3 DEF NotIrq, Eret, Depth, WithoutTop
  <2>2. prog' = prog
    BY <1>1, <2>1, ProgFacts DEF ProgType
  <2> QED
    BY <1>1, <2>1, <2>2, ProgFacts, PopKeeps
<1>4. CASE alt_instruction_exception_handler = "skip"
  <2> DEFINE g == [Top EXCEPT !.pc = (@ + 1) % Wrap]
             p == [prog EXCEPT !.executed = (@ + 1) % Wrap]
  <2>1. /\ frames' = WithoutTop /\ cpu' = [cpu EXCEPT !.pie = g.pie]
        /\ prog' = [p EXCEPT !.pc = g.pc]
    BY <1>1, <1>4 DEF NotIrq, Eret, Depth, WithoutTop
  <2>2. g.pie = Top.pie /\ g.pc = (prog.pc + 1) % Wrap
    BY <1>1, TopFacts, ProgFacts DEF Frame
  <2>3. (prog.pc + 1) % Wrap \in 0..(Wrap - 1)
    BY <1>1, ProgFacts DEF Wrap, ProgType
  <2> HIDE DEF g
  <2>4. /\ prog' \in ProgType
        /\ prog'.pc = prog'.executed /\ prog'.step = prog.step /\ prog'.irq = prog.irq
        /\ prog'.isr = prog.isr /\ prog'.contexts = prog.contexts
    BY <1>1, <2>1, <2>2, <2>3, ProgFacts DEF ProgType
  <2> QED
    BY <1>1, <2>1, <2>2, <2>4, PopKeeps
<1> QED
  BY <1>1, <1>2, <1>3, <1>4

\* The loop of alt_irq_handler serves the most urgent line or leaves when none is
\* pending (alt_irq_handler.c:128-159).
LEMMA PendingKeeps ==
  ASSUME IrqInv, Pending
  PROVE  IrqInv'
<1>1. /\ frames # <<>> /\ Top.at = "pending"
      /\ UNCHANGED <<lines, alt_irq, alt_instruction_exception_handler>>
  BY DEF Pending, At
<1>2. CASE alt_irq_pending # {}
  <2> DEFINE i == Min(alt_irq_pending)
             f == [Top EXCEPT !.at = "isr", !.irq = i, !.served = FALSE]
  <2>1. Becomes(f) /\ UNCHANGED <<cpu, prog>>
    BY <1>2 DEF Pending
  <2>2. alt_irq_pending \subseteq IrqLines /\ alt_irq_pending \subseteq cpu.ienable
    BY FrameFacts DEF alt_irq_pending
  <2>3. i \in IrqLines /\ i \in cpu.ienable /\ i # NoIrq
    BY <1>2, <2>2, MostUrgent, FrameFacts
  <2> HIDE DEF i
  <2>4. f \in Frame /\ f.pc = Top.pc /\ f.pie = Top.pie /\ f.irq = i /\ f.at = "isr"
    BY <1>1, <2>3, TopFacts DEF Frame, Places
  <2> HIDE DEF f
  <2>5. cpu' \in CpuType /\ lines' \subseteq IrqLines
    BY <1>1, <2>1, FrameFacts
  <2> QED
    BY <1>1, <2>1, <2>3, <2>4, <2>5, TopFacts, TopKeeps
<1>3. CASE alt_irq_pending = {}
  <2>1. /\ frames' = WithoutTop /\ cpu' = [cpu EXCEPT !.pie = Top.pie]
        /\ prog' = (IF Depth = 1 THEN [prog EXCEPT !.pc = Top.pc] ELSE prog)
    BY <1>3 DEF Pending, Eret, Depth, WithoutTop
  <2>2. prog' = prog
    BY <1>1, <2>1, ProgFacts DEF ProgType
  <2> QED
    BY <1>1, <2>1, <2>2, ProgFacts, PopKeeps
<1> QED
  BY <1>2, <1>3

-----------------------------------------------------------------------------
\* The reset state satisfies the invariant (alt_irq_vars.c:40-46, alt_irq.h:113-159).
LEMMA IrqStarts ==
  ASSUME IrqInit
  PROVE  IrqInv
<1>1. frames = <<>> /\ Len(frames) = 0 /\ DOMAIN frames = {} /\ frames \in Seq(Frame)
  BY EmptySeq DEF IrqInit
<1>2. Min(IrqLines) \in IrqLines
  BY MostUrgent, IrqAssumption
<1>3. /\ prog \in [pc : 0..(Wrap - 1), executed : 0..(Wrap - 1), step : Steps, irq : IrqLines,
                    isr : 0..IsrVersions, contexts : Seq(BOOLEAN)]
      /\ prog.contexts = <<>> /\ Len(prog.contexts) = 0 /\ prog.step = "run" /\ prog.pc = prog.executed
  BY <1>2, IrqAssumption, EmptySeq DEF IrqInit, Wrap, Steps
<1>4. IrqTypeOK
  BY <1>1, <1>3, IrqAssumption DEF IrqInit, IrqTypeOK
<1>5. Sections /\ Nesting /\ Outermost /\ Masks /\ TableConsistent /\ NestedByPriority
  BY <1>1, <1>3 DEF IrqInit, Sections, Nesting, Outermost, Masks, TableConsistent, NestedByPriority, Depth
<1>6. Table
  BY <1>3 DEF IrqInit, Table
<1> QED
  BY <1>1, <1>3, <1>4, <1>5, <1>6 DEF IrqInv

\* What a handler's call makes of the controller and the table: the active lines are those
\* given, their entries are whole, and no entry changes that a handler is at work for.
TableEntry == [handler : 0..IsrVersions, context : 0..IsrVersions]
Rewritten(active) ==
  /\ active \subseteq IrqLines
  /\ cpu' = [cpu EXCEPT !.alt_irq_active = active, !.ienable = active]
  /\ alt_irq' \in [IrqLines -> TableEntry]
  /\ \A j \in active : alt_irq'[j].handler # 0
  /\ \A j \in IrqLines : alt_irq'[j].handler = alt_irq'[j].context
  /\ \A k \in DOMAIN frames : frames[k].irq \in IrqLines => alt_irq'[frames[k].irq] = alt_irq[frames[k].irq]

\* Enabling, disabling and registering in a handler, each by what it writes
\* (alt_legacy_irq.h:70-98, alt_iic_isr_register.c:75-101).
LEMMA HandlerCallRewrites ==
  ASSUME IrqInv, frames # <<>>, NEW i \in IrqLines,
         \/ IsrEnable(i) \/ IsrDisable(i)
         \/ \E isr \in 0..IsrVersions : IsrRegister(i, isr)
  PROVE  \E active : Rewritten(active)
<1>1. prog.step = "run"
  BY DEF IrqInv, Outermost
<1>2. /\ \A j \in IrqLines : alt_irq[j].handler = alt_irq[j].context
      /\ \A j \in cpu.alt_irq_active : alt_irq[j].handler # 0
      /\ cpu.alt_irq_active \subseteq IrqLines
  BY <1>1, FrameFacts DEF IrqInv, Table, CpuType
<1>3. alt_irq \in [IrqLines -> TableEntry]
  BY DEF IrqInv, IrqTypeOK, TableEntry
<1>4. CASE IsrEnable(i)
  <2>1. /\ cpu' = [cpu EXCEPT !.alt_irq_active = Unmask(i), !.ienable = Unmask(i)]
        /\ alt_irq' = alt_irq /\ Unmask(i) \subseteq IrqLines
        /\ \A j \in Unmask(i) : alt_irq[j].handler # 0
    BY <1>2, <1>4 DEF IsrEnable, Unmask
  <2>2. Rewritten(Unmask(i))
    BY <1>2, <1>3, <2>1 DEF Rewritten
  <2> QED
    BY <2>2
<1>5. CASE IsrDisable(i)
  <2>1. /\ cpu' = [cpu EXCEPT !.alt_irq_active = Mask(i), !.ienable = Mask(i)]
        /\ alt_irq' = alt_irq /\ Mask(i) \subseteq IrqLines
        /\ \A j \in Mask(i) : alt_irq[j].handler # 0
    BY <1>2, <1>5 DEF IsrDisable, Mask
  <2>2. Rewritten(Mask(i))
    BY <1>2, <1>3, <2>1 DEF Rewritten
  <2> QED
    BY <2>2
<1>6. ASSUME NEW isr \in 0..IsrVersions, IsrRegister(i, isr)
      PROVE  \E active : Rewritten(active)
  <2> DEFINE entry == [handler |-> isr, context |-> isr]
             new   == IF isr # 0 THEN Unmask(i) ELSE Mask(i)
  <2>1. /\ alt_irq' = [alt_irq EXCEPT ![i] = entry] /\ \A k \in DOMAIN frames : frames[k].irq # i
        /\ cpu' = [cpu EXCEPT !.alt_irq_active = new, !.ienable = new]
    BY <1>6, Zenon DEF IsrRegister
  <2>2. entry \in TableEntry /\ entry.handler = isr /\ entry.context = isr
    BY DEF TableEntry
  <2>3. /\ new \subseteq IrqLines /\ (i \in new => isr # 0)
        /\ \A j \in new : j # i => alt_irq[j].handler # 0
    BY <1>2 DEF Unmask, Mask
  <2> HIDE DEF entry, new
  <2>4. /\ alt_irq' \in [IrqLines -> TableEntry]
        /\ \A j \in IrqLines : alt_irq'[j] = IF j = i THEN entry ELSE alt_irq[j]
    BY <1>3, <2>1, <2>2
  <2>5. \A j \in new : alt_irq'[j].handler # 0
    BY <2>2, <2>3, <2>4
  <2>6. \A j \in IrqLines : alt_irq'[j].handler = alt_irq'[j].context
    BY <1>2, <2>2, <2>4
  <2>7. \A k \in DOMAIN frames :
          frames[k].irq \in IrqLines => alt_irq'[frames[k].irq] = alt_irq[frames[k].irq]
    BY <2>1, <2>4
  <2>8. Rewritten(new)
    BY <2>1, <2>3, <2>4, <2>5, <2>6, <2>7 DEF Rewritten
  <2> QED
    BY <2>8
<1> QED
  BY <1>4, <1>5, <1>6

\* A call of a handler on the controller leaves every frame as it is.  No mask is set but
\* the full one, so that what it writes to ienable is all that is active, and a line that
\* is active has a whole entry (alt_legacy_irq.h:70-98, alt_iic_isr_register.c:75-101).
LEMMA HandlerCallKeeps ==
  ASSUME ~CallsNested, IrqInv, NEW i \in IrqLines,
         \/ IsrEnable(i) \/ IsrDisable(i)
         \/ \E isr \in 0..IsrVersions : IsrRegister(i, isr)
  PROVE  IrqInv'
<1>1. /\ frames # <<>> /\ Top.at \in {"isr", "open"} /\ cpu.alt_priority_mask = IrqLines
      /\ UNCHANGED <<lines, alt_instruction_exception_handler, frames, prog>>
  <2>1. HandlerCalls
    BY Zenon DEF IsrEnable, IsrDisable, IsrRegister
  <2> QED
    BY <2>1 DEF HandlerCalls, At
<1>2. PICK active : Rewritten(active)
  BY <1>1, HandlerCallRewrites
<1>3. /\ cpu' \in CpuType /\ cpu'.pie = cpu.pie /\ cpu'.alt_priority_mask = IrqLines
      /\ cpu'.ienable = active /\ cpu'.alt_irq_active = active
  BY <1>1, <1>2, FrameFacts DEF CpuType, Rewritten
<1>4. UNCHANGED Depth
  BY <1>1 DEF Depth
<1>5. IrqTypeOK'
  BY <1>1, <1>2, <1>3 DEF IrqInv, IrqTypeOK, CpuType, Rewritten, TableEntry
<1>6. Sections' /\ Outermost' /\ NestedByPriority'
  BY <1>1, <1>4 DEF IrqInv, Sections, Outermost, NestedByPriority
<1>7. Nesting'
  <2>1. /\ \A k \in 1..(Depth - 1) : frames[k].at = "open"
        /\ \A k \in 1..Depth : frames[k].irq # NoIrq <=> frames[k].at \in {"isr", "open"}
        /\ \A k \in 2..Depth : frames[k].pie /\ frames[k].at \notin {"notirq", "stopped"}
        /\ cpu.pie <=> IF frames = <<>> THEN prog.contexts = <<>> ELSE frames[Depth].at = "open"
    BY DEF IrqInv, Nesting
  <2>2. \A k \in 2..Depth : frames[k].at # "entry"
    <3>1. frames[Depth].at \in {"isr", "open"} /\ Depth \in Nat
      BY <1>1, TopFacts
    <3>2. \A k \in 2..Depth : k = Depth \/ k \in 1..(Depth - 1)
      BY <3>1
    <3> QED
      BY <2>1, <3>1, <3>2
  <2> QED
    BY <1>1, <1>3, <1>4, <2>1, <2>2 DEF Nesting
<1>8. Masks'
  <2>1. /\ cpu.alt_priority_mask = IF frames = <<>> THEN IrqLines
                                   ELSE IF frames[Depth].at = "open" THEN MoreUrgent(frames[Depth].irq)
                                   ELSE Below(frames, Depth)
        /\ \A k \in 1..Depth : frames[k].at = "open" => frames[k].old = Below(frames, k)
    BY DEF IrqInv, Masks
  <2>2. cpu'.alt_priority_mask = cpu.alt_priority_mask
        /\ cpu'.ienable = cpu'.alt_irq_active \cap cpu'.alt_priority_mask
    BY <1>1, <1>2, <1>3 DEF Rewritten
  <2> QED
    BY <1>1, <1>4, <2>1, <2>2 DEF Masks, Below
<1>9. Table' /\ TableConsistent'
  <2>1. prog.step = "run" /\ prog' = prog
    BY <1>1 DEF IrqInv, Outermost
  <2>2. Table'
    BY <1>2, <1>3, <2>1 DEF Table, Rewritten
  <2>3. TableConsistent'
    <3>1. \A k \in DOMAIN frames : frames[k].at \in {"isr", "open"} =>
            frames[k].irq \in IrqLines /\ alt_irq[frames[k].irq].handler # 0
            /\ alt_irq[frames[k].irq].handler = alt_irq[frames[k].irq].context
      BY FrameFacts DEF IrqInv, TableConsistent
    <3>2. \A k \in DOMAIN frames : frames[k].at \in {"isr", "open"} =>
            alt_irq'[frames[k].irq] = alt_irq[frames[k].irq]
      BY <1>2, <3>1 DEF Rewritten
    <3> QED
      BY <1>1, <3>1, <3>2 DEF TableConsistent
  <2> QED
    BY <2>2, <2>3
<1> QED
  BY <1>1, <1>5, <1>6, <1>7, <1>8, <1>9 DEF IrqInv

\* Every step of the interrupts, whatever its actor, keeps the invariant
\* (alt_irq_handler.c:80-167).
LEMMA IrqKept ==
  ASSUME ~CallsNested, IrqInv, [IrqNext]_irqVars
  PROVE  IrqInv'
<1>1. CASE UNCHANGED irqVars
  <2>1. /\ UNCHANGED <<cpu, lines, alt_irq, alt_instruction_exception_handler, frames, prog>>
        /\ UNCHANGED alt_irq_pending /\ UNCHANGED Depth
    BY <1>1 DEF irqVars, alt_irq_pending, Depth
  <2>2. IrqTypeOK' /\ Sections' /\ Table' /\ TableConsistent' /\ NestedByPriority'
    BY <2>1 DEF IrqInv, IrqTypeOK, Sections, Table, TableConsistent, NestedByPriority
  <2>3. Nesting' /\ Outermost' /\ Masks'
    BY <2>1 DEF IrqInv, Nesting, Outermost, Masks
  <2> QED
    BY <2>1, <2>2, <2>3 DEF IrqInv
<1>2. CASE \E i \in IrqLines : Request(i)
  BY <1>2, RequestKeeps
<1>3. CASE Interrupt \/ Exception
  BY <1>3, PushKeeps
<1>4. CASE \/ alt_irq_disable_all \/ alt_irq_enable_all
           \/ \E i \in IrqLines, isr \in 0..IsrVersions : RegisterBegin(i, isr)
           \/ RegisterHandler \/ RegisterContext \/ RegisterEnable \/ RegisterEnd
           \/ \E i \in IrqLines : alt_ic_irq_enable(i) \/ alt_ic_irq_disable(i)
           \/ \E a \in {"none", "reissue", "skip"} : alt_instruction_exception_register(a)
  BY <1>4, ProgramKeeps
<1>5. CASE alt_irq_interruptible \/ Serve \/ Handling
  BY <1>5, OpenKeeps, ServeKeeps, EntryTestKeeps, NotIrqKeeps, PendingKeeps, CloseKeeps,
     IsrReturnKeeps DEF Handling
<1>6. ASSUME NEW i \in IrqLines,
             \/ IsrEnable(i) \/ IsrDisable(i)
             \/ \E isr \in 0..IsrVersions : IsrRegister(i, isr)
      PROVE  IrqInv'
  BY <1>6, HandlerCallKeeps
<1> QED
  BY <1>1, <1>2, <1>3, <1>4, <1>5, <1>6 DEF IrqNext

\* The invariant implies the properties that the runs check.
LEMMA IrqMeans ==
  ASSUME IrqInv
  PROVE  IrqTypeOK /\ IrqSafe
<1>1. /\ frames = <<>> => cpu.ienable = cpu.alt_irq_active /\ cpu.alt_priority_mask = IrqLines
      /\ frames = <<>> => (cpu.pie <=> prog.contexts = <<>>)
  BY FrameFacts DEF IrqInv, Masks, Nesting, CpuType
<1>2. prog.contexts # <<>> => \A k \in DOMAIN frames : frames[k].irq = NoIrq
  BY FrameFacts DEF IrqInv, Outermost, Nesting
<1> QED
  BY <1>1, <1>2 DEF IrqInv, IrqSafe, ControllerRestored, InstructionsOnce

\* For every number of lines, of versions of a handler and every depth of nesting, if no
\* handler calls on the controller while less urgent lines are held back: no handler is
\* called through a half written entry, handlers nest by priority only, the controller
\* is as it was when the outermost is left, and the program goes on where it stopped
\* (alt_irq_handler.c:80-167, alt_iic_isr_register.c:75-101, alt_legacy_irq.h:70-149).
THEOREM IrqIsSafe ==
  ASSUME ~CallsNested
  PROVE  IrqSpec => [](IrqTypeOK /\ IrqSafe)
<1>1. IrqInit => IrqInv
  BY IrqStarts
<1>2. IrqInv /\ [IrqNext]_irqVars => IrqInv'
  BY IrqKept
<1>3. IrqInv => IrqTypeOK /\ IrqSafe
  BY IrqMeans
<1> QED
  BY <1>1, <1>2, <1>3, PTL DEF IrqSpec

-----------------------------------------------------------------------------
(* The timer and its drivers (altera_avalon_timer_sc.c and _ts.c).         *)

\* The handler is done before the next period is over.
Prompt == ResetPeriod + 1 >= 4 * (Latency + 1)

InClock == {"clock", "clear", "dummy", "tick"}
InTurn  == {"ready", "snap", "read_l", "read_h", "answer"}
Behind(pc) == CASE pc = "clock" -> 0 [] pc = "clear" -> 1 [] pc = "dummy" -> 2 [] OTHER -> 3

\* The counter of the clock has gone at most so many edges since the period that is
\* not yet counted as the handler has taken.
ClockInv ==
  /\ tm.running /\ ~tm.reload /\ tm.control = {"ITO", "CONT", "START"}
  /\ LoadValue = ResetPeriod /\ tm.counter \in 0..ResetPeriod
  /\ tm.was_zero => tm.counter = ResetPeriod
  /\ tm.timeout <=> td.pc = "clear" \/ (td.pc = "clock" /\ nticks = -1)
  /\ td.pc # "clock" => nticks = -1
  /\ nticks \in {-1, 0}
  /\ nticks = 0 => td.waits = 0
  /\ nticks = -1 => ResetPeriod - tm.counter <= Behind(td.pc) * (Latency + 1) + td.waits

\* The counter of the timestamp: stopped and loaded before it starts, then as many
\* edges below its period as have passed, until it stops at the end of the turn.
StampInv ==
  /\ nticks = 0
  /\ td.pc \in {"free", "low", "high", "start"} => ~tm.running
  /\ tm.reload => td.pc \in {"high", "start"}
  /\ td.pc \in {"start"} \cup InTurn => LoadValue = Full
  /\ td.pc \in {"high", "start"} \cup InTurn => tm.period_l = Half - 1
  /\ td.pc = "start" => tm.reload \/ tm.counter = Full
  /\ td.pc \in InTurn =>
       /\ tm.control = {"START"}
       /\ since.now <= Full => tm.running /\ tm.counter = Full - since.now
       /\ since.now > Full => ~tm.running /\ tm.counter = Full
  /\ td.pc \in {"read_l", "read_h", "answer"} =>
       tm.snapshot = IF since.snapped <= Full THEN Full - since.snapped ELSE Full
  /\ td.pc \in {"read_h", "answer"} => td.lower = tm.snapshot % Half
  /\ td.pc = "answer" => td.upper = tm.snapshot \div Half

BootInv ==
  /\ tm.counter = ResetPeriod /\ LoadValue = ResetPeriod
  /\ ~tm.running /\ ~tm.reload /\ ~tm.was_zero /\ ~tm.timeout
  /\ td.waits = 0 /\ nticks = 0

TimerInv ==
  /\ TimerTypeOK
  /\ td.pc = "boot" => BootInv
  /\ td.pc \in InClock => ClockInv
  /\ td.pc \notin InClock \cup {"boot"} => StampInv

-----------------------------------------------------------------------------
TmSet == [counter : 0..Full, period_l : Register, period_h : Register,
          control : SUBSET Control, running : BOOLEAN, reload : BOOLEAN,
          was_zero : BOOLEAN, timeout : BOOLEAN, snapshot : 0..Full]
TdSet == [pc : {"boot", "clock", "clear", "dummy", "tick", "free", "stop", "low", "high",
                "start", "ready", "snap", "read_l", "read_h", "answer"},
          lower : Register, upper : Register, waits : 0..Latency]

Lo(n) == n % Half
Hi(n) == n \div Half
Loaded(h, l) == h * Half + l

\* A value of the counter and its halves.
LEMMA Halves ==
  /\ Half \in Nat /\ Half > 1 /\ Full \in Nat /\ ResetPeriod \in 1..Full /\ Latency \in Nat
  /\ Half - 1 \in Register
  /\ \A h, l \in Register : Loaded(h, l) \in 0..Full
  /\ Loaded(Half - 1, Half - 1) = Full
  /\ \A n \in 0..Full : Lo(n) \in Register /\ Hi(n) \in Register /\ Loaded(Hi(n), Lo(n)) = n
<1>1. /\ Half \in Nat /\ Half > 1 /\ Latency \in Nat /\ Half * Half \in Nat
      /\ ResetPeriod \in 1..(Half * Half - 1)
  BY TimerAssumption
<1>2. Full \in Nat /\ ResetPeriod \in 1..Full
  BY <1>1 DEF Full
<1>3. (Half - 1) * Half + (Half - 1) = Full
  BY <1>1 DEF Full
<1>4. ASSUME NEW h \in Register, NEW l \in Register
      PROVE  h * Half + l \in 0..Full
  <2>1. h \in Nat /\ l \in Nat /\ h <= Half - 1 /\ l <= Half - 1
    BY <1>1 DEF Register
  <2>2. \A a, b, c \in Nat : a <= b => a * c <= b * c
    OBVIOUS
  <2>3. h * Half <= (Half - 1) * Half /\ h * Half \in Nat
    BY <1>1, <2>1, <2>2
  <2> QED
    BY <1>1, <1>2, <1>3, <2>1, <2>3
<1>5. ASSUME NEW n \in 0..Full
      PROVE  Lo(n) \in Register /\ Hi(n) \in Register /\ Loaded(Hi(n), Lo(n)) = n
  <2>1. PICK q \in Nat, r \in 0..(Half - 1) : n \div Half = q /\ n % Half = r /\ n = Half * q + r
    <3>1. \A a \in Nat, b \in Nat \ {0} :
            \E q \in Nat, r \in 0..(b - 1) : a \div b = q /\ a % b = r /\ a = b * q + r
      OBVIOUS
    <3> QED
      BY <1>1, <1>2, <3>1
  <2>2. q <= Half - 1
    <3>1. \A a, b \in Nat : a >= b => b * a >= b * b
      OBVIOUS
    <3>2. q >= Half => Half * q >= Half * Half
      BY <1>1, <3>1
    <3>3. n < Half * Half /\ Half * q <= n
      BY <1>1, <2>1 DEF Full
    <3> QED
      BY <1>1, <3>2, <3>3
  <2>3. q * Half + r = n
    BY <1>1, <2>1
  <2>4. q \in Register /\ r \in Register
    BY <1>1, <2>2 DEF Register
  <2>5. Hi(n) = q /\ Lo(n) = r
    BY <2>1 DEF Hi, Lo
  <2>6. Loaded(q, r) = n
    BY <2>3 DEF Loaded
  <2> QED
    BY <2>4, <2>5, <2>6
<1>6. Half - 1 \in Register
  BY <1>1 DEF Register
<1>7. Loaded(Half - 1, Half - 1) = Full /\ \A h, l \in Register : Loaded(h, l) \in 0..Full
  BY <1>3, <1>4 DEF Loaded
<1> QED
  BY <1>1, <1>2, <1>5, <1>6, <1>7

\* What the proofs use of the constants (display_bsp's timer:
\* myhardware_timer_0.v:89-91).
LEMMA Sizes ==
  /\ Half \in Nat /\ Full \in Nat /\ Latency \in Nat /\ ResetPeriod \in Nat
  /\ 1 <= ResetPeriod /\ ResetPeriod <= Full
BY Halves

\* The value the counter is loaded with, by the two registers
\* (myhardware_timer_0.v:89-91).
LEMMA LoadFacts ==
  /\ LoadValue = Loaded(tm.period_h, tm.period_l)
  /\ LoadValue' = Loaded(tm'.period_h, tm'.period_l)
  /\ \A h, l \in Register : Loaded(h, l) \in 0..Full
  /\ Loaded(Half - 1, Half - 1) = Full
BY Halves DEF LoadValue, Loaded

\* The registers hold the halves of the period at reset
\* (myhardware_timer_0.v:160-181).
LEMMA LoadReset ==
  /\ Loaded(ResetPeriod \div Half, ResetPeriod % Half) = ResetPeriod
  /\ ResetPeriod \div Half \in Register /\ ResetPeriod % Half \in Register
<1>1. ResetPeriod \in 0..Full
  BY Sizes
<1>2. /\ Loaded(Hi(ResetPeriod), Lo(ResetPeriod)) = ResetPeriod
      /\ Hi(ResetPeriod) \in Register /\ Lo(ResetPeriod) \in Register
  BY <1>1, Halves
<1> QED
  BY <1>2, Zenon DEF Hi, Lo

RegisterWritten(reg, data) ==
  /\ reg \in {"none", "status", "control", "period_l", "period_h", "snap"}
  /\ reg = "control" => data \in SUBSET Control
  /\ reg \in {"period_l", "period_h"} => data \in Register

Starts(reg, data) == reg = "control" /\ "START" \in data
Stops(reg, data) == \/ reg = "control" /\ "STOP" \in data
                    \/ tm.reload
                    \/ tm.counter = 0 /\ "CONT" \notin tm.control

\* One edge, register by register.
LEMMA EdgeFacts ==
  ASSUME tm \in TmSet, NEW reg, NEW data, RegisterWritten(reg, data), Edge(reg, data)
  PROVE  /\ tm' \in TmSet
         /\ ~tm.running /\ ~tm.reload => tm'.counter = tm.counter
         /\ tm.reload => tm'.counter = LoadValue
         /\ tm.running /\ ~tm.reload =>
              tm'.counter = IF tm.counter = 0 THEN LoadValue ELSE tm.counter - 1
         /\ tm'.period_l = IF reg = "period_l" THEN data ELSE tm.period_l
         /\ tm'.period_h = IF reg = "period_h" THEN data ELSE tm.period_h
         /\ tm'.control = IF reg = "control" THEN data ELSE tm.control
         /\ tm'.running <=> Starts(reg, data) \/ (tm.running /\ ~Stops(reg, data))
         /\ tm'.reload <=> reg \in {"period_l", "period_h"}
         /\ tm'.was_zero <=> tm.counter = 0
         /\ tm'.timeout <=> reg # "status" /\ (tm.timeout \/ TimeoutEvent)
         /\ tm'.snapshot = IF reg = "snap" THEN tm.counter ELSE tm.snapshot
<1>1. tm' = [ counter  |-> CASE ~tm.running /\ ~tm.reload -> tm.counter
                            [] tm.reload \/ (tm.running /\ tm.counter = 0) -> LoadValue
                            [] OTHER -> tm.counter - 1,
              period_l |-> IF reg = "period_l" THEN data ELSE tm.period_l,
              period_h |-> IF reg = "period_h" THEN data ELSE tm.period_h,
              control  |-> IF reg = "control" THEN data ELSE tm.control,
              running  |-> Starts(reg, data) \/ (tm.running /\ ~Stops(reg, data)),
              reload   |-> reg = "period_l" \/ reg = "period_h",
              was_zero |-> tm.counter = 0,
              timeout  |-> ~(reg = "status") /\ (tm.timeout \/ TimeoutEvent),
              snapshot |-> IF reg = "snap" THEN tm.counter ELSE tm.snapshot ]
  BY Zenon DEF Edge, Starts, Stops
<1>2. /\ tm.counter \in 0..Full /\ tm.period_l \in Register /\ tm.period_h \in Register
      /\ tm.control \in SUBSET Control /\ tm.running \in BOOLEAN /\ tm.reload \in BOOLEAN
      /\ tm.was_zero \in BOOLEAN /\ tm.timeout \in BOOLEAN /\ tm.snapshot \in 0..Full
  BY DEF TmSet
<1>3. LoadValue \in 0..Full /\ (tm.counter # 0 => tm.counter - 1 \in 0..Full)
  BY <1>2, LoadFacts, Sizes
<1>4. /\ ~tm.running /\ ~tm.reload => tm'.counter = tm.counter
      /\ tm.reload => tm'.counter = LoadValue
      /\ tm.running /\ ~tm.reload =>
           tm'.counter = IF tm.counter = 0 THEN LoadValue ELSE tm.counter - 1
  BY <1>1, <1>2
<1>5. /\ tm'.period_l = IF reg = "period_l" THEN data ELSE tm.period_l
      /\ tm'.period_h = IF reg = "period_h" THEN data ELSE tm.period_h
      /\ tm'.control = IF reg = "control" THEN data ELSE tm.control
      /\ tm'.snapshot = IF reg = "snap" THEN tm.counter ELSE tm.snapshot
  BY <1>1
<1>6. /\ tm'.running = (Starts(reg, data) \/ (tm.running /\ ~Stops(reg, data)))
      /\ tm'.reload = (reg = "period_l" \/ reg = "period_h")
      /\ tm'.was_zero = (tm.counter = 0)
      /\ tm'.timeout = (~(reg = "status") /\ (tm.timeout \/ TimeoutEvent))
  BY <1>1
<1>7. /\ tm'.running \in BOOLEAN /\ tm'.reload \in BOOLEAN /\ tm'.was_zero \in BOOLEAN
      /\ tm'.timeout \in BOOLEAN
  BY <1>6, Zenon
<1>8. /\ tm'.counter \in 0..Full /\ tm'.snapshot \in 0..Full
      /\ tm'.period_l \in Register /\ tm'.period_h \in Register /\ tm'.control \in SUBSET Control
  BY <1>2, <1>3, <1>4, <1>5 DEF RegisterWritten
<1>9. tm' \in TmSet
  <2>1. tm' = [ counter |-> tm'.counter, period_l |-> tm'.period_l, period_h |-> tm'.period_h,
                control |-> tm'.control, running |-> tm'.running, reload |-> tm'.reload,
                was_zero |-> tm'.was_zero, timeout |-> tm'.timeout, snapshot |-> tm'.snapshot ]
    BY <1>1
  <2> QED
    BY <1>7, <1>8, <2>1 DEF TmSet
<1> QED
  BY <1>4, <1>5, <1>6, <1>9

\* The type invariant by the state's records, now and next.
LEMMA TypeParts ==
  /\ TimerTypeOK <=> /\ tm \in TmSet /\ td \in TdSet /\ nticks \in -1..1
                     /\ since \in [now : Elapsed, snapped : Elapsed]
  /\ TimerTypeOK' <=> /\ tm' \in TmSet /\ td' \in TdSet /\ nticks' \in -1..1
                      /\ since' \in [now : Elapsed, snapped : Elapsed]
BY DEF TimerTypeOK, TmSet, TdSet

\* The reset state satisfies the invariant (myhardware_timer_0.v:76-187).
LEMMA TimerStarts ==
  ASSUME TimerInit
  PROVE  TimerInv
<1>1. LoadValue = ResetPeriod
  BY LoadFacts, LoadReset DEF TimerInit
<1>2. tm \in TmSet /\ td \in TdSet
  BY LoadReset, Sizes DEF TimerInit, TmSet, TdSet, Register
<1>3. TimerTypeOK
  BY <1>2, TypeParts, Sizes DEF TimerInit, Elapsed
<1> QED
  BY <1>1, <1>3 DEF TimerInit, TimerInv, BootInv, InClock

-----------------------------------------------------------------------------
ClockRegs(t) ==
  /\ t.running /\ ~t.reload /\ t.control = {"ITO", "CONT", "START"}
  /\ Loaded(t.period_h, t.period_l) = ResetPeriod /\ t.counter \in 0..ResetPeriod
  /\ t.was_zero => t.counter = ResetPeriod

\* An edge of the running clock.
LEMMA ClockEdge ==
  ASSUME tm \in TmSet, ClockRegs(tm), NEW reg \in {"none", "status"}, Edge(reg, 0)
  PROVE  /\ tm' \in TmSet /\ ClockRegs(tm') /\ (TimeoutEvent <=> tm.counter = 0)
         /\ tm'.counter = IF tm.counter = 0 THEN ResetPeriod ELSE tm.counter - 1
         /\ tm'.timeout <=> reg = "none" /\ (tm.timeout \/ tm.counter = 0)
<1>1. RegisterWritten(reg, 0)
  BY DEF RegisterWritten
<1>2. TimeoutEvent <=> tm.counter = 0
  BY Sizes DEF ClockRegs, TimeoutEvent
<1>3. ~Starts(reg, 0) /\ ~Stops(reg, 0)
  BY DEF Starts, Stops, ClockRegs
<1>4. /\ tm' \in TmSet
      /\ tm'.counter = IF tm.counter = 0 THEN LoadValue ELSE tm.counter - 1
      /\ tm'.period_l = tm.period_l /\ tm'.period_h = tm.period_h /\ tm'.control = tm.control
      /\ tm'.running /\ ~tm'.reload /\ (tm'.was_zero <=> tm.counter = 0)
      /\ tm'.timeout <=> reg # "status" /\ (tm.timeout \/ TimeoutEvent)
  BY <1>1, <1>3, EdgeFacts DEF ClockRegs
<1>5. LoadValue = ResetPeriod
  BY LoadFacts DEF ClockRegs
<1>6. ClockRegs(tm')
  BY <1>4, <1>5, LoadFacts, Sizes DEF ClockRegs
<1> QED
  BY <1>2, <1>4, <1>5, <1>6

ClockState(t, pc, waits, n) ==
  /\ ClockRegs(t)
  /\ t.timeout <=> pc = "clear" \/ (pc = "clock" /\ n = -1)
  /\ pc # "clock" => n = -1
  /\ n \in {-1, 0}
  /\ n = 0 => waits = 0
  /\ n = -1 => ResetPeriod - t.counter <= Behind(pc) * (Latency + 1) + waits

\* The invariant of the clock as an operator of the values it is about, now and next.
LEMMA ClockParts ==
  /\ ClockInv <=> ClockState(tm, td.pc, td.waits, nticks)
  /\ ClockInv' <=> ClockState(tm', td'.pc, td'.waits, nticks')
<1>1. ClockInv <=> ClockState(tm, td.pc, td.waits, nticks)
  BY LoadFacts DEF ClockInv, ClockState, ClockRegs
<1>2. ClockInv' <=> ClockState(tm', td'.pc, td'.waits, nticks')
  BY LoadFacts DEF ClockInv, ClockState, ClockRegs
<1> QED
  BY <1>1, <1>2

\* The handler's accesses, each at most Latency edges after the one before, fit in a
\* period (altera_avalon_timer_sc.c:53-81).
LEMMA Delays ==
  ASSUME Prompt
  PROVE  /\ Latency \in Nat /\ ResetPeriod \in Nat \ {0}
         /\ Behind("clock") * (Latency + 1) = 0
         /\ Behind("clear") * (Latency + 1) = Latency + 1
         /\ Behind("dummy") * (Latency + 1) = 2 * (Latency + 1)
         /\ Behind("tick") * (Latency + 1) = 3 * (Latency + 1)
         /\ ResetPeriod >= 3 * (Latency + 1) + Latency
BY Sizes DEF Behind, Prompt

\* A step of the clock's driver.
LEMMA ClockSteps ==
  ASSUME Prompt, TimerTypeOK, td.pc \in InClock, ClockInv,
         NEW to \in InClock, NEW reg \in {"none", "status"}, Edge(reg, 0),
         td' = [td EXCEPT !.pc = to, !.waits = 0],
         NEW counted \in {0, 1}, nticks' = (IF TimeoutEvent THEN nticks - 1 ELSE nticks) + counted,
         \/ td.pc = "clock" /\ to = "clear" /\ reg = "none" /\ counted = 0 /\ tm.timeout
         \/ td.pc = "clear" /\ to = "dummy" /\ reg = "status" /\ counted = 0
         \/ td.pc = "dummy" /\ to = "tick" /\ reg = "none" /\ counted = 0
         \/ td.pc = "tick" /\ to = "clock" /\ reg = "none" /\ counted = 1
  PROVE  tm' \in TmSet /\ td' \in TdSet /\ nticks' \in {-1, 0} /\ td'.pc = to /\ ClockInv'
<1>1. tm \in TmSet /\ td \in TdSet
  BY TypeParts
<1>2. ClockState(tm, td.pc, td.waits, nticks)
  BY ClockParts
<1>3. /\ tm' \in TmSet /\ ClockRegs(tm') /\ (TimeoutEvent <=> tm.counter = 0)
      /\ tm'.counter = IF tm.counter = 0 THEN ResetPeriod ELSE tm.counter - 1
      /\ tm'.timeout <=> reg = "none" /\ (tm.timeout \/ tm.counter = 0)
  <2>1. ClockRegs(tm)
    BY <1>2 DEF ClockState
  <2> QED
    BY <1>1, <2>1, ClockEdge
<1>4. td' \in TdSet /\ td'.pc = to /\ td'.waits = 0
  <2>1. to \in {"clock", "clear", "dummy", "tick"} /\ 0 \in 0..Latency
    BY Sizes DEF InClock
  <2> QED
    BY <1>1, <2>1 DEF TdSet
<1>5. /\ tm.counter \in 0..ResetPeriod /\ nticks = -1 /\ td.waits \in 0..Latency
      /\ ResetPeriod - tm.counter <= Behind(td.pc) * (Latency + 1) + td.waits
      /\ tm.timeout <=> td.pc \in {"clock", "clear"}
  BY <1>1, <1>2 DEF ClockState, ClockRegs, TdSet
<1>6. nticks' \in {-1, 0} /\ ClockState(tm', to, 0, nticks')
  <2>1. CASE td.pc = "clock" /\ to = "clear"
    BY <1>3, <1>5, <2>1, Delays DEF ClockState
  <2>2. CASE td.pc = "clear" /\ to = "dummy"
    BY <1>3, <1>5, <2>2, Delays DEF ClockState
  <2>3. CASE td.pc = "dummy" /\ to = "tick"
    BY <1>3, <1>5, <2>3, Delays DEF ClockState
  <2>4. CASE td.pc = "tick" /\ to = "clock"
    BY <1>3, <1>5, <2>4, Delays DEF ClockState
  <2> QED
    BY <2>1, <2>2, <2>3, <2>4
<1> QED
  BY <1>3, <1>4, <1>6, ClockParts

\* An edge without an access while the clock runs.
LEMMA ClockIdles ==
  ASSUME Prompt, TimerTypeOK, td.pc \in InClock, ClockInv, IdleEdge
  PROVE  tm' \in TmSet /\ td' \in TdSet /\ nticks' \in {-1, 0} /\ td'.pc = td.pc /\ ClockInv'
<1>1. tm \in TmSet /\ td \in TdSet
  BY TypeParts
<1>2. ClockState(tm, td.pc, td.waits, nticks)
  BY ClockParts
<1>3. /\ tm' \in TmSet /\ ClockRegs(tm') /\ (TimeoutEvent <=> tm.counter = 0)
      /\ tm'.counter = IF tm.counter = 0 THEN ResetPeriod ELSE tm.counter - 1
      /\ tm'.timeout <=> tm.timeout \/ tm.counter = 0
  <2>1. ClockRegs(tm) /\ Edge("none", 0)
    BY <1>2 DEF ClockState, IdleEdge
  <2> QED
    BY <1>1, <2>1, ClockEdge
<1>4. TimerIrq <=> tm.timeout
  BY <1>1, <1>2 DEF TimerIrq, ClockState, ClockRegs, TmSet
<1>5. /\ nticks' = IF TimeoutEvent THEN nticks - 1 ELSE nticks
      /\ tm.timeout \/ td.pc # "clock" => td.waits < Latency
      /\ td' = [td EXCEPT !.waits = IF tm.timeout \/ td.pc # "clock" THEN td.waits + 1
                                                                    ELSE td.waits]
  BY <1>4 DEF IdleEdge, Passes, InClock
<1>6. td.waits \in 0..Latency
  BY <1>1 DEF TdSet
<1>7. td'.pc = td.pc
      /\ td'.waits = IF tm.timeout \/ td.pc # "clock" THEN td.waits + 1 ELSE td.waits
  BY <1>1, <1>5 DEF TdSet
<1>8. td' \in TdSet
  <2>1. (IF tm.timeout \/ td.pc # "clock" THEN td.waits + 1 ELSE td.waits) \in 0..Latency
    BY <1>5, <1>6, Sizes
  <2> QED
    BY <1>1, <1>5, <2>1 DEF TdSet
<1>9. /\ tm.counter \in 0..ResetPeriod /\ nticks \in {-1, 0}
      /\ nticks = -1 => ResetPeriod - tm.counter <= Behind(td.pc) * (Latency + 1) + td.waits
      /\ nticks = 0 => td.waits = 0 /\ td.pc = "clock"
      /\ tm.timeout <=> td.pc = "clear" \/ (td.pc = "clock" /\ nticks = -1)
  BY <1>2 DEF ClockState, ClockRegs
<1>10. nticks' \in {-1, 0} /\ ClockState(tm', td.pc, td'.waits, nticks')
  <2>1. CASE td.pc = "clock" /\ nticks = 0
    BY <1>3, <1>5, <1>7, <1>9, <2>1, Delays DEF ClockState
  <2>2. CASE td.pc = "clock" /\ nticks = -1
    BY <1>3, <1>5, <1>6, <1>7, <1>9, <2>2, Delays DEF ClockState
  <2>3. CASE td.pc = "clear"
    BY <1>3, <1>5, <1>6, <1>7, <1>9, <2>3, Delays DEF ClockState
  <2>4. CASE td.pc = "dummy"
    BY <1>3, <1>5, <1>6, <1>7, <1>9, <2>4, Delays DEF ClockState
  <2>5. CASE td.pc = "tick"
    BY <1>3, <1>5, <1>6, <1>7, <1>9, <2>5, Delays DEF ClockState
  <2> QED
    BY <1>9, <2>1, <2>2, <2>3, <2>4, <2>5 DEF InClock
<1> QED
  BY <1>3, <1>7, <1>8, <1>10, ClockParts

SinceSet == [now : Elapsed, snapped : Elapsed]

\* The history of the edges stays in its range.
LEMMA LaterStays ==
  /\ 0 \in Elapsed /\ \A n \in Elapsed : Later(n) \in Elapsed
  /\ since \in SinceSet =>
       /\ [since EXCEPT !.now = Later(@)] \in SinceSet
       /\ [now |-> Later(since.now), snapped |-> since.now] \in SinceSet
       /\ [now |-> 0, snapped |-> 0] \in SinceSet
<1>1. 0 \in Elapsed /\ \A n \in Elapsed : Later(n) \in Elapsed
  BY Sizes DEF Elapsed, Later
<1> QED
  BY <1>1 DEF SinceSet

-----------------------------------------------------------------------------
StampState(t, d, n, s) ==
  /\ n = 0
  /\ d.pc \in {"free", "low", "high", "start"} => ~t.running
  /\ t.reload => d.pc \in {"high", "start"}
  /\ d.pc \in {"start"} \cup InTurn => Loaded(t.period_h, t.period_l) = Full
  /\ d.pc \in {"high", "start"} \cup InTurn => t.period_l = Half - 1
  /\ d.pc = "start" => t.reload \/ t.counter = Full
  /\ d.pc \in InTurn =>
       /\ t.control = {"START"}
       /\ s.now <= Full => t.running /\ t.counter = Full - s.now
       /\ s.now > Full => ~t.running /\ t.counter = Full
  /\ d.pc \in {"read_l", "read_h", "answer"} =>
       t.snapshot = IF s.snapped <= Full THEN Full - s.snapped ELSE Full
  /\ d.pc \in {"read_h", "answer"} => d.lower = Lo(t.snapshot)
  /\ d.pc = "answer" => d.upper = Hi(t.snapshot)

\* The invariant of the timestamp as an operator of the values it is about, now and
\* next.
LEMMA StampParts ==
  /\ StampInv <=> StampState(tm, td, nticks, since)
  /\ StampInv' <=> StampState(tm', td', nticks', since')
<1>1. StampInv <=> StampState(tm, td, nticks, since)
  BY LoadFacts DEF StampInv, StampState, Lo, Hi
<1>2. StampInv' <=> StampState(tm', td', nticks', since')
  BY LoadFacts DEF StampInv, StampState, Lo, Hi
<1> QED
  BY <1>1, <1>2

InStamp == {"free", "stop", "low", "high", "start"} \cup InTurn

\* What every step of the timestamp's driver leaves alone.
LEMMA StampStep ==
  ASSUME TimerTypeOK, NEW from \in InStamp, NEW to \in InStamp, NEW reg, NEW data,
         Step(from, to, reg, data)
  PROVE  /\ tm \in TmSet /\ td \in TdSet /\ td' \in TdSet /\ nticks' = nticks /\ Edge(reg, data)
         /\ td.pc = from /\ td'.pc = to /\ td'.lower = td.lower /\ td'.upper = td.upper
         /\ since \in SinceSet
<1>1. tm \in TmSet /\ td \in TdSet /\ since \in SinceSet
  BY TypeParts DEF SinceSet
<1>2. td.pc = from /\ td' = [td EXCEPT !.pc = to, !.waits = 0] /\ Edge(reg, data) /\ Passes
  BY DEF Step
<1>3. td' \in TdSet /\ td'.pc = to /\ td'.lower = td.lower /\ td'.upper = td.upper
  <2>1. to \in {"free", "stop", "low", "high", "start", "ready", "snap", "read_l", "read_h", "answer"}
    BY DEF InStamp, InTurn
  <2>2. 0 \in 0..Latency
    BY Sizes
  <2> QED
    BY <1>1, <1>2, <2>1, <2>2 DEF TdSet
<1>4. nticks' = nticks
  BY <1>2 DEF Passes, InStamp, InTurn
<1> QED
  BY <1>1, <1>2, <1>3, <1>4

\* An edge of the running timestamp.
LEMMA TurnEdge ==
  ASSUME TimerTypeOK, td.pc \in InTurn, StampInv, NEW reg \in {"none", "snap"}, Edge(reg, 0)
  PROVE  /\ tm' \in TmSet /\ ~tm'.reload /\ tm'.control = {"START"}
         /\ Loaded(tm'.period_h, tm'.period_l) = Full /\ tm'.period_l = Half - 1
         /\ Later(since.now) <= Full => tm'.running /\ tm'.counter = Full - Later(since.now)
         /\ Later(since.now) > Full => ~tm'.running /\ tm'.counter = Full
         /\ tm'.snapshot = IF reg = "snap" THEN IF since.now <= Full THEN Full - since.now ELSE Full
                                           ELSE tm.snapshot
<1>1. /\ tm \in TmSet /\ since \in SinceSet /\ since.now \in Elapsed
      /\ tm.reload \in BOOLEAN /\ tm.running \in BOOLEAN
  BY TypeParts DEF SinceSet, TmSet
<1>2. /\ ~tm.reload /\ tm.control = {"START"}
      /\ Loaded(tm.period_h, tm.period_l) = Full /\ tm.period_l = Half - 1
      /\ since.now <= Full => tm.running /\ tm.counter = Full - since.now
      /\ since.now > Full => ~tm.running /\ tm.counter = Full
  BY StampParts DEF StampState, InTurn
<1>3. LoadValue = Full
  BY <1>2, LoadFacts
<1>4. RegisterWritten(reg, 0)
  BY DEF RegisterWritten
<1>5. ~Starts(reg, 0) /\ (Stops(reg, 0) <=> tm.counter = 0)
  BY <1>2 DEF Starts, Stops
<1>6. /\ tm' \in TmSet
      /\ ~tm.running => tm'.counter = tm.counter
      /\ tm.running => tm'.counter = IF tm.counter = 0 THEN Full ELSE tm.counter - 1
      /\ tm'.period_l = tm.period_l /\ tm'.period_h = tm.period_h /\ tm'.control = tm.control
      /\ tm'.running <=> tm.running /\ tm.counter # 0
      /\ ~tm'.reload
      /\ tm'.snapshot = IF reg = "snap" THEN tm.counter ELSE tm.snapshot
  BY <1>1, <1>2, <1>3, <1>4, <1>5, EdgeFacts
<1>7. since.now \in 0..(Full + 2) /\ Later(since.now) = IF since.now = Full + 2 THEN Full + 2 ELSE since.now + 1
  BY <1>1 DEF Elapsed, Later
<1>8. /\ Later(since.now) <= Full => tm'.running /\ tm'.counter = Full - Later(since.now)
      /\ Later(since.now) > Full => ~tm'.running /\ tm'.counter = Full
  BY <1>2, <1>6, <1>7, Sizes
<1>9. tm'.snapshot = IF reg = "snap" THEN IF since.now <= Full THEN Full - since.now ELSE Full
                                     ELSE tm.snapshot
  BY <1>2, <1>6, <1>7, Sizes
<1> QED
  BY <1>2, <1>6, <1>8, <1>9

StampKept == tm' \in TmSet /\ td' \in TdSet /\ since' \in SinceSet /\ td'.pc \in InStamp /\ StampInv'

\* An edge of the running timestamp is one more edge since its start.
LEMMA CountingStays ==
  ASSUME since \in SinceSet, Counting
  PROVE  since' \in SinceSet /\ since'.now = Later(since.now) /\ since'.snapped = since.snapped
BY LaterStays DEF Counting, SinceSet

\* The timer used for the timestamp is stopped from the reset on
\* (altera_avalon_timer.h:181-216).
LEMMA ChooseKeeps ==
  ASSUME TimerTypeOK, BootInv, ts_Choose
  PROVE  StampKept
<1>1. /\ tm \in TmSet /\ td \in TdSet /\ since \in SinceSet /\ RegisterWritten("none", 0)
  BY TypeParts DEF SinceSet, RegisterWritten
<1>2. /\ td' = [td EXCEPT !.pc = "free", !.waits = 0] /\ Edge("none", 0) /\ since' = since
      /\ nticks' = nticks
  BY DEF ts_Choose, Step, Passes
<1>3. td' \in TdSet /\ td'.pc = "free"
  <2>1. 0 \in 0..Latency
    BY Sizes
  <2> QED
    BY <1>1, <1>2, <2>1 DEF TdSet
<1>4. tm' \in TmSet /\ ~tm'.running /\ ~tm'.reload
  BY <1>1, <1>2, EdgeFacts DEF BootInv, Starts
<1>5. StampState(tm', td', nticks', since')
  BY <1>2, <1>3, <1>4 DEF StampState, InTurn, BootInv
<1> QED
  BY <1>1, <1>2, <1>3, <1>4, <1>5, StampParts DEF StampKept, InStamp

\* Stopping and loading the counter, then starting it.
LEMMA BeginKeeps ==
  ASSUME TimerTypeOK, StampInv, ts_Begin
  PROVE  StampKept
<1>0. td.pc \in InStamp /\ Step(td.pc, "stop", "none", 0) /\ since' = since /\ "stop" \in InStamp
  BY DEF ts_Begin, InStamp, InTurn
<1>1. /\ tm \in TmSet /\ td' \in TdSet /\ nticks' = nticks /\ Edge("none", 0) /\ td'.pc = "stop"
      /\ since \in SinceSet
  BY <1>0, StampStep
<1>2. tm' \in TmSet /\ ~tm'.reload
  BY <1>1, EdgeFacts DEF RegisterWritten
<1>3. StampState(tm', td', nticks', since')
  BY <1>1, <1>2, StampParts DEF StampState, InTurn
<1> QED
  BY <1>0, <1>1, <1>2, <1>3, StampParts DEF StampKept

\* alt_timestamp_start's first access stops the counter
\* (altera_avalon_timer_ts.c:86).
LEMMA StopKeeps ==
  ASSUME TimerTypeOK, StampInv, ts_Stop
  PROVE  StampKept
<1>0. Step("stop", "low", "control", {"STOP"}) /\ Counting /\ "stop" \in InStamp /\ "low" \in InStamp
  BY DEF ts_Stop, InStamp
<1>1. /\ tm \in TmSet /\ td' \in TdSet /\ nticks' = nticks /\ Edge("control", {"STOP"})
      /\ td'.pc = "low" /\ since \in SinceSet
  BY <1>0, StampStep
<1>2. RegisterWritten("control", {"STOP"}) /\ ~Starts("control", {"STOP"}) /\ Stops("control", {"STOP"})
  BY DEF RegisterWritten, Starts, Stops, Control
<1>3. tm' \in TmSet /\ ~tm'.reload /\ ~tm'.running
  BY <1>1, <1>2, EdgeFacts
<1>4. StampState(tm', td', nticks', since')
  BY <1>1, <1>3, StampParts DEF StampState, InTurn
<1> QED
  BY <1>0, <1>1, <1>3, <1>4, StampParts, CountingStays DEF StampKept

\* The low half of the period stops and loads it (altera_avalon_timer_ts.c:87).
LEMMA LowKeeps ==
  ASSUME TimerTypeOK, StampInv, ts_Low
  PROVE  StampKept
<1>0. Step("low", "high", "period_l", Half - 1) /\ Counting /\ "low" \in InStamp /\ "high" \in InStamp
  BY DEF ts_Low, InStamp
<1>1. /\ tm \in TmSet /\ td' \in TdSet /\ nticks' = nticks /\ Edge("period_l", Half - 1)
      /\ td.pc = "low" /\ td'.pc = "high" /\ since \in SinceSet
  BY <1>0, StampStep
<1>2. RegisterWritten("period_l", Half - 1) /\ ~Starts("period_l", Half - 1)
  BY Halves DEF RegisterWritten, Starts
<1>3. tm' \in TmSet /\ tm'.period_l = Half - 1 /\ (tm'.running => tm.running)
  BY <1>1, <1>2, EdgeFacts
<1>4. StampState(tm', td', nticks', since')
  BY <1>1, <1>3, StampParts DEF StampState, InTurn
<1> QED
  BY <1>0, <1>1, <1>3, <1>4, StampParts, CountingStays DEF StampKept

\* So does the high half: the counter has both before it starts
\* (altera_avalon_timer_ts.c:88).
LEMMA HighKeeps ==
  ASSUME TimerTypeOK, StampInv, ts_High
  PROVE  StampKept
<1>0. Step("high", "start", "period_h", Half - 1) /\ Counting /\ "high" \in InStamp /\ "start" \in InStamp
  BY DEF ts_High, InStamp
<1>1. /\ tm \in TmSet /\ td' \in TdSet /\ nticks' = nticks /\ Edge("period_h", Half - 1)
      /\ td.pc = "high" /\ td'.pc = "start" /\ since \in SinceSet
  BY <1>0, StampStep
<1>2. RegisterWritten("period_h", Half - 1) /\ ~Starts("period_h", Half - 1)
  BY Halves DEF RegisterWritten, Starts
<1>3. /\ tm' \in TmSet /\ tm'.period_l = tm.period_l /\ tm'.period_h = Half - 1
      /\ tm'.running => tm.running
      /\ tm'.reload
  BY <1>1, <1>2, EdgeFacts
<1>4. StampState(tm', td', nticks', since')
  BY <1>1, <1>3, StampParts, LoadFacts DEF StampState, InTurn
<1> QED
  BY <1>0, <1>1, <1>3, <1>4, StampParts, CountingStays DEF StampKept

\* The counter starts from all ones (altera_avalon_timer_ts.c:89-93).
LEMMA StartKeeps ==
  ASSUME TimerTypeOK, StampInv, ts_Start
  PROVE  StampKept
<1>0. /\ Step("start", "ready", "control", {"START"}) /\ "start" \in InStamp /\ "ready" \in InStamp
      /\ since' = [now |-> 0, snapped |-> 0]
  BY DEF ts_Start, InStamp, InTurn
<1>1. /\ tm \in TmSet /\ td' \in TdSet /\ nticks' = nticks /\ Edge("control", {"START"})
      /\ td.pc = "start" /\ td'.pc = "ready" /\ since \in SinceSet
  BY <1>0, StampStep
<1>2. RegisterWritten("control", {"START"}) /\ Starts("control", {"START"})
  BY DEF RegisterWritten, Starts, Control
<1>3. /\ tm' \in TmSet /\ tm'.period_l = tm.period_l /\ tm'.period_h = tm.period_h
      /\ tm'.control = {"START"} /\ tm'.running /\ ~tm'.reload
      /\ tm.reload => tm'.counter = LoadValue
      /\ ~tm.running /\ ~tm.reload => tm'.counter = tm.counter
  BY <1>1, <1>2, EdgeFacts
<1>4. /\ ~tm.running /\ LoadValue = Full /\ Loaded(tm.period_h, tm.period_l) = Full
      /\ tm.period_l = Half - 1 /\ (tm.reload \/ tm.counter = Full) /\ nticks = 0
  BY <1>1, StampParts, LoadFacts DEF StampState
<1>5. tm'.counter = Full
  BY <1>3, <1>4
<1>6. StampState(tm', td', nticks', since')
  BY <1>0, <1>1, <1>3, <1>4, <1>5, Sizes DEF StampState, InTurn
<1> QED
  BY <1>0, <1>1, <1>3, <1>6, StampParts, LaterStays DEF StampKept

\* Asking and reading while it runs.
LEMMA AskKeeps ==
  ASSUME TimerTypeOK, StampInv, ts_Ask
  PROVE  StampKept
<1>0. Step("ready", "snap", "none", 0) /\ Counting /\ "ready" \in InStamp /\ "snap" \in InStamp
  BY DEF ts_Ask, InStamp, InTurn
<1>1. /\ tm \in TmSet /\ td' \in TdSet /\ nticks' = nticks /\ Edge("none", 0)
      /\ td.pc = "ready" /\ td'.pc = "snap" /\ since \in SinceSet
  BY <1>0, StampStep
<1>2. td.pc \in InTurn
  BY <1>1 DEF InTurn
<1>3. since' \in SinceSet /\ since'.now = Later(since.now)
  BY <1>0, <1>1, CountingStays
<1>4. /\ tm' \in TmSet /\ ~tm'.reload /\ tm'.control = {"START"}
      /\ Loaded(tm'.period_h, tm'.period_l) = Full /\ tm'.period_l = Half - 1
      /\ since'.now <= Full => tm'.running /\ tm'.counter = Full - since'.now
      /\ since'.now > Full => ~tm'.running /\ tm'.counter = Full
  BY <1>1, <1>2, <1>3, TurnEdge
<1>5. StampState(tm', td', nticks', since')
  BY <1>1, <1>4, StampParts DEF StampState, InTurn
<1> QED
  BY <1>0, <1>1, <1>3, <1>4, <1>5, StampParts DEF StampKept

\* The snapshot holds the counter of this edge (altera_avalon_timer_ts.c:128).
LEMMA SnapKeeps ==
  ASSUME TimerTypeOK, StampInv, ts_Snap
  PROVE  StampKept
<1>0. /\ Step("snap", "read_l", "snap", 0) /\ "snap" \in InStamp /\ "read_l" \in InStamp
      /\ since' = [now |-> Later(since.now), snapped |-> since.now]
  BY DEF ts_Snap, InStamp, InTurn
<1>1. /\ tm \in TmSet /\ td' \in TdSet /\ nticks' = nticks /\ Edge("snap", 0)
      /\ td.pc = "snap" /\ td'.pc = "read_l" /\ since \in SinceSet
  BY <1>0, StampStep
<1>2. td.pc \in InTurn
  BY <1>1 DEF InTurn
<1>3. since' \in SinceSet /\ since'.now = Later(since.now) /\ since'.snapped = since.now
  BY <1>0, <1>1, LaterStays
<1>4. /\ tm' \in TmSet /\ ~tm'.reload /\ tm'.control = {"START"}
      /\ Loaded(tm'.period_h, tm'.period_l) = Full /\ tm'.period_l = Half - 1
      /\ since'.now <= Full => tm'.running /\ tm'.counter = Full - since'.now
      /\ since'.now > Full => ~tm'.running /\ tm'.counter = Full
      /\ tm'.snapshot = IF since'.snapped <= Full THEN Full - since'.snapped ELSE Full
  BY <1>1, <1>2, <1>3, TurnEdge
<1>5. StampState(tm', td', nticks', since')
  BY <1>1, <1>4, StampParts DEF StampState, InTurn
<1> QED
  BY <1>0, <1>1, <1>3, <1>4, <1>5, StampParts DEF StampKept

\* The low half that is read is the snapshot's, while the counter goes on
\* (altera_avalon_timer_ts.c:129).
LEMMA ReadLowKeeps ==
  ASSUME TimerTypeOK, StampInv, ts_ReadLow
  PROVE  StampKept
<1>0. /\ td.pc = "read_l" /\ td' = [td EXCEPT !.pc = "read_h", !.lower = Lo(tm.snapshot)]
      /\ Edge("none", 0) /\ Passes /\ Counting
  BY DEF ts_ReadLow, Lo
<1>1. /\ tm \in TmSet /\ td \in TdSet /\ since \in SinceSet /\ tm.snapshot \in 0..Full /\ nticks' = nticks
  BY <1>0, TypeParts DEF SinceSet, TmSet, Passes
<1>2. Lo(tm.snapshot) \in Register
  BY <1>1, Halves
<1>3. td' \in TdSet /\ td'.pc = "read_h" /\ td'.lower = Lo(tm.snapshot)
  BY <1>0, <1>1, <1>2 DEF TdSet
<1>4. td.pc \in InTurn
  BY <1>0 DEF InTurn
<1>5. since' \in SinceSet /\ since'.now = Later(since.now) /\ since'.snapped = since.snapped
  BY <1>0, <1>1, CountingStays
<1>6. /\ tm' \in TmSet /\ ~tm'.reload /\ tm'.control = {"START"}
      /\ Loaded(tm'.period_h, tm'.period_l) = Full /\ tm'.period_l = Half - 1
      /\ since'.now <= Full => tm'.running /\ tm'.counter = Full - since'.now
      /\ since'.now > Full => ~tm'.running /\ tm'.counter = Full
      /\ tm'.snapshot = tm.snapshot
  BY <1>0, <1>1, <1>4, <1>5, TurnEdge
<1>7. StampState(tm', td', nticks', since')
  BY <1>0, <1>1, <1>3, <1>5, <1>6, StampParts DEF StampState, InTurn
<1> QED
  BY <1>3, <1>5, <1>6, <1>7, StampParts DEF StampKept, InStamp, InTurn

\* So is the high half (altera_avalon_timer_ts.c:130).
LEMMA ReadHighKeeps ==
  ASSUME TimerTypeOK, StampInv, ts_ReadHigh
  PROVE  StampKept
<1>0. /\ td.pc = "read_h" /\ td' = [td EXCEPT !.pc = "answer", !.upper = Hi(tm.snapshot)]
      /\ Edge("none", 0) /\ Passes /\ Counting
  BY DEF ts_ReadHigh, Hi
<1>1. /\ tm \in TmSet /\ td \in TdSet /\ since \in SinceSet /\ tm.snapshot \in 0..Full /\ nticks' = nticks
  BY <1>0, TypeParts DEF SinceSet, TmSet, Passes
<1>2. Hi(tm.snapshot) \in Register
  BY <1>1, Halves
<1>3. td' \in TdSet /\ td'.pc = "answer" /\ td'.upper = Hi(tm.snapshot) /\ td'.lower = td.lower
  BY <1>0, <1>1, <1>2 DEF TdSet
<1>4. td.pc \in InTurn
  BY <1>0 DEF InTurn
<1>5. since' \in SinceSet /\ since'.now = Later(since.now) /\ since'.snapped = since.snapped
  BY <1>0, <1>1, CountingStays
<1>6. /\ tm' \in TmSet /\ ~tm'.reload /\ tm'.control = {"START"}
      /\ Loaded(tm'.period_h, tm'.period_l) = Full /\ tm'.period_l = Half - 1
      /\ since'.now <= Full => tm'.running /\ tm'.counter = Full - since'.now
      /\ since'.now > Full => ~tm'.running /\ tm'.counter = Full
      /\ tm'.snapshot = tm.snapshot
  BY <1>0, <1>1, <1>4, <1>5, TurnEdge
<1>7. StampState(tm', td', nticks', since')
  BY <1>0, <1>1, <1>3, <1>5, <1>6, StampParts DEF StampState, InTurn
<1> QED
  BY <1>3, <1>5, <1>6, <1>7, StampParts DEF StampKept, InStamp, InTurn

\* The answer leaves the counter running (altera_avalon_timer_ts.c:132-135).
LEMMA ReturnKeeps ==
  ASSUME TimerTypeOK, StampInv, ts_Return
  PROVE  StampKept
<1>0. /\ td.pc = "answer" /\ td' = [td EXCEPT !.pc = "ready", !.lower = 0, !.upper = 0]
      /\ Edge("none", 0) /\ Passes /\ Counting
  BY DEF ts_Return
<1>1. /\ tm \in TmSet /\ td \in TdSet /\ since \in SinceSet /\ nticks' = nticks
  BY <1>0, TypeParts DEF SinceSet, Passes
<1>3. td' \in TdSet /\ td'.pc = "ready"
  <2>1. 0 \in Register
    BY Halves DEF Register
  <2> QED
    BY <1>0, <1>1, <2>1 DEF TdSet
<1>4. td.pc \in InTurn
  BY <1>0 DEF InTurn
<1>5. since' \in SinceSet /\ since'.now = Later(since.now)
  BY <1>0, <1>1, CountingStays
<1>6. /\ tm' \in TmSet /\ ~tm'.reload /\ tm'.control = {"START"}
      /\ Loaded(tm'.period_h, tm'.period_l) = Full /\ tm'.period_l = Half - 1
      /\ since'.now <= Full => tm'.running /\ tm'.counter = Full - since'.now
      /\ since'.now > Full => ~tm'.running /\ tm'.counter = Full
  BY <1>0, <1>1, <1>4, <1>5, TurnEdge
<1>7. StampState(tm', td', nticks', since')
  BY <1>0, <1>1, <1>3, <1>5, <1>6, StampParts DEF StampState, InTurn
<1> QED
  BY <1>3, <1>5, <1>6, <1>7, StampParts DEF StampKept, InStamp, InTurn

\* An edge without an access.
LEMMA StampIdles ==
  ASSUME TimerTypeOK, StampInv, td.pc \in InStamp, IdleEdge
  PROVE  StampKept
<1>0. /\ Edge("none", 0) /\ Passes
      /\ TimerIrq => td.waits < Latency
      /\ td' = [td EXCEPT !.waits = IF TimerIrq THEN td.waits + 1 ELSE td.waits]
  BY DEF IdleEdge, InStamp, InTurn
<1>1. /\ tm \in TmSet /\ td \in TdSet /\ since \in SinceSet /\ nticks' = nticks /\ td.waits \in 0..Latency
  BY <1>0, TypeParts DEF SinceSet, Passes, InStamp, InTurn, TdSet
<1>2. td' \in TdSet /\ td'.pc = td.pc /\ td'.lower = td.lower /\ td'.upper = td.upper
  <2>1. (IF TimerIrq THEN td.waits + 1 ELSE td.waits) \in 0..Latency
    BY <1>0, <1>1, Sizes
  <2> QED
    BY <1>0, <1>1, <2>1 DEF TdSet
<1>3. CASE td.pc \in InTurn
  <2>1. Counting
    BY <1>3 DEF IdleEdge, Counting, InTurn
  <2>2. since' \in SinceSet /\ since'.now = Later(since.now) /\ since'.snapped = since.snapped
    BY <1>1, <2>1, CountingStays
  <2>3. /\ tm' \in TmSet /\ ~tm'.reload /\ tm'.control = {"START"}
        /\ Loaded(tm'.period_h, tm'.period_l) = Full /\ tm'.period_l = Half - 1
        /\ since'.now <= Full => tm'.running /\ tm'.counter = Full - since'.now
        /\ since'.now > Full => ~tm'.running /\ tm'.counter = Full
        /\ tm'.snapshot = tm.snapshot
    BY <1>0, <1>1, <1>3, <2>2, TurnEdge
  <2>4. StampState(tm', td', nticks', since')
    BY <1>0, <1>1, <1>2, <1>3, <2>2, <2>3, StampParts DEF StampState, InTurn
  <2> QED
    BY <1>2, <2>2, <2>3, <2>4, StampParts DEF StampKept
<1>4. CASE td.pc \notin InTurn
  <2>1. RegisterWritten("none", 0) /\ ~Starts("none", 0)
    BY DEF RegisterWritten, Starts
  <2>2. /\ tm' \in TmSet /\ (tm'.running => tm.running) /\ ~tm'.reload
        /\ tm'.period_l = tm.period_l /\ tm'.period_h = tm.period_h
        /\ tm.reload => tm'.counter = LoadValue
        /\ ~tm.running /\ ~tm.reload => tm'.counter = tm.counter
    BY <1>0, <1>1, <2>1, EdgeFacts
  <2>3. since' \in SinceSet
    BY <1>1, LaterStays DEF IdleEdge
  <2>4. StampState(tm', td', nticks', since')
    BY <1>1, <1>2, <1>4, <2>2, StampParts, LoadFacts DEF StampState, InTurn
  <2> QED
    BY <1>2, <2>2, <2>3, <2>4, StampParts DEF StampKept
<1> QED
  BY <1>3, <1>4

-----------------------------------------------------------------------------
\* alt_avalon_timer_sc_init starts the clock with its period and its interrupt
\* (altera_avalon_timer_sc.c:89-110).
LEMMA InitKeeps ==
  ASSUME TimerTypeOK, BootInv, sc_Init
  PROVE  tm' \in TmSet /\ td' \in TdSet /\ td'.pc = "clock" /\ nticks' = 0 /\ since' = since /\ ClockInv'
<1> DEFINE data == {"ITO", "CONT", "START"}
<1>1. /\ tm \in TmSet /\ td \in TdSet
  BY TypeParts
<1>2. /\ td' = [td EXCEPT !.pc = "clock", !.waits = 0] /\ Edge("control", data) /\ since' = since
      /\ nticks' = nticks /\ nticks = 0
  BY DEF sc_Init, Step, Passes, BootInv
<1>3. td' \in TdSet /\ td'.pc = "clock" /\ td'.waits = 0
  <2>1. 0 \in 0..Latency
    BY Sizes
  <2> QED
    BY <1>1, <1>2, <2>1 DEF TdSet
<1>4. RegisterWritten("control", data) /\ Starts("control", data) /\ ~TimeoutEvent
  BY Sizes DEF RegisterWritten, Starts, Control, TimeoutEvent, BootInv
<1>5. /\ tm' \in TmSet /\ tm'.counter = tm.counter /\ tm'.period_l = tm.period_l
      /\ tm'.period_h = tm.period_h /\ tm'.control = data /\ tm'.running /\ ~tm'.reload
      /\ (tm'.was_zero <=> tm.counter = 0) /\ ~tm'.timeout
  BY <1>1, <1>2, <1>4, EdgeFacts DEF BootInv
<1>6. ClockRegs(tm')
  BY <1>5, LoadFacts, Sizes DEF ClockRegs, BootInv
<1>7. ClockState(tm', "clock", 0, 0)
  BY <1>5, <1>6 DEF ClockState
<1> QED
  BY <1>2, <1>3, <1>5, <1>7, ClockParts

\* The invariant implies the properties that the runs check: the two halves that were
\* read make the edges since the start.
LEMMA Answered ==
  ASSUME TimerInv
  PROVE  TicksKeepUp /\ TimestampTrue
<1>1. tm \in TmSet /\ td \in TdSet /\ since \in SinceSet
  BY TypeParts DEF TimerInv, SinceSet
<1>2. TicksKeepUp
  <2>1. CASE td.pc \in InClock
    BY <1>1, <2>1 DEF TimerInv, ClockInv, TicksKeepUp, TimerIrq, InClock
  <2>2. CASE td.pc \notin InClock
    BY <2>2 DEF TimerInv, BootInv, StampInv, TicksKeepUp
  <2> QED
    BY <2>1, <2>2
<1>3. TimestampTrue
  <2> SUFFICES ASSUME td.pc = "answer"
               PROVE  alt_timestamp = IF since.snapped <= Full THEN since.snapped ELSE 0
    BY DEF TimestampTrue
  <2>1. StampState(tm, td, nticks, since)
    BY StampParts DEF TimerInv, InClock
  <2>2. /\ tm.snapshot = IF since.snapped <= Full THEN Full - since.snapped ELSE Full
        /\ td.lower = Lo(tm.snapshot) /\ td.upper = Hi(tm.snapshot)
    BY <2>1 DEF StampState
  <2>3. tm.snapshot \in 0..Full /\ since.snapped \in Elapsed
    BY <1>1 DEF TmSet, SinceSet
  <2>4. Loaded(td.upper, td.lower) = tm.snapshot
    BY <2>2, <2>3, Halves
  <2>5. alt_timestamp = Full - tm.snapshot
    BY <2>4, Zenon DEF alt_timestamp, Loaded
  <2> QED
    BY <2>2, <2>3, <2>5, Sizes DEF Elapsed
<1> QED
  BY <1>2, <1>3

\* Every step of the timer and of its drivers keeps the invariant
\* (altera_avalon_timer_sc.c:53-110, altera_avalon_timer_ts.c:68-135).
LEMMA TimerStep ==
  ASSUME Prompt, TimerInv, TimerNext
  PROVE  TimerInv'
<1>1. TimerTypeOK /\ tm \in TmSet /\ td \in TdSet /\ since \in SinceSet
  BY TypeParts DEF TimerInv, SinceSet
<1>2. td.pc \in {"boot"} \cup InClock \cup InStamp
  BY <1>1 DEF TdSet, InClock, InStamp, InTurn
<1>3. /\ td.pc = "boot" => BootInv
      /\ td.pc \in InClock => ClockInv
      /\ td.pc \in InStamp => StampInv
  BY DEF TimerInv, InClock, InStamp, InTurn
<1>4. ASSUME StampKept PROVE TimerInv'
  <2>1. nticks' = 0
    BY <1>4, StampParts DEF StampKept, StampState
  <2>2. TimerTypeOK'
    BY <1>4, <2>1, TypeParts DEF StampKept, SinceSet
  <2> QED
    BY <1>4, <2>2 DEF TimerInv, StampKept, InClock, InStamp, InTurn
<1>5. ASSUME tm' \in TmSet /\ td' \in TdSet /\ nticks' \in {-1, 0} /\ td'.pc \in InClock /\ ClockInv',
             since' \in SinceSet
      PROVE  TimerInv'
  <2>1. TimerTypeOK'
    BY <1>5, TypeParts DEF SinceSet
  <2> QED
    BY <1>5, <2>1 DEF TimerInv, InClock
<1>6. CASE sc_Init
  <2>1. td.pc = "boot"
    BY <1>6 DEF sc_Init, Step
  <2> QED
    BY <1>1, <1>3, <1>5, <1>6, <2>1, InitKeeps DEF InClock
<1>7. CASE sc_Enter
  <2>1. /\ td.pc = "clock" /\ tm.timeout /\ Edge("none", 0) /\ since' = since
        /\ td' = [td EXCEPT !.pc = "clear", !.waits = 0]
        /\ nticks' = IF TimeoutEvent THEN nticks - 1 ELSE nticks
    BY <1>7 DEF sc_Enter, Step, Passes, TimerIrq
  <2>2. nticks' = (IF TimeoutEvent THEN nticks - 1 ELSE nticks) + 0
    BY <1>1, <2>1 DEF TimerTypeOK
  <2>3. td.pc \in InClock /\ "clear" \in InClock
    BY <2>1 DEF InClock
  <2> QED
    BY <1>1, <1>3, <1>5, <2>1, <2>2, <2>3, ClockSteps
<1>8. CASE sc_Clear
  <2>1. /\ td.pc = "clear" /\ Edge("status", 0) /\ since' = since
        /\ td' = [td EXCEPT !.pc = "dummy", !.waits = 0]
        /\ nticks' = IF TimeoutEvent THEN nticks - 1 ELSE nticks
    BY <1>8 DEF sc_Clear, Step, Passes
  <2>2. nticks' = (IF TimeoutEvent THEN nticks - 1 ELSE nticks) + 0
    BY <1>1, <2>1 DEF TimerTypeOK
  <2>3. td.pc \in InClock /\ "dummy" \in InClock
    BY <2>1 DEF InClock
  <2> QED
    BY <1>1, <1>3, <1>5, <2>1, <2>2, <2>3, ClockSteps
<1>9. CASE sc_Dummy
  <2>1. /\ td.pc = "dummy" /\ Edge("none", 0) /\ since' = since
        /\ td' = [td EXCEPT !.pc = "tick", !.waits = 0]
        /\ nticks' = IF TimeoutEvent THEN nticks - 1 ELSE nticks
    BY <1>9 DEF sc_Dummy, Step, Passes
  <2>2. nticks' = (IF TimeoutEvent THEN nticks - 1 ELSE nticks) + 0
    BY <1>1, <2>1 DEF TimerTypeOK
  <2>3. td.pc \in InClock /\ "tick" \in InClock
    BY <2>1 DEF InClock
  <2> QED
    BY <1>1, <1>3, <1>5, <2>1, <2>2, <2>3, ClockSteps
<1>10. CASE sc_Tick
  <2>1. /\ td.pc = "tick" /\ Edge("none", 0) /\ since' = since
        /\ td' = [td EXCEPT !.pc = "clock", !.waits = 0]
        /\ nticks' = (IF TimeoutEvent THEN nticks - 1 ELSE nticks) + 1
    BY <1>10 DEF sc_Tick
  <2>3. td.pc \in InClock /\ "clock" \in InClock
    BY <2>1 DEF InClock
  <2> QED
    BY <1>1, <1>3, <1>5, <2>1, <2>3, ClockSteps
<1>11. CASE IdleEdge
  <2>1. CASE td.pc \in InClock
    <3>1. since' \in SinceSet
      BY <1>1, <1>11, LaterStays DEF IdleEdge
    <3> QED
      BY <1>1, <1>3, <1>5, <1>11, <2>1, <3>1, ClockIdles
  <2>2. CASE td.pc \in InStamp
    BY <1>1, <1>3, <1>4, <1>11, <2>2, StampIdles
  <2> QED
    BY <1>2, <1>11, <2>1, <2>2 DEF IdleEdge
<1>12. CASE ts_Choose
  <2>1. td.pc = "boot"
    BY <1>12 DEF ts_Choose, Step
  <2> QED
    BY <1>1, <1>3, <1>4, <1>12, <2>1, ChooseKeeps
<1>13. CASE ts_Begin \/ ts_Stop \/ ts_Low \/ ts_High \/ ts_Start
  <2>1. td.pc \in InStamp
    BY <1>13 DEF ts_Begin, ts_Stop, ts_Low, ts_High, ts_Start, Step, InStamp, InTurn
  <2> QED
    BY <1>1, <1>3, <1>4, <1>13, <2>1, BeginKeeps, StopKeeps, LowKeeps, HighKeeps, StartKeeps
<1>14. CASE ts_Ask \/ ts_Snap \/ ts_ReadLow \/ ts_ReadHigh \/ ts_Return
  <2>1. td.pc \in InStamp
    BY <1>14 DEF ts_Ask, ts_Snap, ts_ReadLow, ts_ReadHigh, ts_Return, Step, InStamp, InTurn
  <2> QED
    BY <1>1, <1>3, <1>4, <1>14, <2>1, AskKeeps, SnapKeeps, ReadLowKeeps, ReadHighKeeps, ReturnKeeps
<1> QED
  BY <1>6, <1>7, <1>8, <1>9, <1>10, <1>11, <1>12, <1>13, <1>14 DEF TimerNext

\* Also an edge at which none of them moves.
LEMMA TimerKept ==
  ASSUME Prompt, TimerInv, [TimerNext]_timerVars
  PROVE  TimerInv'
<1>1. CASE UNCHANGED timerVars
  BY <1>1 DEF timerVars, TimerInv, TimerTypeOK, BootInv, ClockInv, StampInv, LoadValue, Behind
<1> QED
  BY <1>1, TimerStep

\* For every width of the registers, period and latency of the handler: no tick of
\* the clock is lost, and a timestamp is the number of edges since its start
\* (altera_avalon_timer_sc.c:53-110, altera_avalon_timer_ts.c:68-135).
THEOREM ClockIsTrue ==
  ASSUME Prompt
  PROVE  TimerSpec => [](TimerTypeOK /\ TicksKeepUp /\ TimestampTrue)
<1>1. TimerInit => TimerInv
  BY TimerStarts
<1>2. TimerInv /\ [TimerNext]_timerVars => TimerInv'
  BY TimerKept
<1>3. TimerInv => TimerTypeOK /\ TicksKeepUp /\ TimestampTrue
  BY Answered DEF TimerInv
<1> QED
  BY <1>1, <1>2, <1>3, PTL DEF TimerSpec

-----------------------------------------------------------------------------
(* The time of day (alt_gettod.c, alt_settod.c).                           *)

\* The operators of the module at a rate, out of sight.
PerTick(r) == ALT_US \div r
UsecAt(r, n) == (n * PerTick(r)) % ALT_US
SecAt(r, n) == n \div r
LowOf(n) == n % LowWord
HighOf(n) == n \div LowWord
Read(h, l) == h * LowWord + l

\* What a call has read of the counter are the low word of one time during the call and
\* the high word of a later one.
CallOK(c, ticks) ==
  /\ c.op = "none" <=> c = NoTodCall
  /\ c.op # "none" => c.first <= ticks
  /\ c.at = "high" => \E t \in c.first .. ticks : c.low = LowOf(t)
  /\ c.at = "done" /\ c.op # "none" =>
       \E u \in c.first .. ticks : \E t \in c.first .. u : c.low = LowOf(t) /\ c.high = HighOf(u)

\* The stored time is the time set less what the counter read at the time.
SetOK(reset, set, rate, ticks) ==
  /\ set.t \in TimeVal /\ set.from \in Nat /\ set.to \in Nat /\ set.from <= set.to /\ set.to <= ticks
  /\ rate > 0 => \E n \in 0 .. MaxTicks + LowWord - 1 :
       /\ reset.sec = set.t.sec - SecAt(rate, n) /\ reset.usec = set.t.usec - UsecAt(rate, n)
       /\ HighOf(set.from) = HighOf(set.to) => set.from <= n /\ n <= set.to

AnswerOK(a, set, rate) ==
  /\ a.t.usec \in 0..(ALT_US - 1)
  /\ a # NoAnswer =>
       /\ rate > 0
       /\ HighOf(a.from) = HighOf(a.to) /\ HighOf(set.from) = HighOf(set.to) =>
            /\ InUsec(a.t) >= InUsec(set.t) + (a.from - set.to) * PerTick(rate)
            /\ InUsec(a.t) <= InUsec(set.t) + (a.to - set.from) * PerTick(rate)

TodInv ==
  /\ alt_ticks \in 0..MaxTicks /\ alt_tick_rate \in TickRates \union {0}
  /\ alt_resettime \in [sec : Int, usec : Int]
  /\ tod_call \in [op : {"none", "get", "set", "times"}, at : {"low", "high", "done"},
                   t : TimeVal, low : 0..(LowWord - 1), high : 0..MaxTicks, first : 0..MaxTicks]
  /\ CallOK(tod_call, alt_ticks)
  /\ SetOK(alt_resettime, tod_set, alt_tick_rate, alt_ticks)
  /\ AnswerOK(tod_answer, tod_set, alt_tick_rate)
  /\ tod_answer # NoAnswer => tod_call.op = "none"
  /\ alt_tick_rate = 0 => alt_resettime = NoTime /\ tod_set = NoAnswer /\ alt_ticks = 0

-----------------------------------------------------------------------------
\* A natural number is a multiple of the divisor and a rest below it, and the rest is
\* what was added to a multiple.
LEMMA Divides ==
  /\ \A a \in Nat, b \in Nat \ {0} :
       \E q \in Nat, r \in 0..(b - 1) : a \div b = q /\ a % b = r /\ a = b * q + r
  /\ \A n \in Nat \ {0}, a, b \in Nat : b < n => (a * n + b) % n = b
OBVIOUS

\* What the proofs use of the constants: a second is a whole number of ticks of a
\* whole number of microseconds each.
LEMMA TodSizes ==
  /\ ALT_US \in Nat \ {0} /\ LowWord \in Nat \ {0} /\ MaxTicks \in Nat /\ MaxSec \in Nat
  /\ 0 \notin TickRates
  /\ \A r \in TickRates : r \in Nat \ {0} /\ PerTick(r) \in Nat /\ r * PerTick(r) = ALT_US
<1>1. ALT_US \in Nat \ {0} /\ LowWord \in Nat \ {0} /\ MaxTicks \in Nat /\ MaxSec \in Nat
  BY TodAssumption
<1>2. \A r \in TickRates : r \in Nat \ {0} /\ ALT_US % r = 0
  BY TodAssumption
<1>3. ASSUME NEW r \in TickRates PROVE PerTick(r) \in Nat /\ r * PerTick(r) = ALT_US
  <2>1. PICK q \in Nat, m \in 0..(r - 1) : ALT_US \div r = q /\ ALT_US % r = m /\ ALT_US = r * q + m
    BY <1>1, <1>2, Divides
  <2>2. m = 0
    BY <1>2, <2>1
  <2>3. ALT_US = r * q
    BY <1>2, <2>1, <2>2
  <2>4. PerTick(r) = q
    BY <2>1 DEF PerTick
  <2> QED
    BY <2>3, <2>4
<1> QED
  BY <1>1, <1>2, <1>3

\* So many ticks are whole seconds and a part of one.
LEMMA TicksInTime ==
  ASSUME NEW r \in TickRates, NEW n \in Nat
  PROVE  /\ UsecAt(r, n) \in 0..(ALT_US - 1) /\ SecAt(r, n) \in 0..n
         /\ SecAt(r, n) * ALT_US + UsecAt(r, n) = n * PerTick(r)
<1>1. PICK p \in Nat : p = PerTick(r) /\ r * p = ALT_US
  BY TodSizes
<1>2. r \in Nat \ {0} /\ ALT_US \in Nat \ {0}
  BY TodSizes
<1>3. PICK q \in Nat, m \in 0..(r - 1) : n \div r = q /\ n % r = m /\ n = r * q + m
  BY <1>2, Divides
<1>4. PICK x \in Nat : x = m * p
  BY <1>3
<1>5. x < ALT_US
  <2>1. p # 0
    BY <1>1, <1>2
  <2>2. \A a, b, c \in Nat : a < b /\ c # 0 => a * c < b * c
    OBVIOUS
  <2> QED
    BY <1>1, <1>2, <1>3, <1>4, <2>1, <2>2
<1>6. n * p = q * ALT_US + x
  <2>1. \A a, b, c, d \in Nat : (a * b + c) * d = b * (a * d) + c * d
    OBVIOUS
  <2>2. (r * q + m) * p = q * (r * p) + m * p
    BY <1>2, <1>3, <2>1
  <2> QED
    BY <1>1, <1>3, <1>4, <2>2
<1>7. UsecAt(r, n) = x
  <2>1. (q * ALT_US + x) % ALT_US = x
    BY <1>2, <1>5, Divides
  <2>2. UsecAt(r, n) = (n * p) % ALT_US
    BY <1>1, Zenon DEF UsecAt
  <2> QED
    BY <1>6, <2>1, <2>2, Zenon
<1>8. SecAt(r, n) = q
  BY <1>3 DEF SecAt
<1>9. q <= n
  <2>1. \A a \in Nat \ {0}, b, c \in Nat : b <= a * b + c
    OBVIOUS
  <2> QED
    BY <1>2, <1>3, <2>1
<1> QED
  BY <1>1, <1>4, <1>5, <1>6, <1>7, <1>8, <1>9, <1>2

\* A value of the counter and its words.
LEMMA HalfWords ==
  ASSUME NEW n \in Nat
  PROVE  /\ LowOf(n) \in 0..(LowWord - 1) /\ HighOf(n) \in Nat /\ HighOf(n) <= n
         /\ Read(HighOf(n), LowOf(n)) = n
<1>1. PICK q \in Nat, m \in 0..(LowWord - 1) :
        n \div LowWord = q /\ n % LowWord = m /\ n = LowWord * q + m
  BY TodSizes, Divides
<1>2. HighOf(n) = q /\ LowOf(n) = m
  BY <1>1 DEF HighOf, LowOf
<1>3. Read(q, m) = n
  BY <1>1, TodSizes DEF Read
<1>4. q <= n
  <2>1. \A a \in Nat \ {0}, b, c \in Nat : b <= a * b + c
    OBVIOUS
  <2> QED
    BY <1>1, <2>1, TodSizes
<1> QED
  BY <1>2, <1>3, <1>4

\* A later count has no smaller high word (alt_alarm.h:110-113).
LEMMA HighGrows ==
  ASSUME NEW m \in Nat, NEW n \in Nat, m <= n
  PROVE  HighOf(m) <= HighOf(n)
<1>1. PICK p \in Nat, x \in 0..(LowWord - 1) : HighOf(m) = p /\ m = LowWord * p + x
  BY TodSizes, Divides DEF HighOf
<1>2. PICK q \in Nat, y \in 0..(LowWord - 1) : HighOf(n) = q /\ n = LowWord * q + y
  BY TodSizes, Divides DEF HighOf
<1>3. LowWord \in Nat \ {0}
  BY TodSizes
<1>4. \A a, b, c \in Nat : a + 1 <= b => c * a + c <= c * b
  OBVIOUS
<1>5. q + 1 <= p => LowWord * q + LowWord <= LowWord * p
  BY <1>3, <1>4
<1>6. LowWord * q \in Nat /\ LowWord * p \in Nat
  BY <1>3
<1>7. ~(q + 1 <= p)
  BY <1>1, <1>2, <1>3, <1>5, <1>6
<1> QED
  BY <1>1, <1>2, <1>7

\* What two loads make of a counter that goes on between them.
LEMMA TwoLoads ==
  ASSUME NEW from \in Nat, NEW to \in Nat, NEW u \in from .. to, NEW t \in from .. u, to <= MaxTicks
  PROVE  /\ Read(HighOf(u), LowOf(t)) \in 0 .. MaxTicks + LowWord - 1
         /\ HighOf(from) = HighOf(to) =>
              /\ from <= Read(HighOf(u), LowOf(t))
              /\ Read(HighOf(u), LowOf(t)) <= to
<1>1. t \in Nat /\ u \in Nat /\ from <= t /\ t <= u /\ u <= to
  OBVIOUS
<1>2. /\ HighOf(from) <= HighOf(t) /\ HighOf(t) <= HighOf(u) /\ HighOf(u) <= HighOf(to)
      /\ HighOf(t) \in Nat /\ HighOf(u) \in Nat /\ HighOf(from) \in Nat /\ HighOf(to) \in Nat
  BY <1>1, HighGrows, HalfWords
<1>3. LowOf(t) \in 0..(LowWord - 1) /\ LowOf(u) \in 0..(LowWord - 1)
  BY <1>1, HalfWords
<1>4. Read(HighOf(u), LowOf(u)) = u /\ Read(HighOf(t), LowOf(t)) = t
  BY <1>1, HalfWords
<1>5. PICK h \in Nat : h = HighOf(u) * LowWord
  BY <1>2, TodSizes
<1>6. Read(HighOf(u), LowOf(t)) = h + LowOf(t) /\ u = h + LowOf(u)
  BY <1>4, <1>5 DEF Read
<1>7. Read(HighOf(u), LowOf(t)) \in 0 .. MaxTicks + LowWord - 1
  BY <1>1, <1>3, <1>5, <1>6, TodSizes
<1>8. HighOf(from) = HighOf(to) => Read(HighOf(u), LowOf(t)) = t
  <2>1. HighOf(from) = HighOf(to) => HighOf(u) = HighOf(t)
    BY <1>2
  <2> QED
    BY <1>4, <2>1
<1> QED
  BY <1>1, <1>7, <1>8

\* The module's operators at the clock's rate, as operators of the rate.
LEMMA RateOps ==
  /\ \A n : Usec(n) = UsecAt(alt_tick_rate, n) /\ Sec(n) = SecAt(alt_tick_rate, n)
  /\ \A n : Lasting(n) = n * PerTick(alt_tick_rate)
  /\ tod_nticks = Read(tod_call.high, tod_call.low)
  /\ \A c : Whole(c) <=> HighOf(c.from) = HighOf(c.to)
BY Zenon DEF Usec, Sec, Lasting, tod_nticks, Whole, UsecAt, SecAt, PerTick, Read, HighOf

\* The loops of gettimeofday: the time in its range, or no time if that were before 0.
LEMMA NormalTime ==
  ASSUME NEW t \in [sec : Int, usec : Int], t.usec \in (1 - ALT_US)..(2 * ALT_US - 2)
  PROVE  /\ Normal(t).usec \in 0..(ALT_US - 1)
         /\ InUsec(Normal(t)) = InUsec(t) \/ (InUsec(Normal(t)) = 0 /\ InUsec(t) < 0)
<1>1. ALT_US \in Nat \ {0} /\ t.sec \in Int /\ t.usec \in Int
  BY TodSizes
<1>2. PICK s \in Int, u \in Int : s = t.sec /\ u = t.usec
  BY <1>1
<1>3. /\ (s - 1) * ALT_US = s * ALT_US - ALT_US /\ (s + 1) * ALT_US = s * ALT_US + ALT_US
      /\ s * ALT_US \in Int /\ 0 * ALT_US = 0
  BY <1>1
<1>4. s <= 0 => s * ALT_US <= 0
  BY <1>1
<1>5. CASE u < 0 /\ s <= 0
  <2>1. Normal(t) = NoTime
    BY <1>1, <1>2, <1>5 DEF Normal
  <2>2. InUsec(NoTime) = 0 /\ NoTime.usec = 0
    BY <1>3 DEF InUsec, NoTime
  <2>3. InUsec(t) = s * ALT_US + u
    BY <1>2 DEF InUsec
  <2>4. InUsec(t) < 0
    BY <1>3, <1>4, <1>5, <2>3
  <2> QED
    BY <1>1, <2>1, <2>2, <2>4
<1>6. CASE u < 0 /\ s > 0
  <2>1. Normal(t) = [sec |-> s - 1, usec |-> u + ALT_US]
    BY <1>1, <1>2, <1>6 DEF Normal
  <2> QED
    BY <1>1, <1>2, <1>3, <1>6, <2>1 DEF InUsec
<1>7. CASE u >= ALT_US
  <2>1. Normal(t) = [sec |-> s + 1, usec |-> u - ALT_US]
    BY <1>1, <1>2, <1>7 DEF Normal
  <2> QED
    BY <1>1, <1>2, <1>3, <1>7, <2>1 DEF InUsec
<1>8. CASE u >= 0 /\ u < ALT_US
  <2>1. Normal(t) = t
    BY <1>1, <1>2, <1>8 DEF Normal
  <2> QED
    BY <1>1, <1>2, <1>8, <2>1
<1> QED
  BY <1>1, <1>2, <1>5, <1>6, <1>7, <1>8

-----------------------------------------------------------------------------
CallSet == [op : {"none", "get", "set", "times"}, at : {"low", "high", "done"},
            t : TimeVal, low : 0..(LowWord - 1), high : 0..MaxTicks, first : 0..MaxTicks]

\* The time starts at 0 with no clock (alt_tick.c:44-51, alt_gettod.c:53-54).
LEMMA TodStarts ==
  ASSUME TodInit
  PROVE  TodInv
<1>1. NoTime \in TimeVal /\ NoTime \in [sec : Int, usec : Int]
  BY TodSizes DEF NoTime, TimeVal
<1>2. NoTodCall \in CallSet /\ NoTodCall.op = "none" /\ NoTodCall.at = "done"
  BY <1>1, TodSizes DEF NoTodCall, CallSet
<1>3. CallOK(NoTodCall, 0)
  BY <1>2 DEF CallOK
<1>4. SetOK(NoTime, NoAnswer, 0, 0) /\ AnswerOK(NoAnswer, NoAnswer, 0)
  BY <1>1, TodSizes DEF SetOK, AnswerOK, NoAnswer, NoTime
<1>5. 0 \in 0..MaxTicks
  BY TodSizes
<1> QED
  BY <1>1, <1>2, <1>3, <1>4, <1>5 DEF TodInit, TodInv, CallSet

\* The clock is given its rate once, before anything is asked (alt_alarm.h:93-104).
LEMMA ClockGiven ==
  ASSUME TodInv, NEW r \in TickRates, tod_sysclk_init(r)
  PROVE  TodInv'
<1>1. /\ alt_tick_rate = 0 /\ alt_tick_rate' = r
      /\ UNCHANGED <<alt_ticks, alt_resettime, tod_call, tod_set, tod_answer>>
  BY DEF tod_sysclk_init
<1>2. /\ alt_resettime = NoTime /\ tod_set = NoAnswer /\ alt_ticks = 0 /\ tod_answer = NoAnswer
  BY <1>1 DEF TodInv, AnswerOK
<1>3. r \in Nat /\ r > 0 /\ MaxTicks \in Nat /\ LowWord \in Nat \ {0}
  BY TodSizes
<1>4. SecAt(r, 0) = 0 /\ UsecAt(r, 0) = 0
  <2>1. SecAt(r, 0) = 0 /\ SecAt(r, 0) * ALT_US + UsecAt(r, 0) = 0 * PerTick(r)
        /\ UsecAt(r, 0) \in 0..(ALT_US - 1)
    BY TicksInTime
  <2>2. 0 * PerTick(r) = 0 /\ 0 * ALT_US = 0
    BY TodSizes
  <2> QED
    BY <2>1, <2>2
<1>5. SetOK(NoTime, NoAnswer, r, 0)
  <2>1. NoTime.sec = 0 /\ NoTime.usec = 0 /\ NoAnswer.t = NoTime /\ NoAnswer.from = 0 /\ NoAnswer.to = 0
    BY DEF NoTime, NoAnswer
  <2>2. NoTime \in TimeVal
    BY TodSizes DEF NoTime, TimeVal
  <2>3. 0 \in 0 .. MaxTicks + LowWord - 1
    BY <1>3
  <2> QED
    BY <1>3, <1>4, <2>1, <2>2, <2>3 DEF SetOK
<1>6. AnswerOK(NoAnswer, NoAnswer, r)
  BY TodSizes DEF AnswerOK, NoAnswer, NoTime
<1> QED
  BY <1>1, <1>2, <1>3, <1>5, <1>6 DEF TodInv

\* A tick may come between the two loads of any call and keeps what was read of the
\* count (alt_tick.c:87-98).
LEMMA TickKeeps ==
  ASSUME TodInv, TodTick
  PROVE  TodInv'
<1>1. /\ alt_tick_rate > 0 /\ alt_ticks < MaxTicks /\ alt_ticks' = alt_ticks + 1
      /\ UNCHANGED <<alt_tick_rate, alt_resettime, tod_call, tod_set, tod_answer>>
  BY DEF TodTick
<1>2. alt_ticks' \in 0..MaxTicks /\ alt_ticks \in 0..MaxTicks /\ alt_ticks' >= alt_ticks
  BY <1>1, TodSizes DEF TodInv
<1>3. CallOK(tod_call, alt_ticks')
  <2>1. tod_call.first \in 0..MaxTicks
    BY DEF TodInv
  <2>2. \A t \in tod_call.first .. alt_ticks : t \in tod_call.first .. alt_ticks'
    BY <1>2, <2>1
  <2> QED
    BY <1>2, <2>1, <2>2 DEF TodInv, CallOK
<1>4. SetOK(alt_resettime, tod_set, alt_tick_rate, alt_ticks')
  BY <1>2 DEF TodInv, SetOK
<1> QED
  BY <1>1, <1>2, <1>3, <1>4 DEF TodInv

\* A call has read nothing when it begins.
LEMMA CallKeeps ==
  ASSUME TodInv, NEW op \in {"get", "set", "times"}, NEW t \in TimeVal, TodCall(op, t)
  PROVE  TodInv'
<1>1. /\ tod_call' = [NoTodCall EXCEPT !.op = op, !.at = "low", !.t = t, !.first = alt_ticks]
      /\ tod_answer' = NoAnswer
      /\ UNCHANGED <<alt_ticks, alt_tick_rate, alt_resettime, tod_set>>
  BY DEF TodCall
<1>2. alt_ticks \in 0..MaxTicks /\ 0 \in 0..(LowWord - 1) /\ 0 \in 0..MaxTicks
  BY TodSizes DEF TodInv
<1>3. tod_call' = [op |-> op, at |-> "low", t |-> t, low |-> 0, high |-> 0, first |-> alt_ticks]
  BY <1>1 DEF NoTodCall
<1>4. tod_call' \in CallSet
  BY <1>2, <1>3 DEF CallSet
<1>5. CallOK(tod_call', alt_ticks)
  BY <1>2, <1>3 DEF CallOK, NoTodCall
<1>6. AnswerOK(NoAnswer, tod_set, alt_tick_rate)
  BY TodSizes DEF AnswerOK, NoAnswer, NoTime
<1> QED
  BY <1>1, <1>4, <1>5, <1>6 DEF TodInv, CallSet

\* The low word that is read is of a time during the call (alt_alarm.h:110-113).
LEMMA TodLowKeeps ==
  ASSUME TodInv, alt_nticks_Low
  PROVE  TodInv'
<1>1. /\ tod_call.at = "low" /\ tod_call' = [tod_call EXCEPT !.at = "high", !.low = LowOf(alt_ticks)]
      /\ UNCHANGED <<alt_ticks, alt_tick_rate, alt_resettime, tod_set, tod_answer>>
  BY DEF alt_nticks_Low, LowOf
<1>2. tod_call \in CallSet /\ alt_ticks \in 0..MaxTicks /\ alt_ticks \in Nat
  BY TodSizes DEF TodInv, CallSet
<1>3. LowOf(alt_ticks) \in 0..(LowWord - 1)
  BY <1>2, HalfWords
<1>4. /\ tod_call' \in CallSet /\ tod_call'.op = tod_call.op /\ tod_call'.first = tod_call.first
      /\ tod_call'.at = "high" /\ tod_call'.low = LowOf(alt_ticks)
  BY <1>1, <1>2, <1>3 DEF CallSet
<1>5. tod_call.op # "none" /\ tod_call.first <= alt_ticks
  BY <1>1 DEF TodInv, CallOK, NoTodCall
<1>6. alt_ticks \in tod_call'.first .. alt_ticks
  BY <1>2, <1>4, <1>5 DEF CallSet
<1>7. CallOK(tod_call', alt_ticks)
  BY <1>4, <1>5, <1>6 DEF CallOK, NoTodCall
<1> QED
  BY <1>1, <1>4, <1>7 DEF TodInv, CallSet

\* The high word is of the same time or a later one (alt_alarm.h:110-113).
LEMMA TodHighKeeps ==
  ASSUME TodInv, alt_nticks_High
  PROVE  TodInv'
<1>1. /\ tod_call.at = "high" /\ tod_call' = [tod_call EXCEPT !.at = "done", !.high = HighOf(alt_ticks)]
      /\ UNCHANGED <<alt_ticks, alt_tick_rate, alt_resettime, tod_set, tod_answer>>
  BY DEF alt_nticks_High, HighOf
<1>2. tod_call \in CallSet /\ alt_ticks \in 0..MaxTicks /\ alt_ticks \in Nat /\ MaxTicks \in Nat
  BY TodSizes DEF TodInv, CallSet
<1>3. HighOf(alt_ticks) \in 0..MaxTicks
  BY <1>2, HalfWords
<1>4. /\ tod_call' \in CallSet /\ tod_call'.op = tod_call.op /\ tod_call'.first = tod_call.first
      /\ tod_call'.at = "done" /\ tod_call'.low = tod_call.low /\ tod_call'.high = HighOf(alt_ticks)
  BY <1>1, <1>2, <1>3 DEF CallSet
<1>5. /\ tod_call.op # "none" /\ tod_call.first <= alt_ticks
      /\ \E t \in tod_call.first .. alt_ticks : tod_call.low = LowOf(t)
  BY <1>1 DEF TodInv, CallOK, NoTodCall
<1>6. alt_ticks \in tod_call'.first .. alt_ticks
  BY <1>2, <1>4, <1>5 DEF CallSet
<1>7. CallOK(tod_call', alt_ticks)
  BY <1>4, <1>5, <1>6 DEF CallOK, NoTodCall
<1> QED
  BY <1>1, <1>4, <1>7 DEF TodInv, CallSet

\* What a call that is done has read.
LEMMA ReadByCall ==
  ASSUME TodInv, tod_call.at = "done", tod_call.op # "none"
  PROVE  /\ tod_call.first \in Nat /\ tod_call.first <= alt_ticks
         /\ tod_nticks \in 0 .. MaxTicks + LowWord - 1 /\ tod_nticks \in Nat
         /\ HighOf(tod_call.first) = HighOf(alt_ticks) =>
              tod_call.first <= tod_nticks /\ tod_nticks <= alt_ticks
<1>1. PICK u \in tod_call.first .. alt_ticks : \E t \in tod_call.first .. u :
        tod_call.low = LowOf(t) /\ tod_call.high = HighOf(u)
  BY DEF TodInv, CallOK
<1>2. PICK t \in tod_call.first .. u : tod_call.low = LowOf(t) /\ tod_call.high = HighOf(u)
  BY <1>1
<1>3. tod_call.first \in Nat /\ alt_ticks \in Nat /\ alt_ticks <= MaxTicks /\ tod_call.first <= alt_ticks
  BY TodSizes DEF TodInv, CallOK
<1>4. tod_nticks = Read(HighOf(u), LowOf(t))
  BY <1>2, RateOps
<1> QED
  BY <1>3, <1>4, TwoLoads

\* Without a clock a call fails and changes nothing (alt_times.c:51-71,
\* alt_gettod.c:71-84, alt_settod.c:72-96).
LEMMA TodReturnKeeps ==
  ASSUME TodInv, NoClock
  PROVE  TodInv'
<1>1. /\ tod_call' = NoTodCall
      /\ UNCHANGED <<alt_ticks, alt_tick_rate, alt_resettime, tod_set, tod_answer>>
  BY DEF NoClock, Returning
<1>2. NoTodCall \in CallSet /\ CallOK(NoTodCall, alt_ticks) /\ NoTodCall.op = "none"
  BY TodSizes DEF NoTodCall, CallSet, CallOK, TimeVal, NoTime
<1> QED
  BY <1>1, <1>2 DEF TodInv, CallSet

\* settimeofday stores the time it was given less the time the count stands for
\* (alt_settod.c:72-96).
LEMMA SetKeeps ==
  ASSUME TodInv, ALT_SETTIMEOFDAY
  PROVE  TodInv'
<1>1. /\ tod_call.op = "set" /\ tod_call.at = "done" /\ tod_call' = NoTodCall /\ alt_tick_rate > 0
      /\ alt_resettime' = [sec  |-> tod_call.t.sec - SecAt(alt_tick_rate, tod_nticks),
                           usec |-> tod_call.t.usec - UsecAt(alt_tick_rate, tod_nticks)]
      /\ tod_set' = [t |-> tod_call.t, from |-> tod_call.first, to |-> alt_ticks]
      /\ UNCHANGED <<alt_ticks, alt_tick_rate, tod_answer>>
  BY RateOps DEF ALT_SETTIMEOFDAY, Returning
<1>2. NoTodCall \in CallSet /\ CallOK(NoTodCall, alt_ticks) /\ NoTodCall.op = "none"
  BY TodSizes DEF NoTodCall, CallSet, CallOK, TimeVal, NoTime
<1>3. /\ tod_call.first \in Nat /\ tod_call.first <= alt_ticks
      /\ tod_nticks \in 0 .. MaxTicks + LowWord - 1 /\ tod_nticks \in Nat
      /\ HighOf(tod_call.first) = HighOf(alt_ticks) =>
           tod_call.first <= tod_nticks /\ tod_nticks <= alt_ticks
  BY <1>1, ReadByCall
<1>4. alt_tick_rate \in TickRates /\ alt_tick_rate # 0 /\ alt_ticks \in Nat /\ tod_call.t \in TimeVal
  BY <1>1, TodSizes DEF TodInv
<1>5. SecAt(alt_tick_rate, tod_nticks) \in Int /\ UsecAt(alt_tick_rate, tod_nticks) \in Int
  <2>1. /\ UsecAt(alt_tick_rate, tod_nticks) \in 0..(ALT_US - 1)
        /\ SecAt(alt_tick_rate, tod_nticks) \in 0..tod_nticks
    BY <1>3, <1>4, TicksInTime
  <2>2. \A a : (\A x \in 0..a : x \in Int)
    OBVIOUS
  <2> QED
    BY <2>1, <2>2, Zenon
<1>6. alt_resettime' \in [sec : Int, usec : Int]
  BY <1>1, <1>4, <1>5 DEF TimeVal
<1>7. SetOK(alt_resettime', tod_set', alt_tick_rate, alt_ticks)
  BY <1>1, <1>3, <1>4 DEF SetOK
<1>8. tod_answer = NoAnswer /\ AnswerOK(NoAnswer, tod_set', alt_tick_rate)
  BY <1>1, TodSizes DEF TodInv, AnswerOK, NoAnswer, NoTime
<1> QED
  BY <1>1, <1>2, <1>4, <1>6, <1>7, <1>8 DEF TodInv, CallSet

\* gettimeofday answers with the stored time and the time the count stands for, the
\* microseconds brought into their range (alt_gettod.c:71-124).
LEMMA GetKeeps ==
  ASSUME TodInv, ALT_GETTIMEOFDAY
  PROVE  TodInv'
<1> DEFINE t == [sec  |-> alt_resettime.sec + SecAt(alt_tick_rate, tod_nticks),
                 usec |-> alt_resettime.usec + UsecAt(alt_tick_rate, tod_nticks)]
<1>1. /\ tod_call.op = "get" /\ tod_call.at = "done" /\ tod_call' = NoTodCall /\ alt_tick_rate > 0
      /\ tod_answer' = [t |-> Normal(t), from |-> tod_call.first, to |-> alt_ticks, set |-> tod_set]
      /\ UNCHANGED <<alt_ticks, alt_tick_rate, alt_resettime, tod_set>>
  BY RateOps DEF ALT_GETTIMEOFDAY, Returning
<1>2. NoTodCall \in CallSet /\ CallOK(NoTodCall, alt_ticks) /\ NoTodCall.op = "none"
  BY TodSizes DEF NoTodCall, CallSet, CallOK, TimeVal, NoTime
<1>3. PICK g \in Nat :
        /\ g = tod_nticks
        /\ HighOf(tod_call.first) = HighOf(alt_ticks) => tod_call.first <= g /\ g <= alt_ticks
  BY <1>1, ReadByCall
<1>4. PICK rate \in TickRates : rate = alt_tick_rate /\ rate > 0
  BY <1>1, TodSizes DEF TodInv
<1>5. PICK n \in Nat :
        /\ alt_resettime.sec = tod_set.t.sec - SecAt(rate, n)
        /\ alt_resettime.usec = tod_set.t.usec - UsecAt(rate, n)
        /\ HighOf(tod_set.from) = HighOf(tod_set.to) => tod_set.from <= n /\ n <= tod_set.to
  <2>1. SetOK(alt_resettime, tod_set, rate, alt_ticks)
    BY <1>4 DEF TodInv
  <2>2. \A n \in 0 .. MaxTicks + LowWord - 1 : n \in Nat
    BY TodSizes
  <2> QED
    BY <1>4, <2>1, <2>2 DEF SetOK
<1>6. /\ tod_set.t \in TimeVal /\ tod_set.from \in Nat /\ tod_set.to \in Nat
      /\ tod_set.from <= tod_set.to /\ tod_set.to <= alt_ticks /\ alt_ticks \in Nat
      /\ tod_call.first \in Nat /\ tod_call.first <= alt_ticks
  BY <1>1, ReadByCall, TodSizes DEF TodInv, SetOK
<1>7. PICK sn \in Nat, un \in 0..(ALT_US - 1), sg \in Nat, ug \in 0..(ALT_US - 1), p \in Nat :
        /\ sn = SecAt(rate, n) /\ un = UsecAt(rate, n) /\ sg = SecAt(rate, g) /\ ug = UsecAt(rate, g)
        /\ p = PerTick(rate) /\ sn * ALT_US + un = n * p /\ sg * ALT_US + ug = g * p
  <2>1. \A m \in Nat : /\ UsecAt(rate, m) \in 0..(ALT_US - 1) /\ SecAt(rate, m) \in Nat
                       /\ SecAt(rate, m) * ALT_US + UsecAt(rate, m) = m * PerTick(rate)
    BY TicksInTime
  <2>2. PerTick(rate) \in Nat
    BY TodSizes
  <2> QED
    BY <2>1, <2>2
<1>8. PICK ss \in Nat, us \in 0..(ALT_US - 1) : tod_set.t = [sec |-> ss, usec |-> us]
  BY <1>6, TodSizes DEF TimeVal
<1>9. t = [sec |-> ss - sn + sg, usec |-> us - un + ug]
  BY <1>3, <1>4, <1>5, <1>7, <1>8
<1>10. ALT_US \in Nat \ {0}
  BY TodSizes
<1>11. PICK d \in [sec : Int, usec : Int] : d = t /\ d.usec \in (1 - ALT_US)..(2 * ALT_US - 2)
  BY <1>7, <1>8, <1>9, <1>10
<1>12. InUsec(d) = InUsec(tod_set.t) - n * p + g * p
  <2>1. InUsec(d) = (ss - sn + sg) * ALT_US + (us - un + ug)
    BY <1>9, <1>11 DEF InUsec
  <2>2. InUsec(tod_set.t) = ss * ALT_US + us
    BY <1>8 DEF InUsec
  <2>3. (ss - sn + sg) * ALT_US = ss * ALT_US - sn * ALT_US + sg * ALT_US
    BY <1>7, <1>8, <1>10
  <2>4. /\ ss * ALT_US \in Int /\ sn * ALT_US \in Int /\ sg * ALT_US \in Int
        /\ n * p \in Int /\ g * p \in Int
    BY <1>7, <1>8, <1>10
  <2> QED
    BY <1>7, <1>8, <2>1, <2>2, <2>3, <2>4
<1> HIDE DEF t
<1>13. /\ Normal(d).usec \in 0..(ALT_US - 1)
       /\ InUsec(Normal(d)) = InUsec(d) \/ (InUsec(Normal(d)) = 0 /\ InUsec(d) < 0)
  BY <1>11, NormalTime
<1>14. /\ tod_answer'.t = Normal(d) /\ tod_answer'.from = tod_call.first /\ tod_answer'.to = alt_ticks
  BY <1>1, <1>11
<1>15. ASSUME HighOf(tod_call.first) = HighOf(alt_ticks), HighOf(tod_set.from) = HighOf(tod_set.to)
       PROVE  /\ InUsec(Normal(d)) >= InUsec(tod_set.t) + (tod_call.first - tod_set.to) * p
              /\ InUsec(Normal(d)) <= InUsec(tod_set.t) + (alt_ticks - tod_set.from) * p
  <2>1. PICK i \in Int : i = InUsec(tod_set.t) /\ i >= 0
    BY <1>8, <1>10 DEF InUsec
  <2>2. /\ tod_call.first <= g /\ g <= alt_ticks /\ tod_set.from <= n /\ n <= tod_set.to
    BY <1>3, <1>5, <1>15
  <2>3. \A x, y \in Int : x <= y => x * p <= y * p
    BY <1>7
  <2>4. (tod_call.first - tod_set.to) * p <= (g - n) * p /\ (g - n) * p <= (alt_ticks - tod_set.from) * p
    BY <1>6, <2>2, <2>3
  <2>5. 0 * p <= (alt_ticks - tod_set.from) * p /\ 0 * p = 0
    BY <1>6, <1>7, <2>3
  <2>6. (g - n) * p = g * p - n * p /\ g * p \in Int /\ n * p \in Int
    BY <1>7
  <2>7. PICK a \in Int, b \in Int : a = (tod_call.first - tod_set.to) * p
                                  /\ b = (alt_ticks - tod_set.from) * p
    BY <1>6, <1>7
  <2>8. InUsec(d) = i + (g - n) * p
    BY <1>12, <2>1, <2>6
  <2> QED
    BY <1>13, <2>1, <2>4, <2>5, <2>6, <2>7, <2>8
<1>16. AnswerOK(tod_answer', tod_set, rate)
  BY <1>4, <1>7, <1>13, <1>14, <1>15 DEF AnswerOK
<1> QED
  BY <1>1, <1>2, <1>4, <1>16 DEF TodInv, CallSet

\* The invariant implies the properties that the runs check.
LEMMA TodMeans ==
  ASSUME TodInv
  PROVE  TodTypeOK /\ Truthful
<1>1. Truthful
  <2> SUFFICES ASSUME tod_answer # NoAnswer, Whole(tod_answer), Whole(tod_set)
               PROVE  /\ InUsec(tod_answer.t) >= InUsec(tod_set.t) + Lasting(tod_answer.from - tod_set.to)
                      /\ InUsec(tod_answer.t) <= InUsec(tod_set.t) + Lasting(tod_answer.to - tod_set.from)
    BY DEF Truthful
  <2> QED
    BY RateOps DEF TodInv, AnswerOK
<1>2. alt_resettime.sec \in (-MaxTicks - LowWord)..MaxSec /\ alt_resettime.usec \in (1 - ALT_US)..(ALT_US - 1)
  <2>1. CASE alt_tick_rate = 0
    BY <2>1, TodSizes DEF TodInv, NoTime
  <2>2. CASE alt_tick_rate # 0
    <3>1. PICK rate \in TickRates : rate = alt_tick_rate /\ rate > 0
      BY <2>2, TodSizes DEF TodInv
    <3>2. PICK n \in 0 .. MaxTicks + LowWord - 1 :
            /\ alt_resettime.sec = tod_set.t.sec - SecAt(rate, n)
            /\ alt_resettime.usec = tod_set.t.usec - UsecAt(rate, n)
      BY <3>1 DEF TodInv, SetOK
    <3>3. n \in Nat /\ tod_set.t.sec \in 0..MaxSec /\ tod_set.t.usec \in 0..(ALT_US - 1)
      BY TodSizes DEF TodInv, SetOK, TimeVal
    <3>4. UsecAt(rate, n) \in 0..(ALT_US - 1) /\ SecAt(rate, n) \in 0..n
      BY <3>3, TicksInTime
    <3> QED
      BY <3>2, <3>3, <3>4, TodSizes
  <2> QED
    BY <2>1, <2>2
<1> QED
  BY <1>1, <1>2 DEF TodInv, TodTypeOK, AnswerOK

\* Every step of the clock and of a call keeps the invariant.
LEMMA TodKept ==
  ASSUME TodInv, [TodNext]_todVars
  PROVE  TodInv'
<1>1. CASE UNCHANGED todVars
  BY <1>1 DEF todVars, TodInv
<1>2. NoTime \in TimeVal
  BY TodSizes DEF NoTime, TimeVal
<1>3. CASE TodNext
  BY <1>2, <1>3, TickKeeps, TodLowKeeps, TodHighKeeps, SetKeeps, GetKeeps, TodReturnKeeps, ClockGiven, CallKeeps
  DEF TodNext
<1> QED
  BY <1>1, <1>3

\* For every rate that divides a second, however ticks come between the loads of a
\* count: a time of day has its microseconds in range and, unless the high word
\* changed during a call, lies between what had passed since it was set when the call
\* began and when it ended (alt_gettod.c:71-124, alt_settod.c:72-96).
THEOREM TimeOfDayIsTrue == TodSpec => [](TodTypeOK /\ Truthful)
<1>1. TodInit => TodInv
  BY TodStarts
<1>2. TodInv /\ [TodNext]_todVars => TodInv'
  BY TodKept
<1>3. TodInv => TodTypeOK /\ Truthful
  BY TodMeans
<1> QED
  BY <1>1, <1>2, <1>3, PTL DEF TodSpec

-----------------------------------------------------------------------------
(* The alarms (alt_tick.c, alt_alarm_start.c, alt_llist.h).                *)

Ring(l, n, s) ==
  /\ s \in [0..(n + 1) -> Entry]
  /\ s[0] = head /\ s[n + 1] = head
  /\ \A i \in 1..n : s[i] \in Alarm
  /\ \A i, j \in 1..n : s[i] = s[j] => i = j
  /\ \A i \in 0..n : l.next[s[i]] = s[i + 1] /\ l.previous[s[i + 1]] = s[i]

Alone(l, n, s) ==
  \A e \in Alarm : (\A i \in 1..n : s[i] # e) => l.next[e] = e /\ l.previous[e] = e

ListOf(l, n, s) == Ring(l, n, s) /\ Alone(l, n, s)

Links == [next : [Entry -> Entry], previous : [Entry -> Entry]]

\* The tick is at the k-th entry: the alarms before it have been called or were not due.
Progress(w, t, d, n, s, k) ==
  /\ w = s[k]
  /\ \A i \in 1..n : t[s[i]] \in 0..(MaxPeriod + 1)
  /\ \A i \in 1..n : i < k => t[s[i]] >= 1
  /\ \A a \in d : \E i \in 1..n : i >= k /\ s[i] = a /\ t[a] <= 0
  /\ \A i \in 1..n : i >= k /\ t[s[i]] <= 0 => s[i] \in d

\* The k-th alarm is being called.
Called(t, d, n, s, k) ==
  /\ \A i \in 1..n : i # k => t[s[i]] \in 0..(MaxPeriod + 1)
  /\ \A i \in 1..n : i < k => t[s[i]] >= 1
  /\ \A a \in d : \E i \in 1..n : i > k /\ s[i] = a /\ t[a] <= 0
  /\ \A i \in 1..n : i > k /\ t[s[i]] <= 0 => s[i] \in d

Ringed(l, n, s) == n \in Nat /\ s \in [0..(n + 1) -> Entry] /\ ListOf(l, n, s)

Somewhere(l, w, t, d) ==
  \E n \in Nat : \E s \in [0..(n + 1) -> Entry] : \E k \in 1..(n + 1) :
    ListOf(l, n, s) /\ Progress(w, t, d, n, s, k)
AlarmRing == Somewhere(link, walk, time, late)
AlarmInv == AlarmTypeOK /\ AlarmRing

Pushed(s, n, b) == [i \in 0..(n + 2) |-> IF i = 0 THEN head ELSE IF i = 1 THEN b ELSE s[i - 1]]
Dropped(s, n, j) == [i \in 0..n |-> IF i < j THEN s[i] ELSE s[i + 1]]

USE AlarmAssumption

\* An alarm is linked in the list exactly if it is an entry of the ring
\* (alt_alarm.h:60-73).
LEMMA ListedIsOn ==
  ASSUME NEW l, NEW n \in Nat, NEW s, ListOf(l, n, s), NEW a \in Alarm
  PROVE  Listed(l, a) <=> \E i \in 1..n : s[i] = a
<1>1. ASSUME NEW i \in 1..n, s[i] = a PROVE l.next[a] # a
  <2>1. l.next[a] = s[i + 1] /\ i + 1 \in 1..(n + 1)
    BY <1>1 DEF ListOf, Ring
  <2>2. CASE i + 1 \in 1..n
    <3>1. s[i + 1] # s[i]
      BY <2>2 DEF ListOf, Ring
    <3> QED
      BY <2>1, <3>1, <1>1
  <2>3. CASE i + 1 = n + 1
    BY <2>1, <2>3 DEF ListOf, Ring
  <2> QED
    BY <2>1, <2>2, <2>3
<1>2. ASSUME \A i \in 1..n : s[i] # a PROVE l.next[a] = a
  BY <1>2 DEF ListOf, Alone
<1> QED
  BY <1>1, <1>2 DEF Listed

\* alt_llist_insert makes a ring with the new entry first of a ring without it
\* (alt_llist.h:90-98).
LEMMA InsertKeeps ==
  ASSUME NEW l \in Links, NEW n \in Nat, NEW s, ListOf(l, n, s),
         NEW b \in Alarm, ~Listed(l, b)
  PROVE  /\ ListOf(alt_llist_insert(l, b), n + 1, Pushed(s, n, b))
         /\ alt_llist_insert(l, b) \in Links
<1> DEFINE t == Pushed(s, n, b)
           m == alt_llist_insert(l, b)
<1>0. /\ s \in [0..(n + 1) -> Entry]
      /\ s[0] = head /\ s[n + 1] = head
      /\ \A i \in 1..n : s[i] \in Alarm
      /\ \A i, j \in 1..n : s[i] = s[j] => i = j
      /\ \A i \in 0..n : l.next[s[i]] = s[i + 1] /\ l.previous[s[i + 1]] = s[i]
  BY DEF ListOf, Ring
<1>1. \A i \in 1..n : s[i] # b
  BY ListedIsOn
<1>2. l.next[head] = s[1]
  <2>1. 0 \in 0..n
    OBVIOUS
  <2> QED
    BY <1>0, <2>1
<1>3. /\ m.previous = [l.previous EXCEPT ![b] = head, ![s[1]] = b]
      /\ m.next = [l.next EXCEPT ![b] = s[1], ![head] = b]
  BY <1>2 DEF alt_llist_insert
<1>4. s[1] \in Entry /\ b \in Entry /\ head \in Entry /\ b # head
  BY <1>0 DEF Entry
<1>5. m \in Links
  BY <1>2, <1>4 DEF alt_llist_insert, Links
<1>6. t \in [0..(n + 2) -> Entry] /\ t[0] = head /\ t[1] = b
      /\ \A i \in 2..(n + 2) : t[i] = s[i - 1] /\ i - 1 \in 1..(n + 1)
  BY <1>0, <1>4 DEF Pushed
<1>7. t[n + 2] = head /\ \A i \in 1..(n + 1) : t[i] \in Alarm
  <2>1. n + 2 \in 2..(n + 2) /\ n + 2 - 1 = n + 1
    OBVIOUS
  <2>2. \A i \in 1..(n + 1) : i = 1 \/ (i \in 2..(n + 2) /\ i - 1 \in 1..n)
    OBVIOUS
  <2> QED
    BY <1>0, <1>6, <2>1, <2>2
<1>8. ASSUME NEW i \in 1..(n + 1), NEW j \in 1..(n + 1), t[i] = t[j] PROVE i = j
  <2>1. \A x \in 1..(n + 1) : x = 1 \/ (x \in 2..(n + 2) /\ x - 1 \in 1..n)
    OBVIOUS
  <2>2. CASE i = 1 /\ j # 1
    BY <1>1, <1>6, <1>8, <2>1, <2>2
  <2>3. CASE i # 1 /\ j = 1
    BY <1>1, <1>6, <1>8, <2>1, <2>3
  <2>4. CASE i # 1 /\ j # 1
    <3>1. i - 1 = j - 1
      BY <1>0, <1>6, <1>8, <2>1, <2>4
    <3> QED
      BY <3>1
  <2> QED
    BY <2>2, <2>3, <2>4
<1>9. ASSUME NEW i \in 0..(n + 1) PROVE m.next[t[i]] = t[i + 1] /\ m.previous[t[i + 1]] = t[i]
  <2>0. l.next \in [Entry -> Entry] /\ l.previous \in [Entry -> Entry]
    BY DEF Links
  <2>1. CASE i = 0
    <3>1. b # s[1]
      <4>1. 1 \in 1..n \/ s[1] = head
        BY <1>0
      <4> QED
        BY <1>1, <1>4, <4>1
    <3> QED
      BY <1>3, <1>4, <1>6, <2>0, <2>1, <3>1
  <2>2. CASE i = 1
    <3>1. t[2] = s[1]
      BY <1>6
    <3>2. b # s[1]
      <4>1. 1 \in 1..n \/ s[1] = head
        BY <1>0
      <4> QED
        BY <1>1, <1>4, <4>1
    <3> QED
      BY <1>3, <1>4, <1>6, <2>0, <2>2, <3>1, <3>2
  <2>3. CASE i \in 2..(n + 1)
    <3>1. t[i] = s[i - 1] /\ i - 1 \in 1..n /\ t[i + 1] = s[i] /\ i \in 1..(n + 1)
      BY <1>6, <2>3
    <3>2. s[i - 1] \in Alarm /\ s[i - 1] # b /\ s[i] # b /\ s[i] # s[1] /\ s[i] \in Entry
      <4>1. s[i - 1] \in Alarm /\ s[i - 1] # b
        BY <1>0, <1>1, <3>1
      <4>2. CASE i \in 1..n
        <5>1. i # 1 /\ 1 \in 1..n
          BY <2>3, <4>2
        <5> QED
          BY <1>0, <1>1, <4>1, <4>2, <5>1
      <4>3. CASE i = n + 1
        <5>1. 1 \in 1..n
          BY <2>3, <4>3
        <5> QED
          BY <1>0, <1>4, <4>1, <4>3, <5>1
      <4> QED
        BY <3>1, <4>2, <4>3
    <3>3. l.next[s[i - 1]] = s[i] /\ l.previous[s[i]] = s[i - 1]
      <4>1. i - 1 \in 0..n /\ i - 1 + 1 = i
        BY <2>3
      <4> QED
        BY <1>0, <4>1
    <3>4. s[i - 1] # head /\ s[i - 1] \in Entry
      BY <3>2 DEF Entry
    <3> QED
      BY <1>3, <1>4, <2>0, <3>1, <3>2, <3>3, <3>4
  <2> QED
    BY <2>1, <2>2, <2>3
<1>10. ASSUME NEW e \in Alarm, \A i \in 1..(n + 1) : t[i] # e
       PROVE  m.next[e] = e /\ m.previous[e] = e
  <2>1. e # b
    BY <1>6, <1>10
  <2>2. ASSUME NEW i \in 1..n PROVE s[i] # e
    <3>1. i + 1 \in 2..(n + 2) /\ i + 1 - 1 = i /\ i + 1 \in 1..(n + 1)
      OBVIOUS
    <3>2. t[i + 1] = s[i] /\ t[i + 1] # e
      BY <1>6, <1>10, <3>1
    <3> QED
      BY <3>2
  <2>3. l.next[e] = e /\ l.previous[e] = e
    BY <2>2 DEF ListOf, Alone
  <2>4. e # s[1] /\ e # head /\ e \in Entry
    <3>1. 1 \in 1..n \/ s[1] = head
      BY <1>0
    <3> QED
      BY <2>2, <3>1 DEF Entry
  <2>5. l.next \in [Entry -> Entry] /\ l.previous \in [Entry -> Entry]
    BY DEF Links
  <2> QED
    BY <1>3, <1>4, <2>1, <2>3, <2>4, <2>5
<1>11. n + 1 + 1 = n + 2
  OBVIOUS
<1>12. Ring(m, n + 1, t)
  BY <1>6, <1>7, <1>8, <1>9, <1>11 DEF Ring
<1>13. Alone(m, n + 1, t)
  BY <1>10 DEF Alone
<1> QED
  BY <1>5, <1>12, <1>13 DEF ListOf

\* alt_llist_remove makes a ring without the entry of a ring with it
\* (alt_llist.h:105-117).
LEMMA RemoveKeeps ==
  ASSUME NEW l \in Links, NEW n \in Nat, NEW s, ListOf(l, n, s), NEW j \in 1..n
  PROVE  /\ ListOf(alt_llist_remove(l, s[j]), n - 1, Dropped(s, n, j))
         /\ alt_llist_remove(l, s[j]) \in Links
<1> DEFINE e == s[j]
           t == Dropped(s, n, j)
           m == alt_llist_remove(l, e)
<1>0. /\ s \in [0..(n + 1) -> Entry]
      /\ s[0] = head /\ s[n + 1] = head
      /\ \A i \in 1..n : s[i] \in Alarm
      /\ \A i, q \in 1..n : s[i] = s[q] => i = q
      /\ \A i \in 0..n : l.next[s[i]] = s[i + 1] /\ l.previous[s[i + 1]] = s[i]
  BY DEF ListOf, Ring
<1>1. l.previous[e] = s[j - 1] /\ l.next[e] = s[j + 1]
  <2>1. j - 1 \in 0..n /\ j - 1 + 1 = j /\ j \in 0..n
    OBVIOUS
  <2> QED
    BY <1>0, <2>1
<1>2. e \in Alarm /\ e \in Entry /\ e # head /\ s[j - 1] \in Entry /\ s[j + 1] \in Entry
  <2>1. j - 1 \in 0..(n + 1) /\ j + 1 \in 0..(n + 1)
    OBVIOUS
  <2> QED
    BY <1>0, <2>1 DEF Entry
<1>3. \A i \in 0..(n + 1) : i # j => s[i] # e
  <2>1. \A i \in 0..(n + 1) : i = 0 \/ i = n + 1 \/ i \in 1..n
    OBVIOUS
  <2> QED
    BY <1>0, <1>2, <2>1
<1>4. s[j - 1] # e /\ s[j + 1] # e
  <2>1. j - 1 \in 0..(n + 1) /\ j + 1 \in 0..(n + 1) /\ j - 1 # j /\ j + 1 # j
    OBVIOUS
  <2> QED
    BY <1>3, <2>1
<1>5. /\ m.previous = [l.previous EXCEPT ![s[j + 1]] = s[j - 1], ![e] = e]
      /\ m.next = [l.next EXCEPT ![s[j - 1]] = s[j + 1], ![e] = e]
  BY <1>1 DEF alt_llist_remove
<1>6. m \in Links
  BY <1>1, <1>2 DEF alt_llist_remove, Links
<1>7. l.next \in [Entry -> Entry] /\ l.previous \in [Entry -> Entry]
  BY DEF Links
<1>8. t \in [0..n -> Entry] /\ (\A i \in 0..n : i < j => t[i] = s[i])
      /\ (\A i \in 0..n : i >= j => t[i] = s[i + 1])
  <2>1. \A i \in 0..n : i \in 0..(n + 1) /\ i + 1 \in 0..(n + 1)
    OBVIOUS
  <2>2. \A i \in 0..n : s[i] \in Entry /\ s[i + 1] \in Entry
    BY <1>0, <2>1
  <2> QED
    BY <2>2 DEF Dropped
<1>9. t[0] = head /\ t[n] = head
  <2>1. 0 \in 0..n /\ 0 < j /\ n \in 0..n /\ n >= j
    OBVIOUS
  <2> QED
    BY <1>0, <1>8, <2>1
<1>10. \A i \in 1..(n - 1) :
         \/ i < j /\ t[i] = s[i] /\ i \in 1..n
         \/ i >= j /\ t[i] = s[i + 1] /\ i + 1 \in 1..n
  <2>1. \A i \in 1..(n - 1) : i \in 0..n /\ i \in 1..n /\ i + 1 \in 1..n /\ (i < j \/ i >= j)
    OBVIOUS
  <2> QED
    BY <1>8, <2>1
<1>11. \A i \in 1..(n - 1) : t[i] \in Alarm
  BY <1>0, <1>10
<1>12. ASSUME NEW i \in 1..(n - 1), NEW q \in 1..(n - 1), t[i] = t[q] PROVE i = q
  <2>1. CASE i < j /\ q < j
    <3>1. s[i] = s[q] /\ i \in 1..n /\ q \in 1..n
      BY <1>10, <1>12, <2>1
    <3> QED
      BY <1>0, <3>1
  <2>2. CASE i < j /\ q >= j
    <3>1. i = q + 1
      BY <1>0, <1>10, <1>12, <2>2
    <3> QED
      BY <2>2, <3>1
  <2>3. CASE i >= j /\ q < j
    <3>1. i + 1 = q
      BY <1>0, <1>10, <1>12, <2>3
    <3> QED
      BY <2>3, <3>1
  <2>4. CASE i >= j /\ q >= j
    <3>1. i + 1 = q + 1
      BY <1>0, <1>10, <1>12, <2>4
    <3> QED
      BY <3>1
  <2> QED
    BY <2>1, <2>2, <2>3, <2>4
<1>13. ASSUME NEW i \in 0..(n - 1) PROVE m.next[t[i]] = t[i + 1] /\ m.previous[t[i + 1]] = t[i]
  <2>1. i \in 0..n /\ i + 1 \in 0..n /\ i + 1 + 1 \in 0..(n + 1) /\ i \in 0..(n + 1)
        /\ i + 1 \in 0..(n + 1)
    OBVIOUS
  <2>a. l.next[s[i]] = s[i + 1] /\ l.previous[s[i + 1]] = s[i]
        /\ l.next[s[i + 1]] = s[i + 1 + 1] /\ l.previous[s[i + 1 + 1]] = s[i + 1]
    BY <1>0, <2>1
  <2>b. \A x, y \in 0..n : s[x] = s[y] => x = y
    <3>1. \A x \in 0..n : x = 0 \/ x \in 1..n
      OBVIOUS
    <3>2. \A x \in 1..n : s[x] # head
      BY <1>0
    <3> QED
      BY <1>0, <3>1, <3>2
  <2>c. \A x, y \in 1..(n + 1) : s[x] = s[y] => x = y
    <3>1. \A x \in 1..(n + 1) : x = n + 1 \/ x \in 1..n
      OBVIOUS
    <3>2. \A x \in 1..n : s[x] # head
      BY <1>0
    <3> QED
      BY <1>0, <3>1, <3>2
  <2>d. s[i] \in Entry /\ s[i + 1] \in Entry /\ s[i + 1 + 1] \in Entry
    BY <1>0, <2>1
  <2>2. CASE i + 1 < j
    <3>1. t[i] = s[i] /\ t[i + 1] = s[i + 1]
      BY <1>8, <2>1, <2>2
    <3>2. s[i] # e /\ s[i + 1] # e
      BY <1>3, <2>1, <2>2
    <3>3. s[i] # s[j - 1]
      <4>1. j - 1 \in 0..n /\ i # j - 1
        BY <2>2
      <4> QED
        BY <2>b, <2>1, <4>1
    <3>4. s[i + 1] # s[j + 1]
      <4>1. j + 1 \in 1..(n + 1) /\ i + 1 # j + 1 /\ i + 1 \in 1..(n + 1)
        BY <2>2
      <4> QED
        BY <2>c, <4>1
    <3> QED
      BY <1>2, <1>5, <1>7, <2>a, <2>d, <3>1, <3>2, <3>3, <3>4
  <2>3. CASE i + 1 = j
    <3>1. t[i] = s[j - 1] /\ t[i + 1] = s[j + 1]
      <4>1. i < j /\ i + 1 >= j /\ i = j - 1 /\ i + 1 + 1 = j + 1
        BY <2>3
      <4> QED
        BY <1>8, <2>1, <4>1
    <3> QED
      BY <1>2, <1>4, <1>5, <1>7, <3>1
  <2>4. CASE i >= j
    <3>1. t[i] = s[i + 1] /\ t[i + 1] = s[i + 1 + 1]
      <4>1. i + 1 >= j
        BY <2>4
      <4> QED
        BY <1>8, <2>1, <2>4, <4>1
    <3>2. s[i + 1] # e /\ s[i + 1 + 1] # e
      <4>1. i + 1 # j /\ i + 1 + 1 # j
        BY <2>4
      <4> QED
        BY <1>3, <2>1, <4>1
    <3>3. s[i + 1] # s[j - 1]
      <4>1. j - 1 \in 0..n /\ i + 1 # j - 1
        BY <2>4
      <4> QED
        BY <2>b, <2>1, <4>1
    <3>4. s[i + 1 + 1] # s[j + 1]
      <4>1. j + 1 \in 1..(n + 1) /\ i + 1 + 1 # j + 1 /\ i + 1 + 1 \in 1..(n + 1)
        BY <2>4
      <4> QED
        BY <2>c, <4>1
    <3> QED
      BY <1>2, <1>5, <1>7, <2>a, <2>d, <3>1, <3>2, <3>3, <3>4
  <2> QED
    BY <2>2, <2>3, <2>4
<1>14. ASSUME NEW a \in Alarm, \A i \in 1..(n - 1) : t[i] # a
       PROVE  m.next[a] = a /\ m.previous[a] = a
  <2>1. CASE a = e
    BY <1>2, <1>4, <1>5, <1>7, <2>1
  <2>2. CASE a # e
    <3>1. ASSUME NEW i \in 1..n PROVE s[i] # a
      <4>1. CASE i < j
        <5>1. i \in 0..n /\ i \in 1..(n - 1)
          BY <4>1
        <5> QED
          BY <1>8, <1>14, <4>1, <5>1
      <4>2. CASE i = j
        BY <2>2, <4>2
      <4>3. CASE i > j
        <5>1. i - 1 \in 0..n /\ i - 1 \in 1..(n - 1) /\ i - 1 >= j /\ i - 1 + 1 = i
          BY <4>3
        <5> QED
          BY <1>8, <1>14, <5>1
      <4> QED
        BY <4>1, <4>2, <4>3
    <3>2. l.next[a] = a /\ l.previous[a] = a
      BY <3>1 DEF ListOf, Alone
    <3>3. a # head /\ a \in Entry
      BY DEF Entry
    <3>4. a # s[j - 1] /\ a # s[j + 1]
      <4>1. (j - 1 = 0 \/ j - 1 \in 1..n) /\ (j + 1 = n + 1 \/ j + 1 \in 1..n)
        OBVIOUS
      <4> QED
        BY <1>0, <3>1, <3>3, <4>1
    <3> QED
      BY <1>2, <1>5, <1>7, <2>2, <3>2, <3>3, <3>4
  <2> QED
    BY <2>1, <2>2
<1>15. n - 1 + 1 = n /\ n - 1 \in Nat
  OBVIOUS
<1>16. Ring(m, n - 1, t)
  BY <1>8, <1>9, <1>11, <1>12, <1>13, <1>15 DEF Ring
<1>17. Alone(m, n - 1, t)
  BY <1>14 DEF Alone
<1> QED
  BY <1>6, <1>16, <1>17 DEF ListOf

\* Removing an entry that is linked to itself changes nothing (alt_llist.h:105-117).
LEMMA RemoveAlone ==
  ASSUME NEW l \in Links, NEW n \in Nat, NEW s, ListOf(l, n, s), NEW a \in Alarm, ~Listed(l, a)
  PROVE  alt_llist_remove(l, a) = l
<1>1. \A i \in 1..n : s[i] # a
  BY ListedIsOn
<1>2. l.next[a] = a /\ l.previous[a] = a
  BY <1>1 DEF ListOf, Alone
<1>3. l.next \in [Entry -> Entry] /\ l.previous \in [Entry -> Entry]
      /\ l = [next |-> l.next, previous |-> l.previous] /\ a \in Entry
  BY DEF Links, Entry
<1>4. [l.next EXCEPT ![a] = a, ![a] = a] = l.next /\ [l.previous EXCEPT ![a] = a, ![a] = a] = l.previous
  BY <1>2, <1>3
<1> QED
  BY <1>2, <1>3, <1>4 DEF alt_llist_remove

\* What is listed after an insertion was listed before or was inserted.
LEMMA InsertedListed ==
  ASSUME NEW l \in Links, NEW b \in Alarm, NEW a \in Alarm, Listed(alt_llist_insert(l, b), a), a # b
  PROVE  Listed(l, a)
BY DEF Listed, alt_llist_insert, Links, Entry

\* What is listed stays so when another is inserted.
LEMMA StaysListed ==
  ASSUME NEW l \in Links, NEW b \in Alarm, NEW a \in Alarm, Listed(l, a), ~Listed(l, b)
  PROVE  Listed(alt_llist_insert(l, b), a)
BY DEF Listed, alt_llist_insert, Links, Entry

\* What is listed after a removal was listed before and was not removed.
LEMMA RemovedListed ==
  ASSUME NEW l \in Links, NEW n \in Nat, NEW s, ListOf(l, n, s), NEW j \in 1..n, NEW a \in Alarm
  PROVE  Listed(alt_llist_remove(l, s[j]), a) <=> Listed(l, a) /\ a # s[j]
<1> DEFINE t == Dropped(s, n, j)
           m == alt_llist_remove(l, s[j])
<1>1. ListOf(m, n - 1, t) /\ n - 1 \in Nat
  BY RemoveKeeps
<1>2. Listed(m, a) <=> \E i \in 1..(n - 1) : t[i] = a
  <2>1. ASSUME NEW x, NEW p \in Nat, NEW v, ListOf(x, p, v)
        PROVE  Listed(x, a) <=> \E i \in 1..p : v[i] = a
    BY <2>1, ListedIsOn
  <2> HIDE DEF m, t
  <2> QED
    BY <1>1, <2>1
<1>3. Listed(l, a) <=> \E i \in 1..n : s[i] = a
  BY ListedIsOn
<1>4. \A i, q \in 1..n : s[i] = s[q] => i = q
  BY DEF ListOf, Ring
<1>5. \A i \in 0..n : t[i] = IF i < j THEN s[i] ELSE s[i + 1]
  BY DEF Dropped
<1>6. ASSUME NEW i \in 1..(n - 1), t[i] = a PROVE (\E q \in 1..n : s[q] = a) /\ a # s[j]
  <2>1. i \in 0..n /\ i \in 1..n /\ i + 1 \in 1..n
    OBVIOUS
  <2>2. CASE i < j
    <3>1. s[i] = a
      BY <1>5, <1>6, <2>1, <2>2
    <3> QED
      BY <1>4, <2>1, <2>2, <3>1
  <2>3. CASE i >= j
    <3>1. s[i + 1] = a
      BY <1>5, <1>6, <2>1, <2>3
    <3>2. i + 1 # j
      BY <2>3
    <3> QED
      BY <1>4, <2>1, <3>1, <3>2
  <2> QED
    BY <2>2, <2>3
<1>7. ASSUME NEW q \in 1..n, s[q] = a, a # s[j] PROVE \E i \in 1..(n - 1) : t[i] = a
  <2>1. CASE q < j
    <3>1. q \in 0..n /\ q \in 1..(n - 1)
      BY <2>1
    <3>2. t[q] = a
      BY <1>5, <1>7, <2>1, <3>1
    <3> QED
      BY <3>1, <3>2
  <2>2. CASE q > j
    <3>1. q - 1 \in 0..n /\ q - 1 \in 1..(n - 1) /\ ~(q - 1 < j) /\ q - 1 + 1 = q
      BY <2>2
    <3>2. t[q - 1] = a
      BY <1>5, <1>7, <3>1
    <3> QED
      BY <3>1, <3>2
  <2>3. q # j
    BY <1>7
  <2> QED
    BY <2>1, <2>2, <2>3
<1> QED
  BY <1>2, <1>3, <1>6, <1>7

\* A walk at the head has passed the whole list: no alarm is due, and all that are
\* listed have time left (alt_tick.c:100-121).
LEMMA AtRest ==
  ASSUME NEW l, NEW n \in Nat, NEW s, ListOf(l, n, s), NEW k \in 1..(n + 1), NEW t, NEW d,
         d \subseteq Alarm
  PROVE  Progress(head, t, d, n, s, k) <=>
           /\ k = n + 1 /\ d = {}
           /\ \A a \in Alarm : Listed(l, a) => t[a] \in 1..(MaxPeriod + 1)
<1>0. s[n + 1] = head /\ \A i \in 1..n : s[i] \in Alarm
  BY DEF ListOf, Ring
<1>1. \A a \in Alarm : Listed(l, a) <=> \E i \in 1..n : s[i] = a
  BY ListedIsOn
<1>2. ASSUME Progress(head, t, d, n, s, k)
      PROVE  /\ k = n + 1 /\ d = {}
             /\ \A a \in Alarm : Listed(l, a) => t[a] \in 1..(MaxPeriod + 1)
  <2>1. k = n + 1
    <3>1. k \in 1..n \/ k = n + 1
      OBVIOUS
    <3>2. s[k] = head
      BY <1>2 DEF Progress
    <3> QED
      BY <1>0, <3>1, <3>2
  <2>2. d = {}
    <3>1. \A i \in 1..n : ~(i >= k)
      BY <2>1
    <3> QED
      BY <1>2, <3>1 DEF Progress
  <2>3. ASSUME NEW i \in 1..n PROVE t[s[i]] \in 1..(MaxPeriod + 1)
    <3>1. i < k
      BY <2>1
    <3>2. t[s[i]] \in 0..(MaxPeriod + 1) /\ t[s[i]] >= 1
      BY <1>2, <3>1 DEF Progress
    <3> QED
      BY <3>2
  <2> QED
    BY <1>1, <2>1, <2>2, <2>3
<1>3. ASSUME k = n + 1, d = {},
             \A a \in Alarm : Listed(l, a) => t[a] \in 1..(MaxPeriod + 1)
      PROVE  Progress(head, t, d, n, s, k)
  <2>1. \A i \in 1..n : t[s[i]] \in 1..(MaxPeriod + 1)
    BY <1>0, <1>1, <1>3
  <2>2. \A i \in 1..n : t[s[i]] \in 0..(MaxPeriod + 1) /\ t[s[i]] >= 1
    BY <2>1
  <2> QED
    BY <1>0, <1>3, <2>2 DEF Progress
<1> QED
  BY <1>2, <1>3

\* After the callback of an alarm with a period the walk is at the next entry
\* (alt_tick.c:100-121).
LEMMA PassOn ==
  ASSUME NEW l, NEW n \in Nat, NEW s, ListOf(l, n, s), NEW k \in 1..n, NEW t, NEW d,
         Called(t, d, n, s, k), t[s[k]] \in 1..(MaxPeriod + 1)
  PROVE  Progress(s[k + 1], t, d, n, s, k + 1)
<1>1. \A i \in 1..n : t[s[i]] \in 0..(MaxPeriod + 1)
  BY DEF Called
<1>2. \A i \in 1..n : i < k + 1 => t[s[i]] >= 1
  <2>1. \A i \in 1..n : i < k + 1 => i < k \/ i = k
    OBVIOUS
  <2>2. t[s[k]] >= 1
    OBVIOUS
  <2> QED
    BY <2>1, <2>2 DEF Called
<1>3. \A i \in 1..n : i > k => i >= k + 1
  OBVIOUS
<1>4. \A a \in d : \E i \in 1..n : i >= k + 1 /\ s[i] = a /\ t[a] <= 0
  BY <1>3 DEF Called
<1>5. \A i \in 1..n : i >= k + 1 /\ t[s[i]] <= 0 => s[i] \in d
  <2>1. \A i \in 1..n : i >= k + 1 => i > k
    OBVIOUS
  <2> QED
    BY <2>1 DEF Called
<1> QED
  BY <1>1, <1>2, <1>4, <1>5 DEF Progress

\* After the callback of an alarm without one, which is removed, too
\* (alt_tick.c:100-121).
LEMMA PassOff ==
  ASSUME NEW l, NEW n \in Nat, NEW s, ListOf(l, n, s), NEW k \in 1..n, NEW t, NEW d,
         Called(t, d, n, s, k)
  PROVE  Progress(s[k + 1], t, d, n - 1, Dropped(s, n, k), k)
<1> DEFINE u == Dropped(s, n, k)
<1>1. \A i \in 0..n : u[i] = IF i < k THEN s[i] ELSE s[i + 1]
  BY DEF Dropped
<1>2. u[k] = s[k + 1]
  <2>1. k \in 0..n /\ ~(k < k)
    OBVIOUS
  <2> QED
    BY <1>1, <2>1
<1>3. ASSUME NEW i \in 1..(n - 1)
      PROVE  t[u[i]] \in 0..(MaxPeriod + 1) /\ (i < k => t[u[i]] >= 1)
  <2>1. i \in 0..n /\ i \in 1..n /\ i + 1 \in 1..n
    OBVIOUS
  <2>2. CASE i < k
    <3>1. u[i] = s[i] /\ i # k
      BY <1>1, <2>1, <2>2
    <3> QED
      BY <2>1, <2>2, <3>1 DEF Called
  <2>3. CASE ~(i < k)
    <3>1. u[i] = s[i + 1] /\ i + 1 # k
      BY <1>1, <2>1, <2>3
    <3> QED
      BY <2>1, <2>3, <3>1 DEF Called
  <2> QED
    BY <2>2, <2>3
<1>4. ASSUME NEW a \in d PROVE \E i \in 1..(n - 1) : i >= k /\ u[i] = a /\ t[a] <= 0
  <2>1. PICK q \in 1..n : q > k /\ s[q] = a /\ t[a] <= 0
    BY DEF Called
  <2>2. q - 1 \in 1..(n - 1) /\ q - 1 >= k /\ q - 1 \in 0..n /\ ~(q - 1 < k) /\ q - 1 + 1 = q
    BY <2>1
  <2>3. u[q - 1] = a
    BY <1>1, <2>1, <2>2
  <2> QED
    BY <2>1, <2>2, <2>3
<1>5. ASSUME NEW i \in 1..(n - 1), i >= k, t[u[i]] <= 0
      PROVE  u[i] \in d
  <2>1. i \in 0..n /\ ~(i < k) /\ i + 1 \in 1..n /\ i + 1 > k
    BY <1>5
  <2>2. u[i] = s[i + 1]
    BY <1>1, <2>1
  <2> QED
    BY <1>5, <2>1, <2>2 DEF Called
<1> QED
  BY <1>2, <1>3, <1>4, <1>5 DEF Progress

\* The invariant's ring, its entries and the walk's place in it.
LEMMA RingGives ==
  ASSUME NEW l, NEW w, NEW t, NEW d, Somewhere(l, w, t, d)
  PROVE  \E n \in Nat : \E s : \E k \in 1..(n + 1) : ListOf(l, n, s) /\ Progress(w, t, d, n, s, k)
BY DEF Somewhere

\* Such a ring satisfies the invariant.
LEMMA RingTaken ==
  ASSUME NEW l, NEW w, NEW t, NEW d, NEW n \in Nat, NEW s, NEW k \in 1..(n + 1),
         ListOf(l, n, s), Progress(w, t, d, n, s, k)
  PROVE  Somewhere(l, w, t, d)
BY DEF Somewhere, ListOf, Ring

\* At reset the list is the head alone (alt_alarm.h:60-93).
LEMMA StartsOnRing == AlarmInit => AlarmInv
<1> SUFFICES ASSUME AlarmInit PROVE AlarmInv
  OBVIOUS
<1>1. AlarmTypeOK
  <2>1. 0 \in -1..(MaxPeriod + 1)
    OBVIOUS
  <2> QED
    BY <2>1 DEF AlarmInit, AlarmTypeOK, Entry
<1> DEFINE s == [i \in 0..(0 + 1) |-> head]
<1>2. s \in [0..(0 + 1) -> Entry] /\ s[0] = head /\ s[0 + 1] = head
  BY DEF Entry
<1>3. \A i \in 0..0 : i = 0
  OBVIOUS
<1>4. link.next[head] = head /\ link.previous[head] = head
  BY DEF AlarmInit, Entry
<1>5. Ring(link, 0, s)
  <2>1. \A i \in 1..0 : FALSE
    OBVIOUS
  <2> HIDE DEF s
  <2> QED
    BY <1>2, <1>3, <1>4, <2>1 DEF Ring
<1>6. Alone(link, 0, s)
  BY DEF Alone, AlarmInit, Entry
<1>7. Progress(walk, time, late, 0, s, 1)
  BY <1>2 DEF Progress, AlarmInit
<1>8. ListOf(link, 0, s)
  BY <1>5, <1>6 DEF ListOf
<1>9. AlarmRing
  <2>1. 1 \in 1..(0 + 1) /\ 0 \in Nat
    OBVIOUS
  <2> HIDE DEF s
  <2> QED
    BY <1>7, <1>8, <2>1, RingTaken DEF AlarmRing
<1> QED
  BY <1>1, <1>9 DEF AlarmInv

\* alt_alarm_start puts an alarm that is not listed in the ring, with a tick more
\* than was asked (alt_alarm_start.c:64-98).
LEMMA AlarmStartKeeps ==
  ASSUME AlarmInv, NEW a \in Alarm, NEW m \in 0..MaxPeriod, alt_alarm_start(a, m)
  PROVE  AlarmInv'
<1>1. walk = head /\ ~Listed(link, a) /\ UNCHANGED <<tick_rate, walk, late>>
      /\ time' = [time EXCEPT ![a] = m + 1] /\ link' = alt_llist_insert(link, a)
  BY DEF alt_alarm_start
<1>2. PICK n \in Nat : \E s : \E k \in 1..(n + 1) :
        ListOf(link, n, s) /\ Progress(walk, time, late, n, s, k)
  BY RingGives DEF AlarmInv, AlarmRing
<1>3. PICK s : \E k \in 1..(n + 1) : ListOf(link, n, s) /\ Progress(walk, time, late, n, s, k)
  BY <1>2
<1>4. PICK k \in 1..(n + 1) : ListOf(link, n, s) /\ Progress(walk, time, late, n, s, k)
  BY <1>3
<1>5. link \in Links /\ late \subseteq Alarm /\ time \in [Alarm -> -1..(MaxPeriod + 1)]
  BY DEF AlarmInv, AlarmTypeOK, Links
<1>6. ListOf(link', n + 1, Pushed(s, n, a)) /\ link' \in Links
  BY <1>1, <1>4, <1>5, InsertKeeps
<1>7. late = {} /\ \A b \in Alarm : Listed(link, b) => time[b] \in 1..(MaxPeriod + 1)
  BY <1>1, <1>4, <1>5, AtRest
<1>8. ASSUME NEW b \in Alarm, Listed(link', b) PROVE time'[b] \in 1..(MaxPeriod + 1)
  <2>1. CASE b = a
    BY <1>1, <1>5, <2>1
  <2>2. CASE b # a
    BY <1>1, <1>5, <1>7, <1>8, <2>2, InsertedListed
  <2> QED
    BY <2>1, <2>2
<1>9. n + 1 \in Nat /\ n + 1 + 1 \in 1..(n + 1 + 1)
  OBVIOUS
<1>10. Progress(walk', time', late', n + 1, Pushed(s, n, a), n + 1 + 1)
  <2>1. walk' = head /\ late' = {}
    BY <1>1, <1>7
  <2>2. Progress(head, time', {}, n + 1, Pushed(s, n, a), n + 1 + 1)
    BY <1>6, <1>8, <1>9, AtRest
  <2> QED
    BY <2>1, <2>2
<1>11. Somewhere(link', walk', time', late')
  BY <1>6, <1>9, <1>10, RingTaken
<1>12. AlarmTypeOK'
  <2>1. time' \in [Alarm -> -1..(MaxPeriod + 1)]
    BY <1>1, <1>5
  <2> QED
    BY <1>1, <1>6, <2>1 DEF AlarmInv, AlarmTypeOK, Links
<1> QED
  BY <1>11, <1>12 DEF AlarmInv, AlarmRing

\* alt_alarm_stop takes one out, and changes nothing if it was not in
\* (alt_tick.c:66-73).
LEMMA AlarmStopKeeps ==
  ASSUME AlarmInv, NEW a \in Alarm, alt_alarm_stop(a)
  PROVE  AlarmInv'
<1>1. walk = head /\ UNCHANGED <<time, tick_rate, walk, late>>
      /\ link' = alt_llist_remove(link, a)
  BY DEF alt_alarm_stop
<1>2. PICK n \in Nat : \E s : \E k \in 1..(n + 1) :
        ListOf(link, n, s) /\ Progress(walk, time, late, n, s, k)
  BY RingGives DEF AlarmInv, AlarmRing
<1>3. PICK s : \E k \in 1..(n + 1) : ListOf(link, n, s) /\ Progress(walk, time, late, n, s, k)
  BY <1>2
<1>4. PICK k \in 1..(n + 1) : ListOf(link, n, s) /\ Progress(walk, time, late, n, s, k)
  BY <1>3
<1>5. link \in Links /\ late \subseteq Alarm
  BY DEF AlarmInv, AlarmTypeOK, Links
<1>6. late = {} /\ \A b \in Alarm : Listed(link, b) => time[b] \in 1..(MaxPeriod + 1)
  BY <1>1, <1>4, <1>5, AtRest
<1>7. CASE ~Listed(link, a)
  <2>1. link' = link
    BY <1>1, <1>4, <1>5, <1>7, RemoveAlone
  <2> QED
    BY <1>1, <2>1 DEF AlarmInv, AlarmTypeOK, AlarmRing
<1>8. CASE Listed(link, a)
  <2>1. PICK j \in 1..n : s[j] = a
    BY <1>4, <1>8, ListedIsOn
  <2>2. ListOf(link', n - 1, Dropped(s, n, j)) /\ link' \in Links
    BY <1>1, <1>4, <1>5, <2>1, RemoveKeeps
  <2>3. \A b \in Alarm : Listed(link', b) => Listed(link, b)
    BY <1>1, <1>4, <1>5, <2>1, RemovedListed
  <2>4. n - 1 \in Nat /\ n \in 1..(n - 1 + 1) /\ n = n - 1 + 1
    OBVIOUS
  <2>5. Progress(walk', time', late', n - 1, Dropped(s, n, j), n)
    BY <1>1, <1>6, <2>2, <2>3, <2>4, AtRest
  <2>6. Somewhere(link', walk', time', late')
    BY <2>2, <2>4, <2>5, RingTaken
  <2>7. AlarmTypeOK'
    BY <1>1, <2>2 DEF AlarmInv, AlarmTypeOK, Links
  <2> QED
    BY <2>6, <2>7 DEF AlarmInv, AlarmRing
<1> QED
  BY <1>7, <1>8

\* A tick takes one of every listed alarm's time and starts at the first
\* (alt_tick.c:87-98).
LEMMA TickStarts ==
  ASSUME AlarmInv, TickBegin
  PROVE  AlarmInv'
<1>1. /\ walk = head /\ UNCHANGED <<link, tick_rate>>
      /\ time' = [a \in Alarm |-> IF Listed(link, a) THEN time[a] - 1 ELSE time[a]]
      /\ walk' = link.next[head]
      /\ late' = {a \in Alarm : Listed(link, a) /\ time'[a] <= 0}
  BY DEF TickBegin
<1>2. PICK n \in Nat : \E s : \E k \in 1..(n + 1) :
        ListOf(link, n, s) /\ Progress(walk, time, late, n, s, k)
  BY RingGives DEF AlarmInv, AlarmRing
<1>3. PICK s : \E k \in 1..(n + 1) : ListOf(link, n, s) /\ Progress(walk, time, late, n, s, k)
  BY <1>2
<1>4. PICK k \in 1..(n + 1) : ListOf(link, n, s) /\ Progress(walk, time, late, n, s, k)
  BY <1>3
<1>5. link \in Links /\ late \subseteq Alarm /\ time \in [Alarm -> -1..(MaxPeriod + 1)]
      /\ tick_rate \in BOOLEAN
  BY DEF AlarmInv, AlarmTypeOK, Links
<1>6. \A b \in Alarm : Listed(link, b) => time[b] \in 1..(MaxPeriod + 1)
  BY <1>1, <1>4, <1>5, AtRest
<1>7. \A b \in Alarm : Listed(link, b) <=> \E i \in 1..n : s[i] = b
  BY <1>4, ListedIsOn
<1>8. walk' = s[1] /\ \A i \in 1..n : s[i] \in Alarm
  <2>1. 0 \in 0..n
    OBVIOUS
  <2> QED
    BY <1>1, <1>4, <2>1 DEF ListOf, Ring
<1>9. \A i \in 1..n : time'[s[i]] \in 0..(MaxPeriod + 1)
  <2> TAKE i \in 1..n
  <2>1. Listed(link, s[i]) /\ s[i] \in Alarm
    BY <1>7, <1>8
  <2>2. time'[s[i]] = time[s[i]] - 1 /\ time[s[i]] \in 1..(MaxPeriod + 1)
    BY <1>1, <1>6, <2>1
  <2> QED
    BY <2>2
<1>10. \A a \in late' : \E i \in 1..n : i >= 1 /\ s[i] = a /\ time'[a] <= 0
  <2>1. \A i \in 1..n : i >= 1
    OBVIOUS
  <2> QED
    BY <1>1, <1>7, <2>1
<1>11. Progress(walk', time', late', n, s, 1)
  <2>1. \A i \in 1..n : ~(i < 1)
    OBVIOUS
  <2>2. \A i \in 1..n : time'[s[i]] <= 0 => s[i] \in late'
    BY <1>1, <1>7, <1>8
  <2> QED
    BY <1>8, <1>9, <1>10, <2>1, <2>2 DEF Progress
<1>12. Somewhere(link', walk', time', late')
  <2>1. 1 \in 1..(n + 1)
    OBVIOUS
  <2> QED
    BY <1>1, <1>4, <1>11, <2>1, RingTaken
<1>13. AlarmTypeOK'
  <2>1. time' \in [Alarm -> -1..(MaxPeriod + 1)]
    <3>1. ASSUME NEW a \in Alarm
          PROVE  (IF Listed(link, a) THEN time[a] - 1 ELSE time[a]) \in -1..(MaxPeriod + 1)
      <4>1. CASE Listed(link, a)
        BY <1>6, <4>1
      <4>2. CASE ~Listed(link, a)
        BY <1>5, <4>2
      <4> QED
        BY <4>1, <4>2
    <3> QED
      BY <1>1, <3>1
  <2>2. walk' \in Entry
    BY <1>1, <1>5 DEF Links, Entry
  <2>3. late' \subseteq Alarm
    BY <1>1
  <2>4. link' \in [next : [Entry -> Entry], previous : [Entry -> Entry]] /\ tick_rate' \in BOOLEAN
    BY <1>1, <1>5 DEF Links
  <2> QED
    BY <2>1, <2>2, <2>3, <2>4 DEF AlarmTypeOK
<1> QED
  BY <1>12, <1>13 DEF AlarmInv, AlarmRing

\* A walk that is not at the head is at an alarm of the ring, whose next entry is the
\* ring's.
LEMMA AtAlarm ==
  ASSUME NEW l, NEW n \in Nat, NEW s, NEW k \in 1..(n + 1), NEW w, NEW t, NEW d,
         ListOf(l, n, s), Progress(w, t, d, n, s, k), w # head
  PROVE  k \in 1..n /\ w = s[k] /\ w \in Alarm /\ l.next[w] = s[k + 1] /\ s[k + 1] \in Entry
<1>1. s \in [0..(n + 1) -> Entry] /\ s[n + 1] = head /\ (\A i \in 1..n : s[i] \in Alarm)
      /\ (\A i \in 0..n : l.next[s[i]] = s[i + 1])
  BY DEF ListOf, Ring
<1>2. w = s[k]
  BY DEF Progress
<1>3. k \in 1..n
  BY <1>1, <1>2
<1>4. k \in 0..n /\ k + 1 \in 0..(n + 1)
  BY <1>3
<1> QED
  BY <1>1, <1>2, <1>3, <1>4

\* An alarm with time left is passed (alt_tick.c:100-121).
LEMMA NotYet ==
  ASSUME NEW l, NEW n \in Nat, NEW s, NEW k \in 1..n, NEW t, NEW d,
         ListOf(l, n, s), Progress(s[k], t, d, n, s, k), ~(t[s[k]] <= 0)
  PROVE  Progress(s[k + 1], t, d, n, s, k + 1)
<1>1. \A i \in 1..n : t[s[i]] \in 0..(MaxPeriod + 1)
  BY DEF Progress
<1>2. \A i \in 1..n : i < k + 1 => t[s[i]] >= 1
  <2>1. \A i \in 1..n : i < k + 1 => i < k \/ i = k
    OBVIOUS
  <2>2. t[s[k]] >= 1
    BY <1>1
  <2> QED
    BY <2>1, <2>2 DEF Progress
<1>3. ASSUME NEW a \in d PROVE \E i \in 1..n : i >= k + 1 /\ s[i] = a /\ t[a] <= 0
  <2>1. PICK i \in 1..n : i >= k /\ s[i] = a /\ t[a] <= 0
    BY DEF Progress
  <2>2. i # k
    BY <2>1
  <2>3. i >= k + 1
    BY <2>1, <2>2
  <2> QED
    BY <2>1, <2>3
<1>4. \A i \in 1..n : i >= k + 1 /\ t[s[i]] <= 0 => s[i] \in d
  <2>1. \A i \in 1..n : i >= k + 1 => i >= k
    OBVIOUS
  <2> QED
    BY <2>1 DEF Progress
<1> QED
  BY <1>1, <1>2, <1>3, <1>4 DEF Progress

\* The callback of the k-th alarm sees the list as the walk left it ...
LEMMA CalledHere ==
  ASSUME NEW l, NEW n \in Nat, NEW s, NEW k \in 1..n, NEW t, NEW d, NEW v, NEW c,
         ListOf(l, n, s), Progress(s[k], t, d, n, s, k),
         \A i \in 1..n : i # k => v[s[i]] = t[s[i]],
         c \subseteq d \ {s[k]},
         \A i \in 1..n : i # k /\ s[i] \in d => s[i] \in c
  PROVE  Called(v, c, n, s, k)
<1>1. \A i \in 1..n : i < k => i # k
  OBVIOUS
<1>2. ASSUME NEW a \in c PROVE \E i \in 1..n : i > k /\ s[i] = a /\ v[a] <= 0
  <2>1. PICK i \in 1..n : i >= k /\ s[i] = a /\ t[a] <= 0
    BY DEF Progress
  <2>2. i # k
    BY <2>1
  <2>3. i > k /\ v[s[i]] = t[s[i]]
    BY <2>1, <2>2
  <2> QED
    BY <2>1, <2>3
<1>3. ASSUME NEW i \in 1..n, i > k, v[s[i]] <= 0
      PROVE  s[i] \in c
  <2>1. i >= k /\ i # k /\ t[s[i]] <= 0
    BY <1>3
  <2>2. s[i] \in d
    BY <2>1 DEF Progress
  <2> QED
    BY <2>1, <2>2
<1> QED
  BY <1>1, <1>2, <1>3 DEF Progress, Called

\* ... and an alarm it starts comes before those the walk has been at.
LEMMA CalledPushed ==
  ASSUME NEW n \in Nat, NEW s, NEW k \in 1..n, NEW v, NEW c, NEW b,
         Called(v, c, n, s, k), v[b] \in 1..(MaxPeriod + 1)
  PROVE  Called(v, c, n + 1, Pushed(s, n, b), k + 1)
<1> DEFINE u == Pushed(s, n, b)
<1>1. u[1] = b /\ \A i \in 2..(n + 1) : u[i] = s[i - 1] /\ i - 1 \in 1..n
  BY DEF Pushed
<1>2. \A i \in 1..(n + 1) : i = 1 \/ i \in 2..(n + 1)
  OBVIOUS
<1>3. ASSUME NEW i \in 1..(n + 1), i # k + 1
      PROVE  v[u[i]] \in 0..(MaxPeriod + 1) /\ (i < k + 1 => v[u[i]] >= 1)
  <2>1. CASE i = 1
    BY <1>1, <2>1
  <2>2. CASE i \in 2..(n + 1)
    <3>1. u[i] = s[i - 1] /\ i - 1 \in 1..n /\ i - 1 # k /\ (i < k + 1 => i - 1 < k)
      BY <1>1, <1>3, <2>2
    <3> QED
      BY <3>1 DEF Called
  <2> QED
    BY <1>2, <2>1, <2>2
<1>4. \A i \in 1..(n + 1) : i < k + 1 => i # k + 1
  OBVIOUS
<1>5. ASSUME NEW a \in c PROVE \E i \in 1..(n + 1) : i > k + 1 /\ u[i] = a /\ v[a] <= 0
  <2>1. PICK q \in 1..n : q > k /\ s[q] = a /\ v[a] <= 0
    BY DEF Called
  <2>2. q + 1 \in 2..(n + 1) /\ q + 1 - 1 = q /\ q + 1 > k + 1 /\ q + 1 \in 1..(n + 1)
    BY <2>1
  <2>3. u[q + 1] = a
    BY <1>1, <2>1, <2>2
  <2> QED
    BY <2>1, <2>2, <2>3
<1>6. ASSUME NEW i \in 1..(n + 1), i > k + 1, v[u[i]] <= 0
      PROVE  u[i] \in c
  <2>1. i \in 2..(n + 1) /\ i - 1 > k
    BY <1>6
  <2>2. u[i] = s[i - 1] /\ i - 1 \in 1..n
    BY <1>1, <2>1
  <2> QED
    BY <1>6, <2>1, <2>2 DEF Called
<1> QED
  BY <1>3, <1>4, <1>5, <1>6 DEF Called

\* The walk's step keeps the ring whatever the callback does: it may stop its own
\* alarm, start others, or ask for another period (alt_tick.c:100-121).
LEMMA AlarmKeeps ==
  ASSUME ~StopsOthers, AlarmInv, TickAlarm
  PROVE  AlarmInv'
<1>1. PICK n \in Nat : \E s : \E k \in 1..(n + 1) :
        ListOf(link, n, s) /\ Progress(walk, time, late, n, s, k)
  BY RingGives DEF AlarmInv, AlarmRing
<1>2. PICK s : \E k \in 1..(n + 1) : ListOf(link, n, s) /\ Progress(walk, time, late, n, s, k)
  BY <1>1
<1>3. PICK k \in 1..(n + 1) : ListOf(link, n, s) /\ Progress(walk, time, late, n, s, k)
  BY <1>2
<1>4. walk # head /\ walk' = link.next[walk] /\ tick_rate' = tick_rate
  BY DEF TickAlarm
<1>5. link \in Links /\ late \subseteq Alarm /\ time \in [Alarm -> -1..(MaxPeriod + 1)]
      /\ tick_rate \in BOOLEAN
  BY DEF AlarmInv, AlarmTypeOK, Links
<1>6. k \in 1..n /\ walk = s[k] /\ walk \in Alarm /\ walk' = s[k + 1] /\ walk' \in Entry
  <2>1. k \in 1..n /\ walk = s[k] /\ walk \in Alarm /\ link.next[walk] = s[k + 1] /\ s[k + 1] \in Entry
    BY <1>3, <1>4, AtAlarm
  <2> QED
    BY <1>4, <2>1
<1>7. Progress(s[k], time, late, n, s, k)
  BY <1>3, <1>6
<1>8. ASSUME Somewhere(link', walk', time', late'), link' \in Links, late' \subseteq late,
             time' \in [Alarm -> -1..(MaxPeriod + 1)]
      PROVE  AlarmInv'
  BY <1>4, <1>5, <1>6, <1>8 DEF AlarmInv, AlarmTypeOK, AlarmRing, Links
<1>9. CASE ~(time[walk] <= 0)
  <2>1. UNCHANGED <<link, time, late>>
    BY <1>9 DEF TickAlarm
  <2>2. Progress(walk', time', late', n, s, k + 1)
    BY <1>3, <1>6, <1>7, <1>9, <2>1, NotYet
  <2>3. k + 1 \in 1..(n + 1)
    BY <1>6
  <2>4. Somewhere(link', walk', time', late')
    BY <1>3, <2>1, <2>2, <2>3, RingTaken
  <2> QED
    BY <1>5, <1>8, <2>1, <2>4
<1>10. CASE time[walk] <= 0
  <2>1. PICK l \in CallbackList(link, walk), period \in 0..MaxPeriod, m \in 1..MaxPeriod :
          /\ link' = IF period = 0 THEN alt_llist_remove(l, walk) ELSE l
          /\ time' = [a \in Alarm |->
                        CASE a = walk -> time[a] + period
                          [] a # walk /\ Listed(l, a) /\ ~Listed(link, a) -> m + 1
                          [] OTHER -> time[a]]
          /\ late' = late \ ({walk} \cup {a \in Alarm : ~Listed(l, a)})
    BY <1>10 DEF TickAlarm
  <2>2. time[walk] = 0
    <3>1. time[s[k]] \in 0..(MaxPeriod + 1)
      BY <1>6, <1>7 DEF Progress
    <3> QED
      BY <1>6, <1>10, <3>1
  <2>3. time' \in [Alarm -> -1..(MaxPeriod + 1)] /\ time'[walk] = period
    <3> DEFINE v(a) == CASE a = walk -> time[a] + period
                         [] a # walk /\ Listed(l, a) /\ ~Listed(link, a) -> m + 1
                         [] OTHER -> time[a]
    <3>1. v(walk) = period
      BY <2>2
    <3>2. ASSUME NEW a \in Alarm PROVE v(a) \in -1..(MaxPeriod + 1)
      <4>1. CASE a = walk
        BY <2>2, <4>1
      <4>2. CASE a # walk /\ Listed(l, a) /\ ~Listed(link, a)
        BY <4>2
      <4>3. CASE a # walk /\ ~(Listed(l, a) /\ ~Listed(link, a))
        <5>1. v(a) = time[a]
          BY <4>3
        <5> QED
          BY <1>5, <5>1
      <4> QED
        BY <4>1, <4>2, <4>3
    <3>3. time' = [a \in Alarm |-> v(a)]
      BY <2>1
    <3> HIDE DEF v
    <3> QED
      BY <1>6, <3>1, <3>2, <3>3
  <2>4. \A a \in Alarm : a # walk /\ (Listed(link, a) \/ ~Listed(l, a)) => time'[a] = time[a]
    BY <2>1
  <2>5. \A a \in Alarm : a # walk /\ Listed(l, a) /\ ~Listed(link, a) => time'[a] = m + 1
    BY <2>1
  <2>6. Listed(link, walk) /\ \A i \in 1..n : Listed(link, s[i]) /\ s[i] \in Alarm
        /\ (i # k => s[i] # walk)
    <3>1. \A i \in 1..n : s[i] \in Alarm /\ (i # k => s[i] # s[k])
      BY <1>3, <1>6 DEF ListOf, Ring
    <3> QED
      BY <1>3, <1>6, <3>1, ListedIsOn
  <2>7. \A i \in 1..n : i # k => time'[s[i]] = time[s[i]]
    BY <2>4, <2>6
  <2>8. l \in {link, alt_llist_remove(link, walk)}
        \/ \E b \in Alarm : ~Listed(link, b) /\ l = alt_llist_insert(link, b)
    BY DEF CallbackList
  <2>9. late' \subseteq late
    BY <2>1
  <2>10. Called(time', late', n, s, k)
    <3>1. late' \subseteq late \ {s[k]}
      BY <1>6, <2>1
    <3>2. ASSUME NEW i \in 1..n, i # k
          PROVE  Listed(l, s[i])
      <4>1. Listed(link, s[i]) /\ s[i] \in Alarm /\ s[i] # walk
        BY <2>6, <3>2
      <4>2. Listed(alt_llist_remove(link, walk), s[i])
        BY <1>3, <1>5, <1>6, <4>1, RemovedListed
      <4>3. \A b \in Alarm : ~Listed(link, b) => Listed(alt_llist_insert(link, b), s[i])
        BY <1>5, <4>1, StaysListed
      <4> QED
        BY <2>8, <4>1, <4>2, <4>3
    <3>3. \A i \in 1..n : i # k /\ s[i] \in late => s[i] \in late'
      BY <2>1, <2>6, <3>2
    <3> QED
      BY <1>3, <1>6, <1>7, <2>7, <3>1, <3>3, CalledHere
  <2>11. CASE l = link /\ period # 0
    <3>1. link' = link /\ time'[s[k]] \in 1..(MaxPeriod + 1)
      BY <1>6, <2>1, <2>3, <2>11
    <3>2. Progress(walk', time', late', n, s, k + 1)
      BY <1>3, <1>6, <2>10, <3>1, PassOn
    <3>3. k + 1 \in 1..(n + 1)
      BY <1>6
    <3>4. Somewhere(link', walk', time', late')
      BY <1>3, <3>1, <3>2, <3>3, RingTaken
    <3> QED
      BY <1>5, <1>8, <2>3, <2>9, <3>1, <3>4
  <2>12. CASE l = alt_llist_remove(link, walk) \/ (l = link /\ period = 0)
    <3> DEFINE g == alt_llist_remove(link, walk)
    <3>1. ListOf(g, n - 1, Dropped(s, n, k)) /\ g \in Links /\ n - 1 \in Nat
      BY <1>3, <1>5, <1>6, RemoveKeeps
    <3>2. ~Listed(g, walk)
      BY <1>3, <1>5, <1>6, RemovedListed
    <3>3. alt_llist_remove(g, walk) = g
      <4> HIDE DEF g
      <4> QED
        BY <1>6, <3>1, <3>2, RemoveAlone
    <3>4. link' = g
      BY <2>1, <2>12, <3>3
    <3>5. Progress(walk', time', late', n - 1, Dropped(s, n, k), k)
      BY <1>3, <1>6, <2>10, PassOff
    <3>6. k \in 1..(n - 1 + 1)
      BY <1>6
    <3>7. Somewhere(link', walk', time', late')
      <4> HIDE DEF g
      <4> QED
        BY <3>1, <3>4, <3>5, <3>6, RingTaken
    <3> QED
      BY <1>8, <2>3, <2>9, <3>1, <3>4, <3>7
  <2>13. ASSUME NEW b \in Alarm, ~Listed(link, b), l = alt_llist_insert(link, b)
         PROVE  AlarmInv'
    <3> DEFINE u == Pushed(s, n, b)
    <3>1. ListOf(l, n + 1, u) /\ l \in Links /\ n + 1 \in Nat
      BY <1>3, <1>5, <2>13, InsertKeeps
    <3>2. u[1] = b /\ u[k + 1] = s[k] /\ u[k + 1 + 1] = s[k + 1]
          /\ k + 1 \in 1..(n + 1) /\ k + 1 + 1 \in 1..(n + 1 + 1)
      BY <1>6 DEF Pushed
    <3>3. Listed(l, b)
      <4>1. 1 \in 1..(n + 1)
        OBVIOUS
      <4> HIDE DEF u
      <4> QED
        BY <3>1, <3>2, <4>1, ListedIsOn
    <3>4. b # walk
      BY <2>6, <2>13
    <3>5. time'[b] \in 1..(MaxPeriod + 1)
      BY <2>5, <2>13, <3>3, <3>4
    <3>6. Called(time', late', n + 1, u, k + 1)
      BY <1>6, <2>10, <3>5, CalledPushed
    <3>7. CASE period # 0
      <4>1. link' = l /\ time'[u[k + 1]] \in 1..(MaxPeriod + 1)
        BY <1>6, <2>1, <2>3, <3>2, <3>7
      <4>2. Progress(walk', time', late', n + 1, u, k + 1 + 1)
        <5> HIDE DEF u
        <5> QED
          BY <1>6, <3>1, <3>2, <3>6, <4>1, PassOn
      <4>3. Somewhere(link', walk', time', late')
        <5> HIDE DEF u
        <5> QED
          BY <3>1, <3>2, <4>1, <4>2, RingTaken
      <4> QED
        BY <1>8, <2>3, <2>9, <3>1, <4>1, <4>3
    <3>8. CASE period = 0
      <4> HIDE DEF u
      <4>1. link' = alt_llist_remove(l, u[k + 1])
        BY <1>6, <2>1, <3>2, <3>8
      <4>2. ListOf(link', n + 1 - 1, Dropped(u, n + 1, k + 1)) /\ link' \in Links
        BY <3>1, <3>2, <4>1, RemoveKeeps
      <4>3. Progress(walk', time', late', n + 1 - 1, Dropped(u, n + 1, k + 1), k + 1)
        BY <1>6, <3>1, <3>2, <3>6, PassOff
      <4>4. n + 1 - 1 \in Nat /\ k + 1 \in 1..(n + 1 - 1 + 1)
        BY <1>6
      <4>5. Somewhere(link', walk', time', late')
        BY <4>2, <4>3, <4>4, RingTaken
      <4> QED
        BY <1>8, <2>3, <2>9, <4>2, <4>5
    <3> QED
      BY <3>7, <3>8
  <2> QED
    BY <2>8, <2>11, <2>12, <2>13
<1> QED
  BY <1>9, <1>10

\* Every step of the alarms keeps the invariant, as long as no callback stops the
\* alarm that the walk has kept as the next (alt_tick.c:100-121).
LEMMA StaysOnRing ==
  ASSUME ~StopsOthers, AlarmInv, [AlarmNext]_alarmVars
  PROVE  AlarmInv'
<1>1. CASE UNCHANGED alarmVars
  BY <1>1 DEF AlarmInv, AlarmTypeOK, AlarmRing, alarmVars
<1>2. CASE alt_sysclk_init
  BY <1>2 DEF AlarmInv, AlarmTypeOK, AlarmRing, alt_sysclk_init
<1> QED
  BY <1>1, <1>2, AlarmStartKeeps, AlarmStopKeeps, TickStarts, AlarmKeeps DEF AlarmNext

Walked(g, p, h) == h \in [0..p -> Entry] /\ h[0] = head /\ \A i \in 1..p : h[i] = g[h[i - 1]]

\* There is a function of the first steps from the head along any links.
LEMMA StepsExist ==
  ASSUME NEW g \in [Entry -> Entry]
  PROVE  \A p \in Nat : \E h : Walked(g, p, h)
<1> DEFINE S == {p \in Nat : \E h : Walked(g, p, h)}
<1>1. 0 \in S
  <2> DEFINE h == [i \in 0..0 |-> head]
  <2>1. Walked(g, 0, h)
    BY DEF Walked, Entry
  <2> QED
    BY <2>1
<1>2. ASSUME NEW p \in Nat, p \in S PROVE p + 1 \in S
  <2>1. PICK h : Walked(g, p, h)
    BY <1>2
  <2> DEFINE k == [i \in 0..(p + 1) |-> IF i = p + 1 THEN g[h[p]] ELSE h[i]]
  <2>2. p \in 0..p /\ \A i \in 0..(p + 1) : i = p + 1 \/ i \in 0..p
    OBVIOUS
  <2>3. k \in [0..(p + 1) -> Entry]
    BY <2>1, <2>2 DEF Walked
  <2>4. k[0] = head
    BY <2>1 DEF Walked
  <2>5. ASSUME NEW i \in 1..(p + 1) PROVE k[i] = g[k[i - 1]]
    <3>1. i - 1 \in 0..p /\ i \in 0..(p + 1) /\ i - 1 # p + 1 /\ i - 1 \in 0..(p + 1)
      OBVIOUS
    <3>2. k[i - 1] = h[i - 1]
      BY <3>1
    <3>3. CASE i = p + 1
      <4>1. i - 1 = p
        BY <3>3
      <4> QED
        BY <3>1, <3>2, <3>3, <4>1
    <3>4. CASE i # p + 1
      <4>1. i \in 1..p /\ k[i] = h[i]
        BY <3>4
      <4> QED
        BY <2>1, <3>2, <4>1 DEF Walked
    <3> QED
      BY <3>3, <3>4
  <2>6. Walked(g, p + 1, k)
    BY <2>3, <2>4, <2>5 DEF Walked
  <2> QED
    BY <2>6
<1>3. Nat \subseteq S
  <2> HIDE DEF S
  <2> QED
    BY <1>1, <1>2, NaturalSteps
<1> QED
  BY <1>3

\* Two such functions agree as far as both go.
LEMMA StepsAgree ==
  ASSUME NEW g, NEW p \in Nat, NEW q \in Nat, NEW h, NEW k, Walked(g, p, h), Walked(g, q, k)
  PROVE  \A i \in Nat : i <= p /\ i <= q => h[i] = k[i]
<1> DEFINE S == {i \in Nat : i <= p /\ i <= q => h[i] = k[i]}
<1>1. 0 \in S
  BY DEF Walked
<1>2. ASSUME NEW i \in Nat, i \in S PROVE i + 1 \in S
  <2> SUFFICES ASSUME i + 1 <= p, i + 1 <= q PROVE h[i + 1] = k[i + 1]
    OBVIOUS
  <2>1. i + 1 \in 1..p /\ i + 1 \in 1..q /\ i + 1 - 1 = i /\ h[i] = k[i]
    BY <1>2
  <2>2. h[i + 1] = g[h[i + 1 - 1]] /\ k[i + 1] = g[k[i + 1 - 1]]
    BY <2>1 DEF Walked
  <2> QED
    BY <2>1, <2>2
<1>3. Nat \subseteq S
  <2> HIDE DEF S
  <2> QED
    BY <1>1, <1>2, NaturalSteps
<1> QED
  BY <1>3

\* The recursive function of the steps from the head is what its definition says.
LEMMA FromHeadSteps ==
  ASSUME NEW g \in [Entry -> Entry]
  PROVE  \A i \in Nat : FromHead(g)[i] = IF i = 0 THEN head ELSE g[FromHead(g)[i - 1]]
<1> DEFINE c(p) == CHOOSE h : Walked(g, p, h)
           f == [i \in Nat |-> c(i)[i]]
<1>1. \A p \in Nat : Walked(g, p, c(p))
  BY StepsExist
<1>2. ASSUME NEW i \in Nat PROVE f[i] = IF i = 0 THEN head ELSE g[f[i - 1]]
  <2>1. CASE i = 0
    BY <1>1, <2>1 DEF Walked
  <2>2. CASE i # 0
    <3>1. i - 1 \in Nat /\ i \in 1..i /\ i - 1 <= i
      BY <2>2
    <3>2. Walked(g, i, c(i)) /\ Walked(g, i - 1, c(i - 1))
      BY <1>1, <3>1
    <3>3. f[i] = c(i)[i] /\ f[i - 1] = c(i - 1)[i - 1]
      BY <3>1
    <3> HIDE DEF c, f
    <3>4. c(i)[i - 1] = c(i - 1)[i - 1]
      BY <3>1, <3>2, StepsAgree
    <3>5. c(i)[i] = g[c(i)[i - 1]]
      BY <3>1, <3>2 DEF Walked
    <3> QED
      BY <2>2, <3>3, <3>4, <3>5
  <2> QED
    BY <2>1, <2>2
<1>3. f = [i \in Nat |-> IF i = 0 THEN head ELSE g[f[i - 1]]]
  <2> HIDE DEF c
  <2> QED
    BY <1>2
<1>4. FromHead(g) = [i \in Nat |-> IF i = 0 THEN head ELSE g[FromHead(g)[i - 1]]]
  <2> HIDE DEF f
  <2> QED
    BY <1>3 DEF FromHead
<1> QED
  BY <1>4

\* Its steps are the ring's entries in their order.
LEMMA CountsFromHead ==
  ASSUME NEW l \in Links, NEW n \in Nat, NEW s, ListOf(l, n, s)
  PROVE  \A i \in 0..n : FromHead(l.next)[i] = s[i]
<1> DEFINE f == FromHead(l.next)
           S == {i \in Nat : i <= n => f[i] = s[i]}
<1>1. \A i \in Nat : f[i] = IF i = 0 THEN head ELSE l.next[f[i - 1]]
  <2>1. l.next \in [Entry -> Entry]
    BY DEF Links
  <2> QED
    BY <2>1, FromHeadSteps
<1>2. 0 \in S
  BY <1>1 DEF ListOf, Ring
<1>3. ASSUME NEW i \in Nat, i \in S PROVE i + 1 \in S
  <2> SUFFICES ASSUME i + 1 <= n PROVE f[i + 1] = s[i + 1]
    OBVIOUS
  <2>1. i \in 0..n /\ i + 1 \in Nat /\ i + 1 # 0 /\ i + 1 - 1 = i /\ f[i] = s[i]
    BY <1>3
  <2>2. l.next[s[i]] = s[i + 1]
    BY <2>1 DEF ListOf, Ring
  <2> HIDE DEF f
  <2> QED
    BY <1>1, <2>1, <2>2
<1>4. Nat \subseteq S
  <2> HIDE DEF S
  <2> QED
    BY <1>2, <1>3, NaturalSteps
<1> QED
  BY <1>4

\* A ring has at most as many entries as there are alarms, since it has each once.
LEMMA RingIsShort ==
  ASSUME NEW l, NEW n \in Nat, NEW s, ListOf(l, n, s)
  PROVE  n <= Cardinality(Alarm) /\ Cardinality(Alarm) \in Nat
<1> DEFINE g == [i \in 1..n |-> s[i]]
<1>1. g \in Injection(1..n, Alarm)
  BY DEF ListOf, Ring, Injection, IsInjective
<1>2. Cardinality(1..n) <= Cardinality(Alarm)
  BY <1>1, FS_Injection
<1>3. Cardinality(1..n) = n
  BY FS_Interval
<1> QED
  BY <1>2, <1>3, FS_CardinalityType

\* The invariant implies the properties that the runs check: the list is whole, and a
\* tick calls exactly the alarms that are due.
LEMMA RingIsSafe == AlarmInv => AlarmSafe
<1> SUFFICES ASSUME AlarmInv PROVE AlarmSafe
  OBVIOUS
<1>1. PICK n \in Nat : \E s : \E k \in 1..(n + 1) :
        ListOf(link, n, s) /\ Progress(walk, time, late, n, s, k)
  BY RingGives DEF AlarmInv, AlarmRing
<1>2. PICK s : \E k \in 1..(n + 1) : ListOf(link, n, s) /\ Progress(walk, time, late, n, s, k)
  BY <1>1
<1>3. PICK k \in 1..(n + 1) : ListOf(link, n, s) /\ Progress(walk, time, late, n, s, k)
  BY <1>2
<1>4. link \in Links /\ late \subseteq Alarm
  BY DEF AlarmInv, AlarmTypeOK, Links
<1>5. ASSUME NEW e \in Entry
      PROVE  link.previous[link.next[e]] = e /\ link.next[link.previous[e]] = e
  <2>1. CASE \E i \in 1..n : s[i] = e
    <3>1. PICK i \in 1..n : s[i] = e
      BY <2>1
    <3>2. i \in 0..n /\ i - 1 \in 0..n /\ i - 1 + 1 = i
      OBVIOUS
    <3>3. link.next[s[i]] = s[i + 1] /\ link.previous[s[i + 1]] = s[i]
          /\ link.next[s[i - 1]] = s[i] /\ link.previous[s[i]] = s[i - 1]
      BY <1>3, <3>2 DEF ListOf, Ring
    <3> QED
      BY <3>1, <3>3
  <2>2. CASE e = head
    <3>1. 0 \in 0..n /\ n \in 0..n
      OBVIOUS
    <3>2. s[0] = head /\ s[n + 1] = head /\ link.next[s[0]] = s[1] /\ link.previous[s[1]] = s[0]
          /\ link.next[s[n]] = s[n + 1] /\ link.previous[s[n + 1]] = s[n]
      <4>1. \A i \in 0..n : link.next[s[i]] = s[i + 1] /\ link.previous[s[i + 1]] = s[i]
        BY <1>3 DEF ListOf, Ring
      <4>2. link.next[s[0]] = s[0 + 1] /\ link.previous[s[0 + 1]] = s[0] /\ 0 + 1 = 1
        BY <3>1, <4>1
      <4>3. link.next[s[n]] = s[n + 1] /\ link.previous[s[n + 1]] = s[n]
        BY <3>1, <4>1
      <4>4. s[0] = head /\ s[n + 1] = head
        BY <1>3 DEF ListOf, Ring
      <4> QED
        BY <4>2, <4>3, <4>4
    <3> QED
      BY <2>2, <3>2
  <2>3. CASE e \in Alarm /\ ~\E i \in 1..n : s[i] = e
    BY <1>3, <2>3 DEF ListOf, Alone
  <2> QED
    BY <2>1, <2>2, <2>3 DEF Entry
<1>6. ASSUME NEW a \in Alarm, Listed(link, a)
      PROVE  \E i \in 1..Cardinality(Alarm) : FromHead(link.next)[i] = a
  <2>1. PICK i \in 1..n : s[i] = a
    BY <1>3, <1>6, ListedIsOn
  <2>2. FromHead(link.next)[i] = s[i]
    <3>1. i \in 0..n
      OBVIOUS
    <3> QED
      BY <1>3, <1>4, <3>1, CountsFromHead
  <2>3. i \in 1..Cardinality(Alarm)
    <3>1. n <= Cardinality(Alarm) /\ Cardinality(Alarm) \in Nat
      BY <1>3, RingIsShort
    <3> QED
      BY <3>1
  <2> QED
    BY <2>1, <2>2, <2>3
<1>7. AlarmsOnTime
  <2> SUFFICES ASSUME walk = head
               PROVE  late = {} /\ \A a \in Alarm : Listed(link, a) => time[a] >= 1
    BY DEF AlarmsOnTime
  <2>1. late = {} /\ \A a \in Alarm : Listed(link, a) => time[a] \in 1..(MaxPeriod + 1)
    BY <1>3, <1>4, AtRest
  <2> QED
    BY <2>1
<1>8. CalledOnce
  <2> SUFFICES ASSUME walk # head, time[walk] <= 0
               PROVE  walk \in late
    BY DEF CalledOnce
  <2>1. walk = s[k] /\ s[n + 1] = head
    BY <1>3 DEF Progress, ListOf, Ring
  <2>2. k \in 1..n
    BY <2>1
  <2> QED
    BY <1>3, <2>1, <2>2 DEF Progress
<1> QED
  BY <1>5, <1>6, <1>7, <1>8 DEF AlarmSafe, ListIsRing

\* For every number of alarms and every period: the list stays a ring with its links
\* in both directions, what is called was due when the tick began and has not been
\* called in it, and none that is due is passed over (ListIsRing, CalledOnce and
\* AlarmsOnTime of AlarmSafe), as long as no callback stops another alarm
\* (alt_tick.c:66-128, alt_alarm_start.c:64-98, alt_llist.h:90-117). The run placa
\* checks the same; the README says what happens otherwise.
THEOREM AlarmsAreSafe ==
  ASSUME ~StopsOthers
  PROVE  AlarmSpec => [](AlarmTypeOK /\ AlarmSafe)
<1>1. AlarmInv /\ [AlarmNext]_alarmVars => AlarmInv'
  BY StaysOnRing
<1>2. AlarmInv => AlarmTypeOK /\ AlarmSafe
  BY RingIsSafe DEF AlarmInv
<1> QED
  BY StartsOnRing, <1>1, <1>2, PTL DEF AlarmSpec

HIDE AlarmAssumption

=============================================================================
