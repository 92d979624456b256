---------------------------- MODULE Interrupcoes ----------------------------
(***************************************************************************)
(* Interrupts and exceptions of the Nios II with the internal interrupt    *)
(* controller: the registration of handlers, the critical sections of the  *)
(* program, the entry code that tells an interrupt from an exception, the  *)
(* dispatcher, and handlers that let more urgent ones interrupt them.  The *)
(* processor takes a request before the next instruction it could execute. *)
(* Devices keep a request up until their handler has served it.  Handlers  *)
(* enable, disable and register lines too; a build may promise that none   *)
(* does so inside an interruptible one, where the calls would undo its     *)
(* mask (CallsNested).                                                     *)
(***************************************************************************)
EXTENDS Naturals, Sequences, FiniteSetsExt

CONSTANTS
  IrqLines,     \* interrupt numbers in use; the lower, the more urgent
  IsrVersions,  \* handlers the program may register, numbered from 1; 0 is NULL
  MaxNested,    \* bound: critical sections inside one another
  CallsNested   \* handlers call on the controller also while less urgent lines are held back

ASSUME IrqAssumption ==
  /\ IrqLines \subseteq 0..31 /\ IrqLines # {}
  /\ IsrVersions \in Nat \ {0} /\ MaxNested \in Nat /\ CallsNested \in BOOLEAN

VARIABLES
  cpu,      \* status.PIE, ienable, and the HAL's copy and mask of the latter
  lines,    \* requests of the devices
  alt_irq,  \* table of handlers and contexts
  alt_instruction_exception_handler,   \* none, or what the registered one answers
  frames,   \* exceptions being handled, the innermost last
  prog      \* the program: where it is, and the contexts its sections will restore

irqVars == <<cpu, lines, alt_irq, alt_instruction_exception_handler, frames, prog>>

NoIrq == 32
Wrap  == 3      \* addresses and the count of instructions are kept modulo this

Steps  == {"run", "handler", "context", "ienable", "restore"}
Places == {"entry", "notirq", "pending", "isr", "open", "stopped"}

IrqTypeOK ==
  /\ cpu \in [pie : BOOLEAN, ienable : SUBSET IrqLines, alt_irq_active : SUBSET IrqLines,
              alt_priority_mask : SUBSET IrqLines]
  /\ lines \subseteq IrqLines
  /\ alt_irq \in [IrqLines -> [handler : 0..IsrVersions, context : 0..IsrVersions]]
  /\ alt_instruction_exception_handler \in {"none", "reissue", "skip"}
  /\ \A k \in DOMAIN frames :
       frames[k] \in [pc : 0..(Wrap - 1), pie : BOOLEAN, at : Places,
                      irq : IrqLines \cup {NoIrq}, old : SUBSET IrqLines, served : BOOLEAN]
  /\ prog \in [pc : 0..(Wrap - 1), executed : 0..(Wrap - 1), step : Steps, irq : IrqLines,
               isr : 0..IsrVersions, contexts : Seq(BOOLEAN)]

\* After altera_nios2_gen2_irq_init, which lets the processor take interrupts.
IrqInit ==
  /\ cpu = [pie |-> TRUE, ienable |-> {}, alt_irq_active |-> {}, alt_priority_mask |-> IrqLines]
  /\ lines = {}
  /\ alt_irq = [i \in IrqLines |-> [handler |-> 0, context |-> 0]]
  /\ alt_instruction_exception_handler = "none"
  /\ frames = <<>>
  /\ prog = [pc |-> 0, executed |-> 0, step |-> "run", irq |-> Min(IrqLines), isr |-> 0,
             contexts |-> <<>>]

alt_irq_pending == lines \cap cpu.ienable

Request(i) ==
  /\ i \notin lines /\ lines' = lines \cup {i}
  /\ UNCHANGED <<cpu, alt_irq, alt_instruction_exception_handler, frames, prog>>

-----------------------------------------------------------------------------
(* The program; its steps are instructions, or short runs of them that the *)
(* interrupts cannot tell apart.                                            *)

Runs == frames = <<>> /\ ~(cpu.pie /\ alt_irq_pending # {})

Forward(p) == [p EXCEPT !.pc = (@ + 1) % Wrap, !.executed = (@ + 1) % Wrap]

alt_irq_disable_all ==
  /\ Runs /\ prog.step = "run" /\ Len(prog.contexts) < MaxNested
  /\ prog' = Forward([prog EXCEPT !.contexts = Append(@, cpu.pie)])
  /\ cpu' = [cpu EXCEPT !.pie = FALSE]
  /\ UNCHANGED <<lines, alt_irq, alt_instruction_exception_handler, frames>>

alt_irq_enable_all ==
  /\ Runs /\ prog.step = "run" /\ prog.contexts # <<>>
  /\ cpu' = [cpu EXCEPT !.pie = prog.contexts[Len(prog.contexts)]]
  /\ prog' = Forward([prog EXCEPT !.contexts = SubSeq(@, 1, Len(@) - 1)])
  /\ UNCHANGED <<lines, alt_irq, alt_instruction_exception_handler, frames>>

\* alt_ic_isr_register: interrupts off; handler; context; mask; interrupts as before.
RegisterBegin(i, isr) ==
  /\ Runs /\ prog.step = "run" /\ Len(prog.contexts) <= MaxNested
  /\ prog' = Forward([prog EXCEPT !.step = "handler", !.irq = i, !.isr = isr,
                                  !.contexts = Append(@, cpu.pie)])
  /\ cpu' = [cpu EXCEPT !.pie = FALSE]
  /\ UNCHANGED <<lines, alt_irq, alt_instruction_exception_handler, frames>>

RegisterHandler ==
  /\ Runs /\ prog.step = "handler"
  /\ alt_irq' = [alt_irq EXCEPT ![prog.irq].handler = prog.isr]
  /\ prog' = Forward([prog EXCEPT !.step = "context"])
  /\ UNCHANGED <<cpu, lines, alt_instruction_exception_handler, frames>>

RegisterContext ==
  /\ Runs /\ prog.step = "context"
  /\ alt_irq' = [alt_irq EXCEPT ![prog.irq].context = prog.isr]
  /\ prog' = Forward([prog EXCEPT !.step = "ienable"])
  /\ UNCHANGED <<cpu, lines, alt_instruction_exception_handler, frames>>

Unmask(i) == cpu.alt_irq_active \cup {i}
Mask(i)   == cpu.alt_irq_active \ {i}

\* alt_irq_enable, or alt_irq_disable for a NULL handler; their own sections are inside.
RegisterEnable ==
  /\ Runs /\ prog.step = "ienable"
  /\ LET new == IF prog.isr # 0 THEN Unmask(prog.irq) ELSE Mask(prog.irq)
     IN cpu' = [cpu EXCEPT !.alt_irq_active = new, !.ienable = new]
  /\ prog' = Forward([prog EXCEPT !.step = "restore"])
  /\ UNCHANGED <<lines, alt_irq, alt_instruction_exception_handler, frames>>

RegisterEnd ==
  /\ Runs /\ prog.step = "restore"
  /\ cpu' = [cpu EXCEPT !.pie = prog.contexts[Len(prog.contexts)]]
  /\ prog' = Forward([prog EXCEPT !.step = "run", !.contexts = SubSeq(@, 1, Len(@) - 1)])
  /\ UNCHANGED <<lines, alt_irq, alt_instruction_exception_handler, frames>>

\* alt_ic_irq_enable and alt_ic_irq_disable; the program enables what has a handler.
alt_ic_irq_enable(i) ==
  /\ Runs /\ prog.step = "run" /\ alt_irq[i].handler # 0
  /\ cpu' = [cpu EXCEPT !.alt_irq_active = Unmask(i), !.ienable = Unmask(i)]
  /\ prog' = Forward(prog)
  /\ UNCHANGED <<lines, alt_irq, alt_instruction_exception_handler, frames>>

alt_ic_irq_disable(i) ==
  /\ Runs /\ prog.step = "run"
  /\ cpu' = [cpu EXCEPT !.alt_irq_active = Mask(i), !.ienable = Mask(i)]
  /\ prog' = Forward(prog)
  /\ UNCHANGED <<lines, alt_irq, alt_instruction_exception_handler, frames>>

alt_instruction_exception_register(answer) ==
  /\ Runs /\ prog.step = "run"
  /\ alt_instruction_exception_handler' = answer
  /\ prog' = Forward(prog)
  /\ UNCHANGED <<cpu, lines, alt_irq, frames>>

-----------------------------------------------------------------------------
(* The exception entry code.                                                *)

Push(pc) ==
  frames' = Append(frames, [pc |-> pc, pie |-> cpu.pie, at |-> "entry", irq |-> NoIrq,
                            old |-> {}, served |-> FALSE])

\* ea - 4, the address of the instruction that did not execute, is saved to return to.
Interrupt ==
  /\ cpu.pie /\ alt_irq_pending # {}
  /\ frames # <<>> => frames[Len(frames)].at = "open"
  /\ Push(prog.pc)
  /\ cpu' = [cpu EXCEPT !.pie = FALSE]
  /\ UNCHANGED <<lines, alt_irq, alt_instruction_exception_handler, prog>>

\* The program meets an instruction the processor does not have.
Exception ==
  /\ Runs /\ prog.step = "run"
  /\ Push(prog.pc)
  /\ cpu' = [cpu EXCEPT !.pie = FALSE]
  /\ UNCHANGED <<lines, alt_irq, alt_instruction_exception_handler, prog>>

Top == frames[Len(frames)]
At(place) == frames # <<>> /\ Top.at = place
Becomes(f) == frames' = [frames EXCEPT ![Len(frames)] = f]

\* An interrupt is what came with estatus.PIE on and something pending.
EntryTest ==
  /\ At("entry")
  /\ Becomes([Top EXCEPT !.at = IF Top.pie /\ alt_irq_pending # {} THEN "pending" ELSE "notirq"])
  /\ UNCHANGED <<cpu, lines, alt_irq, alt_instruction_exception_handler, prog>>

\* eret: the saved status comes back, and the program goes on at the saved address.
Eret(f, p) ==
  /\ frames' = SubSeq(frames, 1, Len(frames) - 1)
  /\ cpu' = [cpu EXCEPT !.pie = f.pie]
  /\ prog' = IF Len(frames) = 1 THEN [p EXCEPT !.pc = f.pc] ELSE p

\* alt_instruction_exception_entry: the registered handler says whether the instruction
\* is skipped (the address in the frame is then the next one) or tried again.
NotIrq ==
  /\ At("notirq")
  /\ CASE alt_instruction_exception_handler = "none" ->
            /\ Becomes([Top EXCEPT !.at = "stopped"]) /\ UNCHANGED <<cpu, prog>>
       [] alt_instruction_exception_handler = "reissue" -> Eret(Top, prog)
       [] alt_instruction_exception_handler = "skip" ->
            Eret([Top EXCEPT !.pc = (@ + 1) % Wrap], [prog EXCEPT !.executed = (@ + 1) % Wrap])
  /\ UNCHANGED <<lines, alt_irq, alt_instruction_exception_handler>>

\* alt_irq_handler: the most urgent request is served, and those pending are read again
\* until there are none.
Pending ==
  /\ At("pending")
  /\ IF alt_irq_pending # {}
       THEN Becomes([Top EXCEPT !.at = "isr", !.irq = Min(alt_irq_pending), !.served = FALSE])
            /\ UNCHANGED <<cpu, prog>>
       ELSE Eret(Top, prog)
  /\ UNCHANGED <<lines, alt_irq, alt_instruction_exception_handler>>

\* A handler makes its device take the request back.
Serve ==
  /\ (At("isr") \/ At("open")) /\ ~Top.served /\ ~(cpu.pie /\ alt_irq_pending # {})
  /\ lines' = lines \ {Top.irq}
  /\ Becomes([Top EXCEPT !.served = TRUE])
  /\ UNCHANGED <<cpu, alt_irq, alt_instruction_exception_handler, prog>>

MoreUrgent_AndItself(i) == {j \in IrqLines : j <= i}
MoreUrgent(i) == {j \in IrqLines : j < i}

\* A handler opens itself to more urgent ones before it has served its device.
alt_irq_interruptible ==
  /\ At("isr") /\ ~Top.served
  /\ Becomes([Top EXCEPT !.at = "open", !.old = cpu.alt_priority_mask])
  /\ LET mask == MoreUrgent(Top.irq)
     IN cpu' = [cpu EXCEPT !.alt_priority_mask = mask, !.ienable = cpu.alt_irq_active \cap mask,
                           !.pie = TRUE]
  /\ UNCHANGED <<lines, alt_irq, alt_instruction_exception_handler, prog>>

alt_irq_non_interruptible ==
  /\ At("open") /\ ~(cpu.pie /\ alt_irq_pending # {})
  /\ Becomes([Top EXCEPT !.at = "isr"])
  /\ cpu' = [cpu EXCEPT !.alt_priority_mask = Top.old, !.ienable = Top.old \cap cpu.alt_irq_active,
                        !.pie = FALSE]
  /\ UNCHANGED <<lines, alt_irq, alt_instruction_exception_handler, prog>>

IsrReturn ==
  /\ At("isr") /\ Top.served
  /\ Becomes([Top EXCEPT !.at = "pending", !.irq = NoIrq])
  /\ UNCHANGED <<cpu, lines, alt_irq, alt_instruction_exception_handler, prog>>

\* A handler's calls on the controller, each a critical section of its own; all write
\* ienable without the mask that an open handler has set.
HandlerCalls ==
  /\ At("isr") \/ (At("open") /\ ~(cpu.pie /\ alt_irq_pending # {}))
  /\ ~Top.served /\ (cpu.alt_priority_mask = IrqLines \/ CallsNested)
  /\ UNCHANGED <<lines, alt_instruction_exception_handler, frames, prog>>

IsrEnable(i) ==
  /\ HandlerCalls /\ alt_irq[i].handler # 0
  /\ cpu' = [cpu EXCEPT !.alt_irq_active = Unmask(i), !.ienable = Unmask(i)]
  /\ UNCHANGED alt_irq

IsrDisable(i) ==
  /\ HandlerCalls
  /\ cpu' = [cpu EXCEPT !.alt_irq_active = Mask(i), !.ienable = Mask(i)]
  /\ UNCHANGED alt_irq

\* A line that no handler is at work for is given another.
IsrRegister(i, isr) ==
  /\ HandlerCalls /\ \A k \in DOMAIN frames : frames[k].irq # i
  /\ alt_irq' = [alt_irq EXCEPT ![i] = [handler |-> isr, context |-> isr]]
  /\ LET new == IF isr # 0 THEN Unmask(i) ELSE Mask(i)
     IN cpu' = [cpu EXCEPT !.alt_irq_active = new, !.ienable = new]

Handling == EntryTest \/ NotIrq \/ Pending \/ alt_irq_non_interruptible \/ IsrReturn

IrqNext ==
  \/ \E i \in IrqLines : \/ Request(i) \/ alt_ic_irq_enable(i) \/ alt_ic_irq_disable(i)
                         \/ IsrEnable(i) \/ IsrDisable(i)
  \/ \E i \in IrqLines, isr \in 0..IsrVersions : RegisterBegin(i, isr) \/ IsrRegister(i, isr)
  \/ \E a \in {"none", "reissue", "skip"} : alt_instruction_exception_register(a)
  \/ alt_irq_disable_all \/ alt_irq_enable_all
  \/ RegisterHandler \/ RegisterContext \/ RegisterEnable \/ RegisterEnd
  \/ Interrupt \/ Exception \/ alt_irq_interruptible \/ Serve \/ Handling

IrqFairness == WF_irqVars(Interrupt) /\ WF_irqVars(Serve) /\ WF_irqVars(Handling)

IrqSpec == IrqInit /\ [][IrqNext]_irqVars /\ IrqFairness

-----------------------------------------------------------------------------
\* A handler is called with the context it was registered with, and never through a NULL
\* entry, wherever in a registration the request comes (alt_iic_isr_register.c:84-97).
TableConsistent ==
  \A k \in DOMAIN frames : frames[k].at \in {"isr", "open"} =>
    LET entry == alt_irq[frames[k].irq] IN entry.handler # 0 /\ entry.handler = entry.context

\* Handlers interrupt only less urgent ones: "used to allow higher priority interrupts to
\* interrupt the current ISR" (alt_legacy_irq.h:103-106).
NestedByPriority ==
  \A k, l \in DOMAIN frames : k < l /\ frames[l].irq # NoIrq => frames[l].irq < frames[k].irq

\* The program finds the controller as it left it, whatever nested in between: all it
\* enabled is enabled, and in a critical section nothing interrupts.
ControllerRestored ==
  /\ frames = <<>> => cpu.ienable = cpu.alt_irq_active /\ cpu.alt_priority_mask = IrqLines
  /\ frames = <<>> => (cpu.pie <=> prog.contexts = <<>>)
  /\ prog.contexts # <<>> => \A k \in DOMAIN frames : frames[k].irq = NoIrq

\* Interrupts and exceptions neither lose nor repeat an instruction of the program, except
\* those the registered handler skips (alt_exception_entry.S:160-196 and 270-286).
InstructionsOnce == frames = <<>> => prog.pc = prog.executed

\* Handlers, their nesting, the controller and the program: the four above.
IrqSafe == TableConsistent /\ NestedByPriority /\ ControllerRestored /\ InstructionsOnce

\* The most urgent request is served if it stays enabled, even if less urgent ones never
\* cease, unless the program stays in critical sections or meets an exception it has no
\* handler for: those pending are read again after every handler (alt_irq_handler.c:115-126).
MostUrgentServed ==
  LET i == Min(IrqLines)
  IN []<>(prog.contexts = <<>>) /\ []~At("stopped") =>
       (i \in lines /\ i \in cpu.alt_irq_active ~> i \notin lines \/ i \notin cpu.alt_irq_active)

=============================================================================
