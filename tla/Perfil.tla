------------------------------- MODULE Perfil -------------------------------
(***************************************************************************)
(* Profiling: mcount (HAL/src/alt_mcount.S) and __mcount_record            *)
(* (HAL/src/alt_gmon.c), which count the calls of every caller and callee, *)
(* called by the program and by interrupts, and the sampling of the        *)
(* program counter by an alarm at every tick.                              *)
(*                                                                         *)
(* Slabs of memory are left out: an entry of a list is one of its values.  *)
(***************************************************************************)
EXTENDS Integers, Sequences, FiniteSets

CONSTANTS PfFns,         \* functions called, in one bucket of the hash table
          PfCallers,     \* where they are called from
          PfMaxCalls,    \* bound: calls of each kind of context
          PfText,        \* bytes of the text section
          PfBucket       \* PCSAMPLE_BYTES_PER_BUCKET

ASSUME PfAssumption == /\ PfMaxCalls \in Nat /\ PfText \in Nat /\ PfBucket \in Nat \ {0}

VARIABLES pf_fns,      \* __mcount_fn_head: entries [self, arcs], the arcs <<from, count>>
          pf_stack,    \* calls of mcount under way, the interrupting one last
          pf_calls,    \* history: calls of mcount begun, as <<self, from, interrupt>>
          pf_lost,     \* history: counts overwritten by an interrupted call
          pf_sampler   \* [need: pcsample_need_init, samples: s_pcsamples]

pfVars == <<pf_fns, pf_stack, pf_calls, pf_lost, pf_sampler>>

PfRunning == pf_stack[Len(pf_stack)]
PfDepth(n) == Len(pf_stack) = n
PfSetTop(f) == pf_stack' = [pf_stack EXCEPT ![Len(pf_stack)] = f]
PfPop == pf_stack' = SubSeq(pf_stack, 1, Len(pf_stack) - 1)

(* New entries go to the head of their list, which here is the end of the  *)
(* sequence, so that an entry keeps its place; place 0 is NULL.            *)
PfFnAt(self) == {i \in DOMAIN pf_fns : pf_fns[i].self = self}
PfFirst(S) == CHOOSE i \in S : \A j \in S : j <= i
PfArcAt(i, from) == {k \in DOMAIN pf_fns[i].arcs : pf_fns[i].arcs[k].from = from}

-----------------------------------------------------------------------------
(* mcount, at the head of every function; interrupts may come between its  *)
(* steps, and call it themselves.                                          *)

PfCall ==
  /\ \E self \in PfFns, from \in PfCallers, interrupt \in BOOLEAN :
       /\ IF interrupt THEN PfDepth(1) \/ PfDepth(0) ELSE PfDepth(0)
       /\ pf_stack # <<>> => ~PfRunning.interrupt /\ PfRunning.at # "off"
       /\ Cardinality({c \in DOMAIN pf_calls : pf_calls[c][3] = interrupt}) < PfMaxCalls
       /\ pf_calls' = Append(pf_calls, <<self, from, interrupt>>)
       /\ pf_stack' = Append(pf_stack, [self |-> self, from |-> from, interrupt |-> interrupt,
                                        at |-> "find", fn |-> 0, arc |-> 0, count |-> 0])
  /\ UNCHANGED <<pf_fns, pf_lost, pf_sampler>>

(* The fast case: the function and the arc are found by walking the lists. *)
mcount_find ==
  /\ pf_stack # <<>> /\ PfRunning.at = "find"
  /\ LET fns == PfFnAt(PfRunning.self)
     IN  IF fns = {} THEN PfSetTop([PfRunning EXCEPT !.at = "record"])
         ELSE LET i    == PfFirst(fns)
                  arcs == PfArcAt(i, PfRunning.from)
              IN  PfSetTop(IF arcs = {}
                           THEN [PfRunning EXCEPT !.at = "record", !.fn = i]
                           ELSE [PfRunning EXCEPT !.at = "count", !.fn = i, !.arc = PfFirst(arcs),
                                   !.count = pf_fns[i].arcs[PfFirst(arcs)].count])
  /\ UNCHANGED <<pf_fns, pf_calls, pf_lost, pf_sampler>>

(* The count was read, is incremented and stored; what an interrupt added  *)
(* in between is overwritten.                                              *)
mcount_store ==
  /\ pf_stack # <<>> /\ PfRunning.at = "count"
  /\ LET i   == PfRunning.fn
         k   == PfRunning.arc
         now == pf_fns[i].arcs[k].count
     IN  /\ pf_fns' = [pf_fns EXCEPT ![i].arcs[k].count = PfRunning.count + 1]
         /\ pf_lost' = pf_lost + now - PfRunning.count
  /\ PfPop
  /\ UNCHANGED <<pf_calls, pf_sampler>>

(* __mcount_record: until the sampler runs it is started again, which      *)
(* needs the system clock's timer ...                                      *)
mcount_record_sampler ==
  /\ pf_stack # <<>> /\ PfRunning.at = "record"
  /\ \E ticking \in BOOLEAN :
       pf_sampler' = IF pf_sampler.need /\ ticking
                     THEN [pf_sampler EXCEPT !.need = FALSE,
                             !.samples = [b \in 0 .. (PfText \div PfBucket) - 1 |-> 0]]
                     ELSE pf_sampler
  /\ PfSetTop([PfRunning EXCEPT !.at = "off"])
  /\ UNCHANGED <<pf_fns, pf_calls, pf_lost>>

(* ... and then, with interrupts disabled, a new arc is entered, under a   *)
(* new function if none was found.                                         *)
mcount_record_arc_Replaces ==
  /\ pf_stack # <<>> /\ PfRunning.at = "off"
  /\ LET arc == [from |-> PfRunning.from, count |-> 1]
     IN  pf_fns' = IF PfRunning.fn = 0
                   THEN Append(pf_fns, [self |-> PfRunning.self, arcs |-> <<arc>>])
                   ELSE [pf_fns EXCEPT ![PfRunning.fn].arcs = <<arc>>]
  /\ PfPop
  /\ UNCHANGED <<pf_calls, pf_lost, pf_sampler>>
mcount_record_arc ==
  /\ pf_stack # <<>> /\ PfRunning.at = "off"
  /\ LET arc == [from |-> PfRunning.from, count |-> 1]
     IN  pf_fns' = IF PfRunning.fn = 0
                   THEN Append(pf_fns, [self |-> PfRunning.self, arcs |-> <<arc>>])
                   ELSE [pf_fns EXCEPT ![PfRunning.fn].arcs = Append(@, arc)]
  /\ PfPop
  /\ UNCHANGED <<pf_calls, pf_lost, pf_sampler>>

(* The alarm at a tick: the bucket of the interrupted address.             *)
nios2_pcsample ==
  /\ ~pf_sampler.need /\ pf_stack = <<>>
  /\ \E pc \in 0 .. PfText :
       pf_sampler' = IF pc < PfText
                     THEN [pf_sampler EXCEPT !.samples =
                             [b \in DOMAIN @ \cup {pc \div PfBucket} |->
                                IF b = pc \div PfBucket THEN 1 ELSE @[b]]]
                     ELSE pf_sampler
  /\ UNCHANGED <<pf_fns, pf_stack, pf_calls, pf_lost>>

PfInit ==
  /\ pf_fns = <<>> /\ pf_stack = <<>> /\ pf_calls = <<>> /\ pf_lost = 0
  /\ pf_sampler = [need |-> TRUE, samples |-> <<>>]

PfNext ==
  \/ PfCall \/ mcount_find \/ mcount_store
  \/ mcount_record_sampler \/ mcount_record_arc \/ nios2_pcsample

PfSpec == PfInit /\ [][PfNext]_pfVars

-----------------------------------------------------------------------------
(* The calls under way are one of the program and one of an interrupt at   *)
(* most, and the histogram's buckets are those of the text. The last of    *)
(* them is past the buffer (alt_gmon.c:226) unless the text is a whole     *)
(* number of buckets.                                                      *)
PfTypeOK ==
  /\ Len(pf_stack) <= 2
  /\ pf_sampler.need \in BOOLEAN
  /\ \A b \in DOMAIN pf_sampler.samples : b \in Nat /\ b * PfBucket < PfText

(* The arcs' entries, and one mark for every call counted in them.         *)
PfArcs  == UNION {{i} \X DOMAIN pf_fns[i].arcs : i \in DOMAIN pf_fns}
PfMarks == UNION {{e} \X (1 .. pf_fns[e[1]].arcs[e[2]].count) : e \in PfArcs}

(* Every call is counted, in one of the copies of its arc, except those    *)
(* under way and those an interrupted increment overwrote; no list ever    *)
(* loses an entry (alt_gmon.c:177, "It's safe for the code above to be     *)
(* stepping through the chain and be interrupted by this code").           *)
CallsCounted == Cardinality(PfMarks) + pf_lost + Len(pf_stack) = Len(pf_calls)

(* An arc is in its list twice only if an interrupt found it missing too:  *)
(* never more copies than interrupts that recorded.                        *)
PfCopies(self, from) ==
  {e \in PfArcs : pf_fns[e[1]].self = self /\ pf_fns[e[1]].arcs[e[2]].from = from}
PfInterrupts == {c \in DOMAIN pf_calls : pf_calls[c][3]}

CopiesBounded ==
  \A self \in PfFns, from \in PfCallers :
    Cardinality(PfCopies(self, from)) <= 1 + Cardinality(PfInterrupts)

\* The counts of the profile: the two above.
ProfileSafe == CallsCounted /\ CopiesBounded
=============================================================================
