------------------------------ MODULE Alarmes ------------------------------
(***************************************************************************)
(* The alarms of the system clock: the doubly linked list alt_alarm_list,  *)
(* the calls that put alarms on it and take them off, and alt_tick, which  *)
(* walks it in the timer's interrupt and calls back.  A callback may itself*)
(* start and stop alarms.  Everything runs with interrupts off, so that a  *)
(* call of the program is one step; the walk is one step per alarm, with   *)
(* what the callback did in it.                                            *)
(***************************************************************************)
EXTENDS Integers, FiniteSets

CONSTANTS
  Alarm,        \* alt_alarm structures
  head,         \* &alt_alarm_list
  MaxPeriod,    \* bound: ticks an alarm asks for
  StopsOthers   \* callbacks may stop other alarms than their own

ASSUME AlarmAssumption ==
  /\ IsFiniteSet(Alarm) /\ head \notin Alarm
  /\ MaxPeriod \in Nat \ {0} /\ StopsOthers \in BOOLEAN

VARIABLES
  link,     \* next and previous of every list entry
  time,     \* alarm->time, counted from _alt_nticks
  tick_rate,
  walk,     \* alt_tick: where it is in the list; head when it does not run
  late      \* alarms that were due and on the list when the walk began

alarmVars == <<link, time, tick_rate, walk, late>>

Entry == Alarm \cup {head}

AlarmTypeOK ==
  /\ link \in [next : [Entry -> Entry], previous : [Entry -> Entry]]
  /\ time \in [Alarm -> -1..(MaxPeriod + 1)]
  /\ tick_rate \in BOOLEAN
  /\ walk \in Entry
  /\ late \subseteq Alarm

\* An alarm that is on no list points to itself, as alt_llist_remove leaves it.
AlarmInit ==
  /\ link = [next |-> [e \in Entry |-> e], previous |-> [e \in Entry |-> e]]
  /\ time = [a \in Alarm |-> 0]
  /\ tick_rate = FALSE
  /\ walk = head /\ late = {}

Listed(l, a) == l.next[a] # a

-----------------------------------------------------------------------------
(* alt_llist.h, on any list l; the order of the assignments is the code's.  *)

alt_llist_insert(l, e) ==
  LET first == l.next[head]
  IN [previous |-> [l.previous EXCEPT ![e] = head, ![first] = e],
      next     |-> [l.next EXCEPT ![e] = first, ![head] = e]]

alt_llist_remove_Dangling(l, e) ==
  LET p == l.previous[e]  n == l.next[e]
  IN [previous |-> [l.previous EXCEPT ![n] = p],
      next     |-> [l.next EXCEPT ![p] = n]]

alt_llist_remove(l, e) ==
  LET p == l.previous[e]  n == l.next[e]
  IN [previous |-> [l.previous EXCEPT ![n] = p, ![e] = e],
      next     |-> [l.next EXCEPT ![p] = n, ![e] = e]]

-----------------------------------------------------------------------------
\* alt_sysclk_init: only the first clock counts.
alt_sysclk_init ==
  /\ ~tick_rate /\ tick_rate' = TRUE
  /\ UNCHANGED <<link, time, walk, late>>

\* alt_alarm_start, on an alarm that is not running; without a clock it answers
\* ENOTSUP and does nothing.
alt_alarm_start(a, n) ==
  /\ walk = head /\ tick_rate /\ ~Listed(link, a)
  /\ time' = [time EXCEPT ![a] = n + 1]
  /\ link' = alt_llist_insert(link, a)
  /\ UNCHANGED <<tick_rate, walk, late>>

alt_alarm_stop(a) ==
  /\ walk = head
  /\ link' = alt_llist_remove(link, a)
  /\ UNCHANGED <<time, tick_rate, walk, late>>

\* The tick counter goes on, and the walk begins at the first alarm.
TickBegin ==
  /\ walk = head /\ tick_rate /\ link.next[head] # head
  /\ time' = [a \in Alarm |-> IF Listed(link, a) THEN time[a] - 1 ELSE time[a]]
  /\ walk' = link.next[head]
  /\ late' = {a \in Alarm : Listed(link, a) /\ time'[a] <= 0}
  /\ UNCHANGED <<link, tick_rate>>

\* What a callback of alarm a may do to the list before it returns.
CallbackList(l, a) ==
  {l, alt_llist_remove(l, a)}
    \cup {alt_llist_insert(l, b) : b \in {c \in Alarm : ~Listed(l, c)}}
    \cup (IF StopsOthers THEN {alt_llist_remove(l, b) : b \in Alarm} ELSE {})

\* One turn of the loop: the next entry is remembered before the callback.
TickAlarm ==
  /\ walk # head
  /\ walk' = link.next[walk]
  /\ IF time[walk] <= 0
       THEN \E l \in CallbackList(link, walk), period \in 0..MaxPeriod, n \in 1..MaxPeriod :
              /\ link' = IF period = 0 THEN alt_llist_remove(l, walk) ELSE l
              /\ time' = [a \in Alarm |->
                            CASE a = walk -> time[a] + period
                              [] a # walk /\ Listed(l, a) /\ ~Listed(link, a) -> n + 1
                              [] OTHER -> time[a]]
              /\ late' = late \ ({walk} \cup {a \in Alarm : ~Listed(l, a)})
       ELSE UNCHANGED <<link, time, late>>
  /\ UNCHANGED tick_rate

AlarmNext ==
  \/ alt_sysclk_init
  \/ \E a \in Alarm, n \in 0..MaxPeriod : alt_alarm_start(a, n)
  \/ \E a \in Alarm : alt_alarm_stop(a)
  \/ TickBegin \/ TickAlarm

AlarmFairness == WF_alarmVars(TickAlarm)

AlarmSpec == AlarmInit /\ [][AlarmNext]_alarmVars /\ AlarmFairness

-----------------------------------------------------------------------------
\* The entry n steps from the head.
FromHead(f) ==
  LET walked[n \in Nat] == IF n = 0 THEN head ELSE f[walked[n - 1]]
  IN walked

\* The list is a ring through the head in both directions, and every alarm is on it or
\* alone, whatever callbacks and calls do to it (alt_llist.h:83-114).
ListIsRing ==
  /\ \A e \in Entry : link.previous[link.next[e]] = e /\ link.next[link.previous[e]] = e
  /\ \A a \in Alarm : Listed(link, a) => \E n \in 1..Cardinality(Alarm) : FromHead(link.next)[n] = a

\* A tick leaves nothing undone: when it is over, every alarm that was due and still
\* wanted has been called, and none is due any more (alt_tick.c:98-121).
AlarmsOnTime ==
  walk = head => late = {} /\ \A a \in Alarm : Listed(link, a) => time[a] >= 1

\* An alarm is called only if it was due when the tick began, and once in a tick: a
\* call takes it off late, and nothing puts it back, not even a callback that stops it
\* and starts it again (alt_tick.c:98-121).
CalledOnce == walk # head /\ time[walk] <= 0 => walk \in late

\* The list and what it is for: the three above.
AlarmSafe == ListIsRing /\ AlarmsOnTime /\ CalledOnce

\* A tick ends, although its callbacks put alarms on the list it walks: it goes on from
\* the entry it remembered, and what is started comes before that (alt_tick.c:98-121).
TickEnds == []<>(walk = head)

=============================================================================
