------------------------------- MODULE Alarm -------------------------------
(***************************************************************************)
(* The alarms of the board support package (BSP/HAL/src/alt_alarm_start.c, *)
(* alt_tick.c, inc/sys/alt_llist.h): callbacks after a number of system    *)
(* clock ticks, on a tick counter that wraps.                              *)
(*                                                                         *)
(* alt_tick walks the list at interrupt level; a callback may start an     *)
(* alarm that is off and stop one that is on, itself included, but not the *)
(* one alt_tick has already saved as next: that one would point to itself. *)
(* The list is the set of its members, so the order of a walk is open; a   *)
(* new member goes to the head of the list, which the walk has passed.     *)
(***************************************************************************)
EXTENDS Naturals

CONSTANTS
  Alarms,       \* the alt_alarm structures
  TickRange,    \* values of alt_u32, 2^32
  Delays,       \* arguments of alt_alarm_start
  Periods       \* results of callbacks, 0 to end

ASSUME AlarmAssumption ==
  /\ TickRange \in Nat \ {0, 1}
  /\ Delays \subseteq 0 .. TickRange - 2   \* TickRange - 1 would be due at once
  /\ Periods \subseteq 0 .. TickRange - 1

VARIABLES
  nticks,       \* _alt_nticks
  list,         \* alarms registered in alt_alarm_list
  time, rollover,
  walk,         \* alt_tick: "off", "look" at an alarm or in a "callback"
  alarm, todo,  \* the alarm looked at; those behind it
  next,         \* the saved next, as a set of at most one alarm
  due           \* history: ticks until each alarm has to be called

alarmVars == <<nticks, list, time, rollover, walk, alarm, todo, next, due>>

AlarmInit ==
  /\ nticks = 0 /\ list = {}
  /\ time = [a \in Alarms |-> 0] /\ rollover = [a \in Alarms |-> FALSE]
  /\ walk = "off" /\ alarm \in Alarms /\ todo = {} /\ next = {}
  /\ due = [a \in Alarms |-> 0]

\* Mutant: the roll-over is not noticed when an alarm is started.
AlarmStart_NoRollover(a, delay) ==
  /\ walk # "look" /\ a \notin list /\ ~(walk = "callback" /\ a = alarm)
  /\ time' = [time EXCEPT ![a] = (delay + nticks + 1) % TickRange]
  /\ rollover' = [rollover EXCEPT ![a] = FALSE]
  /\ list' = list \cup {a}
  /\ due' = [due EXCEPT ![a] = delay + 1]
  /\ UNCHANGED <<nticks, walk, alarm, todo, next>>

\* alt_alarm_start, with interrupts off; while a callback runs, from there.
AlarmStart(a, delay) ==
  /\ walk # "look" /\ a \notin list /\ ~(walk = "callback" /\ a = alarm)
  /\ time' = [time EXCEPT ![a] = (delay + nticks + 1) % TickRange]
  /\ rollover' = [rollover EXCEPT ![a] = time'[a] < nticks]
  /\ list' = list \cup {a}
  /\ due' = [due EXCEPT ![a] = delay + 1]
  /\ UNCHANGED <<nticks, walk, alarm, todo, next>>

\* alt_alarm_stop
AlarmStop(a) ==
  /\ walk # "look" /\ a \in list /\ a \notin next
  /\ list' = list \ {a} /\ todo' = todo \ {a}
  /\ UNCHANGED <<nticks, time, rollover, walk, alarm, next, due>>

\* The walk goes on with an alarm of some, and then those of rest, or ends.
Walk(some, rest) ==
  \/ some = {} /\ walk' = "off" /\ todo' = {} /\ UNCHANGED alarm
  \/ \E a \in some : walk' = "look" /\ alarm' = a /\ todo' = rest \ {a}

AlarmTick ==
  /\ walk = "off"
  /\ nticks' = (nticks + 1) % TickRange
  /\ due' = [a \in Alarms |-> IF a \in list THEN due[a] - 1 ELSE due[a]]
  /\ Walk(list, list)
  /\ UNCHANGED <<list, time, rollover, next>>

\* The flag as this tick finds it.
RolledOver == rollover[alarm] /\ nticks # 0
Expired == time[alarm] <= nticks /\ ~RolledOver

NotExpired ==
  /\ walk = "look" /\ ~Expired
  /\ rollover' = [rollover EXCEPT ![alarm] = RolledOver]
  /\ Walk(todo, todo)
  /\ UNCHANGED <<nticks, list, time, next, due>>

Callback ==
  /\ walk = "look" /\ Expired
  /\ rollover' = [rollover EXCEPT ![alarm] = RolledOver]
  /\ walk' = "callback"
  /\ IF todo = {} THEN next' = {} ELSE \E a \in todo : next' = {a}
  /\ UNCHANGED <<nticks, list, time, alarm, todo, due>>

Again(period) ==
  /\ period # 0
  /\ time' = [time EXCEPT ![alarm] = (@ + period) % TickRange]
  /\ rollover' = [rollover EXCEPT ![alarm] = (time'[alarm] < nticks) \/ @]
  /\ due' = [due EXCEPT ![alarm] = period]
  /\ UNCHANGED list

Ended(period) == period = 0 /\ list' = list \ {alarm} /\ UNCHANGED <<time, rollover, due>>

\* The callback returns; the walk goes on at the saved alarm.
CallbackReturn(period) ==
  /\ walk = "callback"
  /\ Again(period) \/ Ended(period)
  /\ Walk(next, todo)
  /\ next' = {}
  /\ UNCHANGED nticks

AlarmNext ==
  \/ \E a \in Alarms : AlarmStop(a) \/ \E delay \in Delays : AlarmStart(a, delay)
  \/ AlarmTick \/ NotExpired \/ Callback
  \/ \E period \in Periods : CallbackReturn(period)

AlarmSpec == AlarmInit /\ [][AlarmNext]_alarmVars

-----------------------------------------------------------------------------
(* Properties *)

AlarmTypeOK ==
  /\ nticks \in 0 .. TickRange - 1
  /\ list \subseteq Alarms /\ todo \subseteq list /\ next \subseteq todo
  /\ time \in [Alarms -> 0 .. TickRange - 1] /\ rollover \in [Alarms -> BOOLEAN]
  /\ walk \in {"off", "look", "callback"} /\ alarm \in Alarms
  /\ due \in [Alarms -> Nat]

\* Every alarm is called at the tick its delay or its last period asks for,
\* neither before nor after, across the wrap of the tick counter and whatever
\* the callbacks of the same tick start and stop.
OnTime ==
  /\ walk = "off" => \A a \in list : due[a] > 0
  /\ walk = "callback" /\ alarm \in list => due[alarm] = 0

=============================================================================
