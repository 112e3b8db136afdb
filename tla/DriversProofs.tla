---------------------------- MODULE DriversProofs ----------------------------
(***************************************************************************)
(* The drivers of the board support package together.  Every alarm is      *)
(* called at its tick; each direction of both serial drivers implements a  *)
(* channel; and as the drivers share nothing, what is true of each in its  *)
(* own program is true of it in module MCDrivers.                          *)
(***************************************************************************)
EXTENDS MCDrivers, JtagUartProofs, UartProofs

-----------------------------------------------------------------------------
(* Every alarm is called at its tick, for every number of alarms and every *)
(* range of the tick counter.                                              *)
(*                                                                         *)
(* time and rollover of an alarm say how far it is from being due, but not *)
(* in the same way before and after alt_tick has come past it: the flag of *)
(* an alarm that the walk has not reached yet still belongs to the tick    *)
(* before.                                                                 *)

\* The absolute tick of an alarm that is k ticks away, and whether it is
\* behind the wrap of the counter.
Reached(a, k) == time[a] = (nticks + k) % TickRange
BehindWrap(k) == nticks + k >= TickRange

\* A registered alarm between two ticks, or behind the walk.
Settled(a) ==
  /\ due[a] \in 1 .. TickRange - 1
  /\ Reached(a, due[a])
  /\ rollover[a] <=> BehindWrap(due[a])

\* An alarm the walk has still to look at.
Ahead(a) ==
  /\ due[a] \in 0 .. TickRange - 2
  /\ Reached(a, due[a])
  /\ (rollover[a] /\ nticks # 0) <=> BehindWrap(due[a])

\* The alarm whose callback runs.
Called(a) == due[a] = 0 /\ time[a] = nticks /\ ~rollover[a]

Places ==
  /\ walk = "off" => todo = {}
  /\ walk = "look" => alarm \in list
  /\ walk # "off" => alarm \notin todo
  /\ walk # "callback" => next = {}
  /\ next = {} /\ walk = "callback" => todo = {}
  /\ next = {} \/ \E a \in todo : next = {a}

Distances ==
  /\ \A a \in todo : Ahead(a)
  /\ walk = "look" => Ahead(alarm)
  /\ walk = "callback" /\ alarm \in list => Called(alarm)
  /\ \A a \in list \ todo : walk = "off" \/ a # alarm => Settled(a)

AlarmInv == AlarmTypeOK /\ Places /\ Distances

-----------------------------------------------------------------------------
(* Arithmetic of the tick counter. *)

LEMMA WrapBelow ==
  ASSUME NEW k \in 0 .. TickRange - 1
  PROVE  k % TickRange = k
  BY AlarmAssumption

LEMMA WrapAbove ==
  ASSUME NEW k \in TickRange .. 2 * TickRange - 1
  PROVE  k % TickRange = k - TickRange
  BY AlarmAssumption

LEMMA WrapRange ==
  ASSUME NEW k \in Nat
  PROVE  k % TickRange \in 0 .. TickRange - 1
  BY AlarmAssumption

\* The comparison with which alt_alarm_start and alt_tick find out whether an
\* alarm lies behind the wrap.
LEMMA WrapNoticed ==
  ASSUME NEW t \in 0 .. TickRange - 1, NEW k \in 1 .. TickRange - 1
  PROVE  /\ (t + k) % TickRange \in 0 .. TickRange - 1
         /\ (t + k) % TickRange < t <=> t + k >= TickRange
<1>1. CASE t + k < TickRange
  BY <1>1, WrapBelow, AlarmAssumption
<1>2. CASE t + k >= TickRange
  <2>1. t + k \in TickRange .. 2 * TickRange - 1
    BY <1>2, AlarmAssumption
  <2> QED
    BY <2>1, <1>2, WrapAbove, AlarmAssumption
<1> QED
  BY <1>1, <1>2, AlarmAssumption

\* Going on by one tick brings an alarm one tick nearer.
LEMMA OneTick ==
  ASSUME NEW t \in 0 .. TickRange - 1, NEW k \in 1 .. TickRange - 1
  PROVE  LET u == (t + 1) % TickRange
         IN /\ u \in 0 .. TickRange - 1
            /\ (u + (k - 1)) % TickRange = (t + k) % TickRange
            /\ (t + k >= TickRange /\ u # 0) <=> u + (k - 1) >= TickRange
<1> DEFINE u == (t + 1) % TickRange
<1>1. CASE t + 1 < TickRange
  <2>1. u = t + 1
    BY <1>1, WrapBelow, AlarmAssumption
  <2> QED
    BY <2>1, <1>1, AlarmAssumption
<1>2. CASE t + 1 = TickRange
  <2>1. u = 0
    BY <1>2, AlarmAssumption
  <2>2. t + k = TickRange + (k - 1) /\ t + k \in TickRange .. 2 * TickRange - 1
    BY <1>2, AlarmAssumption
  <2>3. (t + k) % TickRange = k - 1
    BY <2>2, WrapAbove, AlarmAssumption
  <2>4. (k - 1) % TickRange = k - 1
    BY WrapBelow, AlarmAssumption
  <2> QED
    BY <2>1, <2>3, <2>4, AlarmAssumption
<1> QED
  BY <1>1, <1>2, AlarmAssumption

\* An alarm ahead of the walk is found expired exactly when it is due.
LEMMA ExpiredWhenDue ==
  ASSUME AlarmInv, walk = "look"
  PROVE  /\ Expired <=> due[alarm] = 0
         /\ Expired => time[alarm] = nticks /\ ~RolledOver
         /\ RolledOver <=> BehindWrap(due[alarm])
<1>1. /\ nticks \in 0 .. TickRange - 1 /\ due[alarm] \in 0 .. TickRange - 2
      /\ Reached(alarm, due[alarm])
      /\ RolledOver <=> BehindWrap(due[alarm])
  BY DEF AlarmInv, AlarmTypeOK, Distances, Ahead, RolledOver
<1>2. CASE BehindWrap(due[alarm])
  <2>1. due[alarm] # 0
    BY <1>1, <1>2, AlarmAssumption DEF BehindWrap
  <2> QED
    BY <2>1, <1>1, <1>2 DEF Expired
<1>3. CASE ~BehindWrap(due[alarm])
  <2>1. time[alarm] = nticks + due[alarm]
    BY <1>1, <1>3, WrapBelow, AlarmAssumption DEF BehindWrap, Reached
  <2> QED
    BY <2>1, <1>1, <1>3 DEF Expired
<1> QED
  BY <1>2, <1>3

-----------------------------------------------------------------------------
(* The steps. *)

LEMMA StartStep ==
  ASSUME AlarmInv, NEW a \in Alarms, NEW delay \in Delays, AlarmStart(a, delay)
  PROVE  AlarmInv'
<1> USE DEF AlarmStart
<1>1. delay + 1 \in 1 .. TickRange - 1 /\ nticks \in 0 .. TickRange - 1
  BY AlarmAssumption DEF AlarmInv, AlarmTypeOK
<1>2. /\ time'[a] = (nticks + (delay + 1)) % TickRange
      /\ time'[a] \in 0 .. TickRange - 1
      /\ rollover'[a] = (time'[a] < nticks)
      /\ due'[a] = delay + 1
  BY <1>1, WrapNoticed, AlarmAssumption DEF AlarmInv, AlarmTypeOK
<1>3. Settled(a)'
  BY <1>1, <1>2, WrapNoticed DEF Settled, Reached, BehindWrap
<1>4. \A b \in Alarms \ {a} :
        time'[b] = time[b] /\ rollover'[b] = rollover[b] /\ due'[b] = due[b]
  BY DEF AlarmInv, AlarmTypeOK
<1>5. AlarmTypeOK'
  BY <1>1, <1>2, AlarmAssumption DEF AlarmInv, AlarmTypeOK
<1>6. Places'
  BY DEF AlarmInv, Places
<1>7. Distances'
  <2>1. \A b \in list : b # a /\ b \in Alarms
    BY DEF AlarmInv, AlarmTypeOK
  <2>2. \A b \in list : (Settled(b) => Settled(b)') /\ (Ahead(b) => Ahead(b)') /\ (Called(b) => Called(b)')
    BY <2>1, <1>4 DEF Settled, Ahead, Called, Reached, BehindWrap
  <2>3. todo \subseteq list /\ todo' = todo /\ list' = list \cup {a} /\ alarm' = alarm /\ walk' = walk
    BY DEF AlarmInv, AlarmTypeOK
  <2>4. (walk = "look" => alarm \in list) /\ (walk = "callback" => alarm # a)
    BY DEF AlarmInv, Places
  <2> QED
    BY <1>3, <2>1, <2>2, <2>3, <2>4 DEF AlarmInv, Distances
<1> QED
  BY <1>5, <1>6, <1>7 DEF AlarmInv

LEMMA StopStep == ASSUME AlarmInv, NEW a \in Alarms, AlarmStop(a) PROVE AlarmInv'
<1> USE DEF AlarmStop
<1>1. AlarmTypeOK'
  BY DEF AlarmInv, AlarmTypeOK, Places
<1>2. Places'
  BY DEF AlarmInv, Places
<1>3. Distances'
  <2>1. \A b : /\ Settled(b) => Settled(b)'
               /\ Ahead(b) => Ahead(b)'
               /\ Called(b) => Called(b)'
    BY DEF Settled, Ahead, Called, Reached, BehindWrap
  <2> QED
    BY <2>1 DEF AlarmInv, Distances
<1> QED
  BY <1>1, <1>2, <1>3 DEF AlarmInv

LEMMA TickStep == ASSUME AlarmInv, AlarmTick PROVE AlarmInv'
<1> USE DEF AlarmTick
<1>1. todo = {} /\ \A a \in list : a \in Alarms /\ Settled(a)
  BY DEF AlarmInv, AlarmTypeOK, Places, Distances
<1>2. nticks \in 0 .. TickRange - 1 /\ nticks' \in 0 .. TickRange - 1
  BY WrapRange DEF AlarmInv, AlarmTypeOK
<1>3. ASSUME NEW a \in list PROVE due'[a] \in Nat /\ Ahead(a)'
  <2>1. due[a] \in 1 .. TickRange - 1 /\ due'[a] = due[a] - 1
    BY <1>1 DEF Settled
  <2>2. /\ (nticks' + due'[a]) % TickRange = (nticks + due[a]) % TickRange
        /\ (nticks + due[a] >= TickRange /\ nticks' # 0) <=> nticks' + due'[a] >= TickRange
    BY <2>1, <1>2, OneTick
  <2> QED
    BY <2>1, <2>2, <1>1, AlarmAssumption DEF Ahead, Settled, Reached, BehindWrap
<1>4. \/ list = {} /\ walk' = "off" /\ todo' = {} /\ alarm' = alarm
      \/ \E a \in list : walk' = "look" /\ alarm' = a /\ todo' = list \ {a}
  BY DEF Walk
<1>5. AlarmTypeOK'
  <2>1. due' \in [Alarms -> Nat]
    BY <1>3 DEF AlarmInv, AlarmTypeOK
  <2>2. todo' \subseteq list' /\ alarm' \in Alarms /\ walk' \in {"off", "look", "callback"}
    BY <1>1, <1>4 DEF AlarmInv, AlarmTypeOK
  <2>3. next' = {}
    BY DEF AlarmInv, Places
  <2> QED
    BY <2>1, <2>2, <2>3, <1>2 DEF AlarmInv, AlarmTypeOK
<1>6. Places'
  BY <1>4 DEF AlarmInv, Places
<1>7. Distances'
  BY <1>3, <1>4 DEF Distances
<1> QED
  BY <1>5, <1>6, <1>7 DEF AlarmInv

\* An alarm that is not due yet is left behind with the flag it needs.
LEMMA NotExpiredStep == ASSUME AlarmInv, NotExpired PROVE AlarmInv'
<1> USE DEF NotExpired
<1>0. PICK a \in Alarms : a = alarm
  BY DEF AlarmInv, AlarmTypeOK
<1>1. alarm \in list /\ alarm \in Alarms /\ alarm \notin todo /\ Ahead(alarm) /\ next = {}
  BY DEF AlarmInv, AlarmTypeOK, Places, Distances
<1>2. due[alarm] # 0 /\ (RolledOver <=> BehindWrap(due[alarm]))
  BY ExpiredWhenDue
<1>3. rollover'[alarm] = RolledOver /\ \A b \in Alarms \ {alarm} : rollover'[b] = rollover[b]
  BY <1>1 DEF AlarmInv, AlarmTypeOK
<1>4. RolledOver \in BOOLEAN
  BY <1>1 DEF AlarmInv, AlarmTypeOK, RolledOver
<1>5. Settled(a)'
  <2>1. due[a] \in 1 .. TickRange - 1 /\ Reached(a, due[a])
    BY <1>0, <1>1, <1>2, AlarmAssumption DEF Ahead
  <2>2. rollover'[a] <=> BehindWrap(due[a])
    BY <1>0, <1>2, <1>3
  <2>3. due' = due /\ time' = time /\ nticks' = nticks
    OBVIOUS
  <2> QED
    BY <2>1, <2>2, <2>3 DEF Settled, Reached, BehindWrap
<1>6. \A b \in list \ {alarm} : (Settled(b) => Settled(b)') /\ (Ahead(b) => Ahead(b)')
  BY <1>3 DEF AlarmInv, AlarmTypeOK, Settled, Ahead, Reached, BehindWrap
<1>7. \/ todo = {} /\ walk' = "off" /\ todo' = {} /\ alarm' = alarm
      \/ \E b \in todo : walk' = "look" /\ alarm' = b /\ todo' = todo \ {b}
  BY DEF Walk
<1>8. AlarmTypeOK'
  <2>1. rollover' \in [Alarms -> BOOLEAN]
    BY <1>4 DEF AlarmInv, AlarmTypeOK
  <2>2. todo' \subseteq list' /\ alarm' \in Alarms /\ walk' \in {"off", "look", "callback"}
    BY <1>1, <1>7 DEF AlarmInv, AlarmTypeOK
  <2>3. next' = {}
    BY <1>1
  <2> QED
    BY <2>1, <2>2, <2>3 DEF AlarmInv, AlarmTypeOK
<1>9. Places'
  BY <1>1, <1>7 DEF AlarmInv, AlarmTypeOK, Places
<1>10. Distances'
  <2>1. todo \subseteq list \ {alarm} /\ list' = list
    BY <1>1 DEF AlarmInv, AlarmTypeOK
  <2>2. \A b \in todo : Ahead(b)'
    BY <2>1, <1>6 DEF AlarmInv, Distances
  <2>3. \A b \in list \ todo : Settled(b)'
    BY <1>0, <1>5, <1>6 DEF AlarmInv, Distances
  <2> QED
    BY <2>1, <2>2, <2>3, <1>7 DEF Distances
<1> QED
  BY <1>8, <1>9, <1>10 DEF AlarmInv

LEMMA CallbackStep == ASSUME AlarmInv, Callback PROVE AlarmInv'
<1> USE DEF Callback
<1>1. alarm \in list /\ alarm \in Alarms /\ alarm \notin todo
  BY DEF AlarmInv, AlarmTypeOK, Places
<1>2. due[alarm] = 0 /\ time[alarm] = nticks /\ ~RolledOver
  BY ExpiredWhenDue
<1>3. rollover'[alarm] = FALSE /\ \A b \in Alarms \ {alarm} : rollover'[b] = rollover[b]
  BY <1>1, <1>2 DEF AlarmInv, AlarmTypeOK
<1>4. Called(alarm)'
  BY <1>2, <1>3 DEF Called
<1>5. \A b \in list \ {alarm} : (Settled(b) => Settled(b)') /\ (Ahead(b) => Ahead(b)')
  BY <1>3 DEF AlarmInv, AlarmTypeOK, Settled, Ahead, Reached, BehindWrap
<1>6. AlarmTypeOK'
  <2>1. rollover' \in [Alarms -> BOOLEAN]
    BY <1>3 DEF AlarmInv, AlarmTypeOK
  <2>2. next' \subseteq todo' /\ walk' = "callback" /\ todo' = todo
    OBVIOUS
  <2> QED
    BY <2>1, <2>2 DEF AlarmInv, AlarmTypeOK
<1>7. Places'
  BY <1>1 DEF AlarmInv, Places
<1>8. Distances'
  BY <1>1, <1>4, <1>5 DEF AlarmInv, AlarmTypeOK, Distances
<1> QED
  BY <1>6, <1>7, <1>8 DEF AlarmInv

\* The callback's result counts from the tick the alarm was due at, which is
\* the current one.
LEMMA ReturnStep ==
  ASSUME AlarmInv, NEW period \in Periods, CallbackReturn(period)
  PROVE  AlarmInv'
<1> USE DEF CallbackReturn
<1>0. PICK a \in Alarms : a = alarm
  BY DEF AlarmInv, AlarmTypeOK
<1>1. /\ alarm \in Alarms /\ alarm \notin todo /\ todo \subseteq list /\ list \subseteq Alarms
      /\ next \subseteq todo /\ (next = {} => todo = {})
      /\ nticks \in 0 .. TickRange - 1
  BY DEF AlarmInv, AlarmTypeOK, Places
<1>2. \/ next = {} /\ walk' = "off" /\ todo' = {} /\ alarm' = alarm
      \/ \E b \in next : walk' = "look" /\ alarm' = b /\ todo' = todo \ {b}
  BY DEF Walk
<1>3. list \ {alarm} \subseteq list' /\ list' \subseteq list
  BY DEF Again, Ended
<1>4. \A b \in list \ {alarm} : (Settled(b) => Settled(b)') /\ (Ahead(b) => Ahead(b)')
  BY DEF Again, Ended, AlarmInv, AlarmTypeOK, Settled, Ahead, Reached, BehindWrap
<1>5. /\ time' \in [Alarms -> 0 .. TickRange - 1]
      /\ rollover' \in [Alarms -> BOOLEAN]
      /\ due' \in [Alarms -> Nat]
      /\ a \in list' => Settled(a)'
  <2>1. CASE Ended(period)
    BY <2>1, <1>0 DEF Ended, AlarmInv, AlarmTypeOK
  <2>2. CASE Again(period)
    <3>1. period \in 1 .. TickRange - 1
      BY <2>2, AlarmAssumption DEF Again
    <3>2. /\ time'[a] = (time[a] + period) % TickRange
          /\ rollover'[a] = ((time'[a] < nticks) \/ rollover[a])
          /\ due'[a] = period
      BY <2>2, <1>0 DEF Again, AlarmInv, AlarmTypeOK
    <3>3. time[a] + period \in Nat
      BY <3>1 DEF AlarmInv, AlarmTypeOK
    <3>4. time'[a] \in 0 .. TickRange - 1
      BY <3>2, <3>3, WrapRange
    <3>5. ASSUME a \in list' PROVE Settled(a)'
      <4>1. Called(a)
        BY <3>5, <1>0, <1>3 DEF AlarmInv, Distances
      <4>2. time'[a] = (nticks + period) % TickRange /\ (rollover'[a] <=> time'[a] < nticks)
        BY <4>1, <3>2 DEF Called
      <4>3. (nticks + period) % TickRange < nticks <=> nticks + period >= TickRange
        BY <3>1, <1>1, WrapNoticed
      <4>4. rollover'[a] <=> nticks + period >= TickRange
        BY <4>2, <4>3
      <4> QED
        BY <4>2, <4>4, <3>1, <3>2 DEF Settled, Reached, BehindWrap
    <3>6. /\ time' = [time EXCEPT ![a] = time'[a]]
          /\ rollover' = [rollover EXCEPT ![a] = rollover'[a]]
          /\ due' = [due EXCEPT ![a] = period]
      BY <2>2, <3>2, <1>0 DEF Again, AlarmInv, AlarmTypeOK
    <3>7. rollover'[a] \in BOOLEAN
      BY <3>2 DEF AlarmInv, AlarmTypeOK
    <3> QED
      BY <3>1, <3>4, <3>5, <3>6, <3>7 DEF AlarmInv, AlarmTypeOK
  <2> QED
    BY <2>1, <2>2
<1>6. AlarmTypeOK'
  <2>1. todo' \subseteq list' /\ next' \subseteq todo' /\ list' \subseteq Alarms /\ alarm' \in Alarms
    BY <1>1, <1>2, <1>3
  <2>2. walk' \in {"off", "look", "callback"} /\ nticks' \in 0 .. TickRange - 1
    BY <1>1, <1>2
  <2> QED
    BY <1>5, <2>1, <2>2 DEF AlarmTypeOK
<1>7. Places'
  BY <1>1, <1>2, <1>3 DEF Places
<1>8. Distances'
  <2>1. \A b \in todo : b \in list \ {alarm} /\ Ahead(b)'
    BY <1>1, <1>4 DEF AlarmInv, Distances
  <2>2. ASSUME NEW b \in list' \ todo PROVE Settled(b)'
    <3>1. CASE b = a
      BY <3>1, <1>5
    <3>2. CASE b # a
      BY <3>2, <1>0, <1>3, <1>4 DEF AlarmInv, Distances
    <3> QED
      BY <3>1, <3>2
  <2> QED
    BY <2>1, <2>2, <1>1, <1>2, <1>3 DEF Distances
<1> QED
  BY <1>6, <1>7, <1>8 DEF AlarmInv

LEMMA AlarmInitially == AlarmInit => AlarmInv
  BY AlarmAssumption DEF AlarmInit, AlarmInv, AlarmTypeOK, Places, Distances

LEMMA AlarmInvStep == AlarmInv /\ [AlarmNext]_alarmVars => AlarmInv'
<1>1. AlarmInv /\ UNCHANGED alarmVars => AlarmInv'
  BY DEF alarmVars, AlarmInv, AlarmTypeOK, Places, Distances, Settled, Ahead, Called, Reached, BehindWrap
<1> QED
  BY <1>1, StartStep, StopStep, TickStep, NotExpiredStep, CallbackStep, ReturnStep DEF AlarmNext

LEMMA AlarmInvariance == AlarmSpec => []AlarmInv
  BY AlarmInitially, AlarmInvStep, PTL DEF AlarmSpec

LEMMA OnTimeMeans == AlarmInv => OnTime
  BY DEF AlarmInv, Places, Distances, Settled, Called, OnTime

(* Every alarm is called at its tick, neither before nor after, however    *)
(* many there are and wherever the tick counter wraps.                     *)
THEOREM CalledOnTime == AlarmSpec => []OnTime
  BY OnTimeMeans, AlarmInvariance, PTL

(* The walk of alt_tick stays inside the list and every field in its type. *)
THEOREM AlarmTypeCorrect == AlarmSpec => []AlarmTypeOK
<1>1. AlarmInv => AlarmTypeOK
  BY DEF AlarmInv
<1> QED
  BY <1>1, AlarmInvariance, PTL

-----------------------------------------------------------------------------
(* Channels.  What is sent and what is received are both an initial piece  *)
(* of the numbers 1, 2, 3 ..., so that a step of the channel is a step of  *)
(* one of the two counts.                                                  *)

Count(k) == [i \in 1 .. k |-> i]

LEMMA CountIs ==
  ASSUME NEW k \in Nat
  PROVE  Count(k) \in Seq(Nat) /\ Len(Count(k)) = k /\ \A i \in 1 .. k : Count(k)[i] = i
  BY DEF Count

LEMMA CountOf ==
  ASSUME NEW s \in Seq(Nat), \A i \in 1 .. Len(s) : s[i] = i
  PROVE  s = Count(Len(s))
<1>1. Len(s) \in Nat
  OBVIOUS
<1>2. /\ Count(Len(s)) \in Seq(Nat) /\ Len(Count(Len(s))) = Len(s)
      /\ \A i \in 1 .. Len(s) : Count(Len(s))[i] = i
  BY <1>1, CountIs
<1> DEFINE t == Count(Len(s))
<1> HIDE DEF t
<1>3. s = t
  BY <1>2, Equal DEF t
<1> QED
  BY <1>3 DEF t

LEMMA CountGrows ==
  ASSUME NEW j \in Nat, NEW k \in Nat, j < k
  PROVE  /\ Len(Count(j)) <= Len(Count(k))
         /\ SubSeq(Count(j), 1, Len(Count(j))) = SubSeq(Count(k), 1, Len(Count(j)))
         /\ Count(j) # Count(k)
<1> DEFINE s == Count(j)
           t == Count(k)
<1>1. /\ s \in Seq(Nat) /\ Len(s) = j /\ \A i \in 1 .. j : s[i] = i
      /\ t \in Seq(Nat) /\ Len(t) = k /\ \A i \in 1 .. k : t[i] = i
  BY CountIs
<1> HIDE DEF s, t
<1>2. SubSeq(s, 1, j) \in Seq(Nat) /\ Len(SubSeq(s, 1, j)) = j
  BY <1>1
<1>3. SubSeq(t, 1, j) \in Seq(Nat) /\ Len(SubSeq(t, 1, j)) = j
  BY <1>1
<1>4. \A i \in 1 .. j : SubSeq(s, 1, j)[i] = i /\ SubSeq(t, 1, j)[i] = i
  BY <1>1
<1>5. SubSeq(s, 1, j) = SubSeq(t, 1, j)
  BY <1>2, <1>3, <1>4, Equal
<1> QED
  BY <1>1, <1>5 DEF s, t

\* What is under way from write to the host.
DownBounded ==
  /\ heard = Count(Len(heard)) /\ heard \in Seq(Nat) /\ Len(heard) \in Nat /\ written \in Nat
  /\ Len(heard) <= written /\ written <= Len(heard) + (BufLen - 1 + WriteDepth)

LEMMA DownBounds == IInv => DownBounded
<1> SUFFICES ASSUME IInv PROVE DownBounded
  OBVIOUS
<1>1. /\ heard \in Seq(Nat) /\ Len(heard) \in Nat /\ written \in Nat
      /\ wfifo \in Seq(Nat) /\ Len(wfifo) \in Nat /\ Len(wfifo) <= WriteDepth
      /\ tx_in \in Slots /\ tx_out \in Slots
  <2>1. TypeOK
    BY DEF IInv
  <2>2. heard \in Seq(Nat) /\ written \in Nat /\ wfifo \in Seq(Nat)
    BY <2>1 DEF TypeOK
  <2>3. Len(wfifo) <= WriteDepth /\ tx_in \in Slots /\ tx_out \in Slots
    BY <2>1 DEF TypeOK
  <2> QED
    BY <2>2, <2>3
<1>2. /\ \A i \in 1 .. Len(heard) : heard[i] = i
      /\ written = Len(heard) + Len(wfifo) + (Held(tx_out, tx_in) + Unpublished)
  BY <1>1 DEF IInv, TransmitInOrder, InSequence
<1>3. Held(tx_out, tx_in) \in 0 .. BufLen - 1
  BY <1>1, HeldRange
<1>4. Unpublished \in Nat /\ Held(tx_out, tx_in) + Unpublished <= BufLen - 1
  BY <1>3, SizeAssumption DEF IInv, Blocks, Free, Unpublished
<1>5. heard = Count(Len(heard))
  BY <1>1, <1>2, CountOf
<1> QED
  BY <1>1, <1>2, <1>3, <1>4, <1>5, SizeAssumption DEF DownBounded

\* The steps that move a character into or out of the channel to the host.
LEMMA DownMoves ==
  ASSUME IInv, [Next]_vars
  PROVE  \/ heard' = heard /\ written' >= written
         \/ written' = written /\ Len(heard') = Len(heard) + 1
<1>1. heard \in Seq(Nat) /\ wfifo \in Seq(Nat) /\ written \in Nat /\ n \in Nat
  BY SizeAssumption DEF IInv, TypeOK, Slots
<1>2. CASE HostTake
  <2>1. heard' = Append(heard, Head(wfifo)) /\ written' = written
    BY <1>2 DEF HostTake, app
  <2> QED
    BY <1>1, <2>1
<1>3. CASE HostType \/ HostPause \/ Plug \/ Timeout \/ UNCHANGED vars
  BY <1>1, <1>3 DEF HostType, HostPause, Plug, Timeout, vars, hostVars, app
<1>4. CASE Isr
  BY <1>1, <1>4, IsrKeeps DEF hostVars, app
<1>5. CASE Calls \/ Waits \/ Storing \/ Moving
  <2>1. heard' = heard
    BY <1>5, AppKeeps DEF hostVars
  <2>2. written' = written \/ written' = written + n
    <3>1. CASE Calls \/ Waits
      BY <3>1, CallsKeep, WaitsKeep
    <3>2. CASE Storing
      BY <3>2 DEF Storing, WKick, RKick, WStore, RStore, Kick, Store, Goto
    <3>3. CASE Moving
      BY <3>3 DEF Moving, WTake, WCopy, WPublish, RTake, RCopy, RPublish
    <3> QED
      BY <1>5, <3>1, <3>2, <3>3
  <2> QED
    BY <1>1, <2>1, <2>2
<1> QED
  BY <1>2, <1>3, <1>4, <1>5, StepKinds DEF Outside

\* A step of one of the two counts of a channel is a step of the channel.
Moves(w, v, h, g, c) ==
  \/ /\ Count(v) \in Seq(Nat)
     /\ Len(Count(w)) <= Len(Count(v))
     /\ SubSeq(Count(w), 1, Len(Count(w))) = SubSeq(Count(v), 1, Len(Count(w)))
     /\ Count(w) # Count(v)
     /\ Len(Count(v)) <= Len(Count(h)) + c
     /\ Count(g) = Count(h)
  \/ /\ Count(g) \in Seq(Nat)
     /\ Len(Count(h)) <= Len(Count(g))
     /\ SubSeq(Count(h), 1, Len(Count(h))) = SubSeq(Count(g), 1, Len(Count(h)))
     /\ Count(h) # Count(g)
     /\ Len(Count(g)) <= Len(Count(w))
     /\ SubSeq(Count(g), 1, Len(Count(g))) = SubSeq(Count(w), 1, Len(Count(g)))
     /\ Count(v) = Count(w)
  \/ Count(v) = Count(w) /\ Count(g) = Count(h)

LEMMA ChannelMoves ==
  ASSUME NEW w \in Nat, NEW v \in Nat, NEW h \in Nat, NEW g \in Nat, NEW c \in Nat,
         g <= v, v <= g + c, (g = h /\ v >= w) \/ (v = w /\ g > h)
  PROVE  Moves(w, v, h, g, c)
<1> USE DEF Moves
<1>1. /\ Count(v) \in Seq(Nat) /\ Len(Count(v)) = v
      /\ Count(g) \in Seq(Nat) /\ Len(Count(g)) = g
      /\ Len(Count(w)) = w /\ Len(Count(h)) = h
  BY CountIs
<1>2. CASE g = h /\ v > w
  BY <1>1, <1>2, CountGrows
<1>3. CASE v = w /\ g > h
  <2>1. SubSeq(Count(g), 1, Len(Count(g))) = SubSeq(Count(w), 1, Len(Count(g)))
    <3>1. CASE g < w
      BY <3>1, CountGrows
    <3>2. CASE g = w
      BY <3>2
    <3> QED
      BY <1>3, <3>1, <3>2
  <2>2. g <= w
    BY <1>3
  <2> QED
    BY <1>1, <1>3, <2>1, <2>2, CountGrows
<1>4. CASE g = h /\ v = w
  BY <1>4
<1> QED
  BY <1>2, <1>3, <1>4

LEMMA DownStep == IInv /\ IInv' /\ [Next]_vars => [Down!Next]_(Down!chan)
<1> SUFFICES ASSUME IInv, IInv', [Next]_vars PROVE [Down!Next]_(Down!chan)
  OBVIOUS
<1> DEFINE h == Len(heard)
           g == Len(heard')
           w == written
           v == written'
           c == BufLen - 1 + WriteDepth
<1>1. heard = Count(h) /\ h \in Nat /\ w \in Nat /\ c \in Nat
  BY DownBounds, SizeAssumption DEF DownBounded
<1>2. heard' = Count(g) /\ g \in Nat /\ v \in Nat /\ g <= v /\ v <= g + c
  <2>1. DownBounded'
    BY DownBounds, PTL
  <2> QED
    BY <2>1 DEF DownBounded
<1>3. (g = h /\ v >= w) \/ (v = w /\ g > h)
  <2>1. \/ heard' = heard /\ written' >= written
        \/ written' = written /\ Len(heard') = Len(heard) + 1
    BY DownMoves
  <2> QED
    BY <1>1, <2>1
<1>4. Identity(written) = Count(w) /\ Identity(written)' = Count(v)
  BY DEF Identity, Count
<1> HIDE DEF h, g, w, v, c
<1>5. Moves(w, v, h, g, c)
  BY <1>1, <1>2, <1>3, ChannelMoves
<1> QED
  BY <1>1, <1>2, <1>4, <1>5
  DEF Down!Next, Down!Send, Down!Receive, Down!chan, Down!IsPrefix, Down!IsStrictPrefix, Moves, c

\* What is under way from the host to read.
UpBounded ==
  /\ got = Count(Len(got)) /\ got \in Seq(Nat) /\ Len(got) \in Nat /\ typed \in Nat
  /\ Len(got) <= typed /\ typed <= Len(got) + (BufLen - 1 + ReadDepth)

LEMMA UpBounds == IInv => UpBounded
<1> SUFFICES ASSUME IInv PROVE UpBounded
  OBVIOUS
<1>1. /\ got \in Seq(Nat) /\ Len(got) \in Nat /\ typed \in Nat
      /\ rfifo \in Seq(Nat) /\ Len(rfifo) \in Nat /\ Len(rfifo) <= ReadDepth
      /\ rx_in \in Slots /\ rx_out \in Slots /\ n \in Nat
  BY SizeAssumption DEF IInv, TypeOK, Slots
<1>2. /\ \A i \in 1 .. Len(got) : got[i] = i
      /\ Unreleased <= Held(rx_out, rx_in)
      /\ typed = (Len(got) - Unreleased) + Held(rx_out, rx_in) + Len(rfifo)
  BY <1>1 DEF IInv, ReceiveInOrder, InSequence
<1>3. Held(rx_out, rx_in) \in 0 .. BufLen - 1
  BY <1>1, HeldRange
<1>4. Unreleased \in Nat
  BY <1>1 DEF Unreleased
<1>5. got = Count(Len(got))
  BY <1>1, <1>2, CountOf
<1> QED
  BY <1>1, <1>2, <1>3, <1>4, <1>5, SizeAssumption DEF UpBounded

LEMMA UpMoves ==
  ASSUME IInv, [Next]_vars
  PROVE  \/ got' = got /\ typed' >= typed
         \/ typed' = typed /\ Len(got') >= Len(got)
<1>1. /\ got \in Seq(Nat) /\ Len(got) \in Nat /\ typed \in Nat /\ n \in Nat
      /\ rx_buf \in [Slots -> Nat] /\ rx_out \in Slots
  BY SizeAssumption DEF IInv, TypeOK, Slots
<1>2. CASE HostType
  <2>1. typed' = typed + 1 /\ got' = got
    BY <1>2 DEF HostType, app
  <2> QED
    BY <1>1, <2>1
<1>3. CASE HostTake \/ HostPause \/ Plug \/ Timeout \/ UNCHANGED vars
  <2>1. got' = got /\ typed' = typed
    BY <1>3 DEF HostTake, HostPause, Plug, Timeout, vars, hostVars, app
  <2> QED
    BY <1>1, <2>1
<1>4. CASE Isr
  <2>1. got' = got /\ typed' = typed
    BY <1>4, IsrKeeps DEF hostVars, app
  <2> QED
    BY <1>1, <2>1
<1>5. CASE Calls \/ Waits \/ Storing \/ Moving
  <2>1. typed' = typed
    BY <1>5, AppKeeps DEF hostVars
  <2>2. CASE RCopy
    <3> DEFINE taken == [i \in 1 .. n |-> rx_buf[rx_out + i - 1]]
    <3>1. got' = got \o taken
      BY <2>2 DEF RCopy
    <3>2. \A i \in 1 .. n : rx_out + i - 1 \in Slots
      <4>1. rx_out + n <= BufLen
        BY <2>2 DEF RCopy, Run, IInv, Blocks
      <4> QED
        BY <1>1, <4>1, SizeAssumption DEF Slots
    <3>3. taken \in Seq(Nat)
      BY <1>1, <3>2
    <3> HIDE DEF taken
    <3>4. Len(taken) \in Nat /\ Len(got \o taken) = Len(got) + Len(taken)
      BY <1>1, <3>3
    <3> QED
      BY <1>1, <2>1, <3>1, <3>4
  <2>3. CASE ~RCopy
    <3>1. CASE Calls \/ Waits
      BY <1>1, <2>1, <3>1, CallsKeep, WaitsKeep
    <3>2. CASE Storing
      <4>1. got' = got
        BY <3>2 DEF Storing, WKick, RKick, WStore, RStore, Kick, Store, Goto
      <4> QED
        BY <1>1, <2>1, <4>1
    <3>3. CASE Moving
      <4>1. got' = got
        BY <2>3, <3>3 DEF Moving, WTake, WCopy, WPublish, RTake, RPublish
      <4> QED
        BY <1>1, <2>1, <4>1
    <3> QED
      BY <1>5, <3>1, <3>2, <3>3
  <2> QED
    BY <2>2, <2>3
<1> QED
  BY <1>2, <1>3, <1>4, <1>5, StepKinds DEF Outside

LEMMA UpStep == IInv /\ IInv' /\ [Next]_vars => [Up!Next]_(Up!chan)
<1> SUFFICES ASSUME IInv, IInv', [Next]_vars PROVE [Up!Next]_(Up!chan)
  OBVIOUS
<1> DEFINE h == Len(got)
           g == Len(got')
           w == typed
           v == typed'
           c == BufLen - 1 + ReadDepth
<1>1. got = Count(h) /\ h \in Nat /\ w \in Nat /\ c \in Nat
  BY UpBounds, SizeAssumption DEF UpBounded
<1>2. got' = Count(g) /\ g \in Nat /\ v \in Nat /\ g <= v /\ v <= g + c
  <2>1. UpBounded'
    BY UpBounds, PTL
  <2> QED
    BY <2>1 DEF UpBounded
<1>3. (g = h /\ v >= w) \/ (v = w /\ g > h)
  <2>1. (got' = got /\ typed' >= typed) \/ (typed' = typed /\ Len(got') >= Len(got))
    BY UpMoves
  <2> QED
    BY <1>1, <1>2, <2>1
<1>4. Identity(typed) = Count(w) /\ Identity(typed)' = Count(v)
  BY DEF Identity, Count
<1> HIDE DEF h, g, w, v, c
<1>5. Moves(w, v, h, g, c)
  BY <1>1, <1>2, <1>3, ChannelMoves
<1> QED
  BY <1>1, <1>2, <1>4, <1>5
  DEF Up!Next, Up!Send, Up!Receive, Up!chan, Up!IsPrefix, Up!IsStrictPrefix, Moves, c

\* What is under way from write to the line: at most one character in the port,
\* and in the ring one less than its slots, the one not yet published included.
WireBounded ==
  /\ line_out = Count(Len(line_out)) /\ line_out \in Seq(Nat) /\ Len(line_out) \in Nat
  /\ accepted \in Nat /\ Len(line_out) <= accepted /\ accepted <= Len(line_out) + RingLen

LEMMA WireBounds == UartInv => WireBounded
<1> SUFFICES ASSUME UartInv PROVE WireBounded
  OBVIOUS
<1> DEFINE ring == Between(txbuf, tx_start, tx_end)
           body == (line_out \o Holding) \o ring
           all == body \o UnderWay
<1>1. /\ line_out \in Seq(Nat) /\ Len(line_out) \in Nat /\ txdata \in Nat /\ accepted \in Nat
      /\ txbuf \in [Ring -> Nat] /\ tx_start \in Ring /\ tx_end \in Ring /\ RingLen \in Nat
  BY RingAssumption DEF UartInv, UartTypeOK
<1>2. Holding \in Seq(Nat) /\ Len(Holding) \in 0 .. 1
  BY <1>1 DEF Holding
<1>3. UnderWay \in Seq(Nat) /\ Len(UnderWay) = IF place = "wPublish" THEN 1 ELSE 0
  BY <1>1 DEF UnderWay
<1>4. ring \in Seq(Nat) /\ Len(ring) \in 0 .. RingLen - 1
  BY <1>1, BetweenIs, DistanceIs
<1>5. place = "wPublish" => Len(ring) < RingLen - 1
  <2> SUFFICES ASSUME place = "wPublish" PROVE Len(ring) < RingLen - 1
    OBVIOUS
  <2>1. After(tx_end) # tx_start
    BY DEF UartInv, Sending
  <2>2. After(tx_end) \in Ring /\ Distance(tx_start, After(tx_end)) = Distance(tx_start, tx_end) + 1
    BY <1>1, <2>1, AfterIs, DistanceAfter
  <2>3. Distance(tx_start, After(tx_end)) \in 0 .. RingLen - 1 /\ Distance(tx_start, tx_end) \in Nat
    BY <1>1, <2>2, DistanceIs
  <2>4. Len(ring) = Distance(tx_start, tx_end)
    BY <1>1, BetweenIs
  <2> QED
    BY <1>1, <2>2, <2>3, <2>4
<1>6. all = Count(accepted)
  BY DEF UartInv, UartTransmits, Numbers, Count
<1> HIDE DEF ring
<1>7. /\ (line_out \o Holding) \in Seq(Nat)
      /\ Len(line_out \o Holding) = Len(line_out) + Len(Holding)
      /\ \A i \in 1 .. Len(line_out) : (line_out \o Holding)[i] = line_out[i]
  BY <1>1, <1>2
<1>8. /\ body \in Seq(Nat)
      /\ Len(body) = Len(line_out) + Len(Holding) + Len(ring)
      /\ \A i \in 1 .. Len(line_out) : body[i] = line_out[i]
  BY <1>1, <1>2, <1>4, <1>7
<1> HIDE DEF body
<1>9. /\ Len(all) = Len(body) + Len(UnderWay)
      /\ \A i \in 1 .. Len(line_out) : all[i] = line_out[i]
  <2>1. 1 .. Len(line_out) \subseteq 1 .. Len(body)
    BY <1>1, <1>2, <1>4, <1>8
  <2>2. Len(all) = Len(body) + Len(UnderWay) /\ \A i \in 1 .. Len(body) : all[i] = body[i]
    <3>1. body \in Seq(Nat) /\ UnderWay \in Seq(Nat)
      BY <1>3, <1>8
    <3> QED
      BY <3>1
  <2> QED
    BY <1>8, <2>1, <2>2
<1> HIDE DEF all
<1>10. Len(all) = accepted /\ \A i \in 1 .. accepted : all[i] = i
  BY <1>1, <1>6, CountIs DEF all, body
<1>11. Len(line_out) <= accepted /\ accepted <= Len(line_out) + RingLen
  <2>1. accepted = Len(line_out) + Len(Holding) + Len(ring) + Len(UnderWay)
    BY <1>8, <1>9, <1>10
  <2> DEFINE p == Len(line_out)
             q == Len(Holding)
             r == Len(ring)
             u == Len(UnderWay)
  <2>2. p \in Nat /\ q \in Nat /\ r \in Nat /\ u \in Nat /\ q <= 1 /\ r + u <= RingLen - 1
    <3>1. p \in Nat /\ q \in 0 .. 1 /\ r \in 0 .. RingLen - 1
      BY <1>1, <1>2, <1>4
    <3>2. u = IF place = "wPublish" THEN 1 ELSE 0
      BY <1>3
    <3>3. place = "wPublish" => r < RingLen - 1
      BY <1>5
    <3> HIDE DEF p, q, r, u
    <3> QED
      BY <1>1, <3>1, <3>2, <3>3
  <2> HIDE DEF p, q, r, u
  <2>3. p <= p + q + r + u /\ p + q + r + u <= p + RingLen
    BY <1>1, <2>2
  <2> QED
    BY <2>1, <2>3 DEF p, q, r, u
<1>12. \A i \in 1 .. Len(line_out) : line_out[i] = i
  BY <1>1, <1>9, <1>10, <1>11
<1>13. line_out = Count(Len(line_out))
  BY <1>1, <1>12, CountOf
<1> QED
  BY <1>1, <1>11, <1>13 DEF WireBounded

LEMMA WireMoves ==
  ASSUME UartInv, [UartNext]_uartVars
  PROVE  \/ line_out' = line_out /\ accepted' >= accepted
         \/ accepted' = accepted /\ Len(line_out') = Len(line_out) + 1
<1>1. line_out \in Seq(Nat) /\ txdata \in Nat /\ accepted \in Nat
  BY DEF UartInv, UartTypeOK
<1>2. CASE LineOut
  <2>1. line_out' = Append(line_out, txdata) /\ accepted' = accepted
    BY <1>2 DEF LineOut, call
  <2> QED
    BY <1>1, <2>1
<1>3. CASE WritePut
  <2>1. line_out' = line_out /\ accepted' = accepted + 1
    BY <1>3 DEF WritePut, At, line
  <2> QED
    BY <1>1, <2>1
<1>4. CASE IrqTx \/ WritePublish
  <2>1. line_out' = line_out /\ accepted' = accepted
    BY <1>4 DEF IrqTx, Routine, WritePublish, At, line, call
  <2> QED
    BY <1>1, <2>1
<1>5. CASE ~LineOut /\ ~IrqTx /\ ~WritePut /\ ~WritePublish
  BY <1>1, <1>5, OtherSteps DEF SendsNothing
<1> QED
  BY <1>2, <1>3, <1>4, <1>5

LEMMA WireStep == UartInv /\ UartInv' /\ [UartNext]_uartVars => [Wire!Next]_(Wire!chan)
<1> SUFFICES ASSUME UartInv, UartInv', [UartNext]_uartVars PROVE [Wire!Next]_(Wire!chan)
  OBVIOUS
<1> DEFINE h == Len(line_out)
           g == Len(line_out')
           w == accepted
           v == accepted'
<1>1. line_out = Count(h) /\ h \in Nat /\ w \in Nat /\ RingLen \in Nat
  BY WireBounds, RingAssumption DEF WireBounded
<1>2. line_out' = Count(g) /\ g \in Nat /\ v \in Nat /\ g <= v /\ v <= g + RingLen
  <2>1. WireBounded'
    BY WireBounds, PTL
  <2> QED
    BY <2>1 DEF WireBounded
<1>3. (g = h /\ v >= w) \/ (v = w /\ g > h)
  <2>1. \/ line_out' = line_out /\ accepted' >= accepted
        \/ accepted' = accepted /\ Len(line_out') = Len(line_out) + 1
    BY WireMoves
  <2> QED
    BY <1>1, <2>1
<1>4. Numbers(accepted) = Count(w) /\ Numbers(accepted)' = Count(v)
  BY DEF Numbers, Count
<1> HIDE DEF h, g, w, v
<1>5. Moves(w, v, h, g, RingLen)
  BY <1>1, <1>2, <1>3, ChannelMoves
<1> QED
  BY <1>1, <1>2, <1>4, <1>5
  DEF Wire!Next, Wire!Send, Wire!Receive, Wire!chan, Wire!IsPrefix, Wire!IsStrictPrefix, Moves

\* No character is under way when a driver starts.
LEMMA ChannelsEmpty ==
  /\ Init => Down!Init /\ Up!Init
  /\ UartInit => Wire!Init
<1>1. Identity(0) = <<>> /\ Numbers(0) = <<>>
  <2>1. Count(0) = <<>>
    BY CountIs
  <2> QED
    BY <2>1 DEF Identity, Numbers, Count
<1> QED
  BY <1>1 DEF Init, UartInit, Down!Init, Up!Init, Wire!Init

-----------------------------------------------------------------------------
(* The drivers together. *)

DriversInv == IInv /\ UartInv /\ AlarmInv

LEMMA DriversSteps ==
  [DriversNext]_driversVars => [Next]_vars /\ [UartNext]_uartVars /\ [AlarmNext]_alarmVars
  BY DEF DriversNext, driversVars, Jtag, Serial, Clock

LEMMA DriversInvariance == DriversSpec => []DriversInv
<1>1. DriversInit => DriversInv
  BY Initially, UartInitially, AlarmInitially DEF DriversInit, DriversInv
<1>2. DriversInv /\ [DriversNext]_driversVars => DriversInv'
  BY DriversSteps, InvStep, UartInvStep, AlarmInvStep DEF DriversInv
<1> QED
  BY <1>1, <1>2, PTL DEF DriversSpec

\* Whichever of the drivers a program uses, the state of all of them and of
\* their devices stays within its types.
THEOREM DriversTypeCorrect == DriversSpec => []DriversTypeOK
<1>1. DriversInv => DriversTypeOK
  BY DEF DriversInv, IInv, UartInv, AlarmInv, DriversTypeOK
<1> QED
  BY <1>1, DriversInvariance, PTL

\* Driver, rings, interrupt routine and device of either serial port implement
\* a bounded first-in first-out channel, in each direction of the JTAG UART and
\* in the sending direction of the other, for all sizes of rings and FIFOs:
\* what arrives is what was sent, and never more is under way than they hold.
THEOREM ChannelsRefined == DriversSpec => DriversChannels
<1>1. DriversInit => Down!Init /\ Up!Init /\ Wire!Init
  BY ChannelsEmpty DEF DriversInit
<1>2. /\ DriversInv => IInv /\ UartInv
      /\ DriversInv' => IInv' /\ UartInv'
  BY DEF DriversInv
<1>3. DriversInv /\ DriversInv' /\ [DriversNext]_driversVars =>
        [Down!Next]_(Down!chan) /\ [Up!Next]_(Up!chan) /\ [Wire!Next]_(Wire!chan)
  BY <1>2, DriversSteps, DownStep, UpStep, WireStep
<1> QED
  BY <1>1, <1>3, DriversInvariance, PTL
  DEF DriversSpec, DriversChannels, Channels, UartChannel, Down!Spec, Up!Spec, Wire!Spec

\* altera_avalon_jtag_uart_*.c, altera_avalon_uart_*.c and alt_alarm_start.c
\* with alt_tick.c side by side, as in one program: every character is in one
\* place and in order, no interrupt is left off with work waiting, and no alarm
\* is called early, late or twice, for rings, FIFOs and alarm lists of any size.
THEOREM DriversCorrect ==
  DriversSpec => [](/\ TransmitInOrder /\ ReceiveInOrder /\ NoLostWakeup
                    /\ UartTransmits /\ UartReceives /\ UartNoLostWakeup
                    /\ OnTime)
<1>1. IInv => TransmitInOrder /\ ReceiveInOrder /\ NoLostWakeup
  BY DEF IInv
<1>2. UartInv => UartTransmits /\ UartReceives /\ UartNoLostWakeup
  BY DEF UartInv
<1>3. DriversInv => /\ TransmitInOrder /\ ReceiveInOrder /\ NoLostWakeup
                    /\ UartTransmits /\ UartReceives /\ UartNoLostWakeup
                    /\ OnTime
  BY <1>1, <1>2, OnTimeMeans DEF DriversInv
<1> QED
  BY <1>3, DriversInvariance, PTL
=============================================================================
