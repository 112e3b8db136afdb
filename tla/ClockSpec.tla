------------------------------ MODULE ClockSpec ------------------------------
(***************************************************************************)
(* What a settable 12-hour clock promises: hour, minute and second as      *)
(* numbers and the half of the day, once a second.                         *)
(*                                                                         *)
(* Time goes on whatever is pressed.  Zeroing stops the second count at 0  *)
(* but lets the minute it completes pass; setting the minutes or the hours *)
(* moves them one on, and a step that is due anyway is not made twice;     *)
(* only time itself, not a button, turns one half of the day into the      *)
(* other, and a minute set past 59 leaves the hour alone.                  *)
(***************************************************************************)
EXTENDS Integers

VARIABLES hour, minute, second, half

vars == <<hour, minute, second, half>>

TypeOK ==
  /\ hour \in 1 .. 12 /\ minute \in 0 .. 59 /\ second \in 0 .. 59
  /\ half \in {0, 1}

Init == hour = 12 /\ minute = 0 /\ second = 0 /\ half = 1

Second(setHour, setMinute, zero) ==
  LET minuteDue == second = 59
      hourDue   == minuteDue /\ minute = 59
  IN /\ second' = IF zero THEN 0 ELSE (second + 1) % 60
     /\ minute' = IF minuteDue \/ setMinute THEN (minute + 1) % 60 ELSE minute
     /\ hour'   = IF hourDue \/ setHour THEN (hour % 12) + 1 ELSE hour
     /\ half'   = IF hourDue /\ hour = 12 THEN 1 - half ELSE half

Next == \E setHour, setMinute, zero \in BOOLEAN : Second(setHour, setMinute, zero)

Spec == Init /\ [][Next]_vars
=============================================================================
