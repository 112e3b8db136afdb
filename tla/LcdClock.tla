------------------------------ MODULE LcdClock ------------------------------
(***************************************************************************)
(* The time-keeping half of the lab 7 "Better Circuit": entity clock       *)
(* (clock.vhd), six BCD digits and an AM/PM flag clocked once a second by  *)
(* clk_div.  One action is one rising edge of clk with the buttons as they *)
(* are at that edge; a button is pressed when it reads 0.                  *)
(*                                                                         *)
(* The process has four sections, one after the other, that assign to the  *)
(* same signals; the last assignment made at an edge is the one that       *)
(* counts.                                                                 *)
(***************************************************************************)
EXTENDS Integers

VARIABLES seclsb, secmsb, minlsb, minmsb, hrlsb, hrmsb, hflag

clockVars == <<seclsb, secmsb, minlsb, minmsb, hrlsb, hrmsb, hflag>>
-----------------------------------------------------------------------------
\* The nested IFs of the first section: this edge carries into the minutes,
\* into the hours.
MinuteCarry == seclsb = 9 /\ secmsb = 5
HourCarry   == MinuteCarry /\ minlsb = 9 /\ minmsb = 5
Twelve      == hrmsb = 1 /\ hrlsb = 2

\* "lsb <= lsb + 1", corrected to 0 with a carry into msb when lsb was 9.
Lsb(lsb) == IF lsb = 9 THEN 0 ELSE lsb + 1
Msb(lsb, msb, top) ==
  IF lsb # 9 THEN msb ELSE IF msb = top THEN 0 ELSE msb + 1

Seconds(sec_zero) ==
  /\ seclsb' = IF sec_zero = 0 THEN 0 ELSE Lsb(seclsb)
  /\ secmsb' = IF sec_zero = 0 THEN 0 ELSE Msb(seclsb, secmsb, 5)

\* min_add assigns what a carry would assign: together they add one.
Minutes(min_add) ==
  IF MinuteCarry \/ min_add = 0
  THEN minlsb' = Lsb(minlsb) /\ minmsb' = Msb(minlsb, minmsb, 5)
  ELSE UNCHANGED <<minlsb, minmsb>>

Hours_NineToTen(hr_add) ==
  /\ IF HourCarry \/ hr_add = 0
     THEN IF Twelve THEN hrlsb' = 1 /\ hrmsb' = 0
                    ELSE hrlsb' = hrlsb + 1 /\ hrmsb' = hrmsb
     ELSE UNCHANGED <<hrlsb, hrmsb>>
  /\ hflag' = IF HourCarry /\ Twelve THEN 1 - hflag ELSE hflag

Hours_ButtonFlipsHalf(hr_add) ==
  /\ IF HourCarry \/ hr_add = 0
     THEN IF Twelve THEN hrlsb' = 1 /\ hrmsb' = 0
                    ELSE hrlsb' = Lsb(hrlsb) /\ hrmsb' = Msb(hrlsb, hrmsb, 2)
     ELSE UNCHANGED <<hrlsb, hrmsb>>
  /\ hflag' = IF (HourCarry \/ hr_add = 0) /\ Twelve THEN 1 - hflag ELSE hflag

\* Likewise the hours; only the carry, not hr_add, toggles hflag.  hrmsb has
\* no upper limit of its own: from 9 the hours go to 10 and from 12 to 1.
Hours(hr_add) ==
  /\ IF HourCarry \/ hr_add = 0
     THEN IF Twelve THEN hrlsb' = 1 /\ hrmsb' = 0
                    ELSE hrlsb' = Lsb(hrlsb) /\ hrmsb' = Msb(hrlsb, hrmsb, 2)
     ELSE UNCHANGED <<hrlsb, hrmsb>>
  /\ hflag' = IF HourCarry /\ Twelve THEN 1 - hflag ELSE hflag

RisingEdge(hr_add, min_add, sec_zero) ==
  Seconds(sec_zero) /\ Minutes(min_add) /\ Hours(hr_add)

\* The initial values of the signals, 12:00:00; the FPGA is configured with them.
LcdClockInit ==
  /\ seclsb = 0 /\ secmsb = 0 /\ minlsb = 0 /\ minmsb = 0
  /\ hrlsb = 2 /\ hrmsb = 1 /\ hflag = 1

LcdClockNext == \E hr_add, min_add, sec_zero \in {0, 1} : RisingEdge(hr_add, min_add, sec_zero)

LcdClockSpec == LcdClockInit /\ [][LcdClockNext]_clockVars
-----------------------------------------------------------------------------
\* The digits as numbers.
hour   == 10 * hrmsb + hrlsb
minute == 10 * minmsb + minlsb
second == 10 * secmsb + seclsb

(* Type invariant: the digits always read as a time of day, which is       *)
(* narrower than the ranges the signals are declared with.                 *)
LcdClockTypeOK ==
  /\ seclsb \in 0 .. 9 /\ secmsb \in 0 .. 5
  /\ minlsb \in 0 .. 9 /\ minmsb \in 0 .. 5
  /\ hrlsb \in 0 .. 9 /\ hrmsb \in 0 .. 1
  /\ hour \in 1 .. 12 /\ hflag \in {0, 1}

Abstract == INSTANCE ClockSpec WITH half <- hflag

(* The cascade of digits and last assignments is the settable clock of     *)
(* ClockSpec, for every combination of buttons at every edge.              *)
ImplementsClockSpec == Abstract!Spec
=============================================================================
