------------------------------ MODULE TimedFsm ------------------------------
(***************************************************************************)
(* The timed state machine of Intro FPLDs HW 6 (hw6.vhd), a debouncer: y   *)
(* follows x when x has been stable for long enough.  A step is a rising   *)
(* edge of clk or of rst.  count is a variable of the process and survives *)
(* a reset; in hardware it has the bits for 0 .. time2 and wraps.          *)
(***************************************************************************)
EXTENDS Naturals

CONSTANTS
  time1, time2,     \* the generics, 3 and 5
  CountRange,       \* values of the register that holds 0 .. time2, 8
  MaxRun            \* bound on the history of equal samples

ASSUME TimesAssumption ==
  /\ {time1, time2} \subseteq Nat \ {0} /\ time1 <= time2
  /\ CountRange \in Nat /\ CountRange > time2
  /\ MaxRun \in Nat /\ MaxRun >= time2

VARIABLES
  pr_state, counted,    \* state; the variable count
  x, stable             \* history: last sample, samples in a row equal to it

fsmVars == <<pr_state, counted, x, stable>>

T == [A |-> 1, B |-> time1, C |-> 2, D |-> time2]
input1 == [A |-> 1, B |-> 1, C |-> 0, D |-> 0]      \* a latch, set in A and C
nx_state == [A |-> "B", B |-> "C", C |-> "D", D |-> "A"]
y == IF pr_state \in {"C", "D"} THEN 1 ELSE 0

FsmInit ==
  /\ pr_state = "A" /\ counted \in 0 .. CountRange - 1
  /\ x \in {0, 1} /\ stable = 0

FsmReset == pr_state' = "A" /\ UNCHANGED <<counted, x, stable>>

\* Mutant: a sample of the other value does not start the count again.
Count_Kept(sample) ==
  LET more == (counted + 1) % CountRange
  IN IF sample # input1[pr_state] THEN UNCHANGED <<counted, pr_state>>
     ELSE IF more = T[pr_state] THEN counted' = 0 /\ pr_state' = nx_state[pr_state]
     ELSE counted' = more /\ UNCHANGED pr_state

Count(sample) ==
  LET more == (counted + 1) % CountRange
  IN IF sample # input1[pr_state] THEN counted' = 0 /\ UNCHANGED pr_state
     ELSE IF more = T[pr_state] THEN counted' = 0 /\ pr_state' = nx_state[pr_state]
     ELSE counted' = more /\ UNCHANGED pr_state

FsmClock(sample) ==
  /\ Count(sample)
  /\ x' = sample
  /\ stable' = IF sample # x THEN 1 ELSE IF stable < MaxRun THEN stable + 1 ELSE stable

FsmNext == FsmReset \/ \E sample \in {0, 1} : FsmClock(sample)

FsmSpec == FsmInit /\ [][FsmNext]_fsmVars

-----------------------------------------------------------------------------
(* Properties *)

FsmTypeOK ==
  /\ pr_state \in DOMAIN T /\ counted \in 0 .. CountRange - 1
  /\ x \in {0, 1} /\ stable \in 0 .. MaxRun

\* y rises only when x has been 1 for time1 samples, and falls other than by a
\* reset only when it has been 0 for time2, also after a reset that has left
\* the old count behind.
Debounced ==
  [][ /\ y < y' => x' = 1 /\ stable' >= time1
      /\ y > y' => FsmReset \/ (x' = 0 /\ stable' >= time2) ]_fsmVars

=============================================================================
