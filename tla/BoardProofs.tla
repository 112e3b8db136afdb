---------------------------- MODULE BoardProofs ----------------------------
(***************************************************************************)
(* The small designs of the repository: the clock and the display writer   *)
(* of lab 7, the timed state machine, and of the media computer the moving *)
(* word and the polled recorder.  Each is proved for itself, for every     *)
(* value of its constants; in the end all of them, SCOMP included, for the *)
(* board that carries one of them.                                         *)
(***************************************************************************)
EXTENDS Board, ScompProofs, SequenceTheorems

-----------------------------------------------------------------------------
(* The clock of lab 7: its digits always read as a time of day, and the    *)
(* cascade implements the settable clock of ClockSpec.                     *)

LEMMA ClockStepType ==
  ASSUME LcdClockTypeOK, NEW hr_add \in {0, 1}, NEW min_add \in {0, 1}, NEW sec_zero \in {0, 1},
         RisingEdge(hr_add, min_add, sec_zero)
  PROVE  LcdClockTypeOK'
<1>1. seclsb' \in 0 .. 9 /\ secmsb' \in 0 .. 5
  BY DEF LcdClockTypeOK, RisingEdge, Seconds, Lsb, Msb
<1>2. minlsb' \in 0 .. 9 /\ minmsb' \in 0 .. 5
  BY DEF LcdClockTypeOK, RisingEdge, Minutes, Lsb, Msb
<1>3. hrlsb' \in 0 .. 9 /\ hrmsb' \in 0 .. 1 /\ 10 * hrmsb' + hrlsb' \in 1 .. 12
  BY DEF LcdClockTypeOK, RisingEdge, Hours, Twelve, Lsb, Msb, hour
<1>4. hflag' \in {0, 1}
  BY DEF LcdClockTypeOK, RisingEdge, Hours
<1> QED
  BY <1>1, <1>2, <1>3, <1>4 DEF LcdClockTypeOK, hour

LEMMA ClockInitially == LcdClockInit => LcdClockTypeOK
  BY DEF LcdClockInit, LcdClockTypeOK, hour

LEMMA ClockTypeStep == LcdClockTypeOK /\ [LcdClockNext]_clockVars => LcdClockTypeOK'
<1>1. LcdClockTypeOK /\ UNCHANGED clockVars => LcdClockTypeOK'
  BY DEF clockVars, LcdClockTypeOK, hour
<1> QED
  BY <1>1, ClockStepType DEF LcdClockNext

(* The six digits always show an hour from 1 to 12, a minute and a second, *)
(* whatever buttons are held at whatever edges.                            *)
THEOREM ClockTypeCorrect == LcdClockSpec => []LcdClockTypeOK
  BY ClockInitially, ClockTypeStep, PTL DEF LcdClockSpec

(* A pair of digits that counts to 59 is a number modulo 60.               *)
LEMMA PairCounts ==
  ASSUME NEW lsb \in 0 .. 9, NEW msb \in 0 .. 5
  PROVE  /\ 10 * Msb(lsb, msb, 5) + Lsb(lsb) = ((10 * msb + lsb) + 1) % 60
         /\ (10 * msb + lsb = 59) <=> (lsb = 9 /\ msb = 5)
<1>1. CASE lsb = 9 /\ msb = 5
  BY <1>1 DEF Msb, Lsb
<1>2. CASE ~(lsb = 9 /\ msb = 5)
  <2>1. 10 * msb + lsb \in 0 .. 58
    BY <1>2
  <2>2. 10 * Msb(lsb, msb, 5) + Lsb(lsb) = (10 * msb + lsb) + 1
    BY <1>2 DEF Msb, Lsb
  <2> QED
    BY <2>1, <2>2, <1>2
<1> QED
  BY <1>1, <1>2

LEMMA ClockStepRefines ==
  ASSUME LcdClockTypeOK, NEW hr_add \in {0, 1}, NEW min_add \in {0, 1}, NEW sec_zero \in {0, 1},
         RisingEdge(hr_add, min_add, sec_zero)
  PROVE  Abstract!Second(hr_add = 0, min_add = 0, sec_zero = 0)
<1>1. MinuteCarry <=> second = 59
  BY PairCounts DEF LcdClockTypeOK, MinuteCarry, second
<1>2. HourCarry <=> second = 59 /\ minute = 59
  BY <1>1, PairCounts DEF LcdClockTypeOK, HourCarry, minute
<1>3. second' = IF sec_zero = 0 THEN 0 ELSE (second + 1) % 60
  <2>1. second' = 10 * secmsb' + seclsb'
    BY DEF second
  <2> QED
    BY <2>1, PairCounts DEF LcdClockTypeOK, RisingEdge, Seconds, second
<1>4. minute' = IF second = 59 \/ min_add = 0 THEN (minute + 1) % 60 ELSE minute
  <2>1. minute' = 10 * minmsb' + minlsb'
    BY DEF minute
  <2> QED
    BY <1>1, <2>1, PairCounts DEF LcdClockTypeOK, RisingEdge, Minutes, minute
<1>5. Twelve <=> hour = 12
  BY DEF LcdClockTypeOK, Twelve, hour
<1>6. hour' = IF (second = 59 /\ minute = 59) \/ hr_add = 0 THEN (hour % 12) + 1 ELSE hour
  <2>1. hour' = 10 * hrmsb' + hrlsb'
    BY DEF hour
  <2>2. CASE Twelve
    BY <1>2, <1>5, <2>1, <2>2 DEF LcdClockTypeOK, RisingEdge, Hours, hour
  <2>3. CASE ~Twelve
    <3>1. hour \in 1 .. 11 /\ hour % 12 = hour
      BY <1>5, <2>3 DEF LcdClockTypeOK
    <3> QED
      BY <1>2, <2>1, <2>3, <3>1 DEF LcdClockTypeOK, RisingEdge, Hours, Lsb, Msb, hour
  <2> QED
    BY <2>2, <2>3
<1>7. hflag' = IF (second = 59 /\ minute = 59) /\ hour = 12 THEN 1 - hflag ELSE hflag
  BY <1>2, <1>5 DEF RisingEdge, Hours
<1> QED
  BY <1>3, <1>4, <1>6, <1>7 DEF Abstract!Second

LEMMA ClockMapsInitially == LcdClockInit => Abstract!Init
  BY DEF LcdClockInit, Abstract!Init, hour, minute, second

LEMMA ClockMapsStep == LcdClockTypeOK /\ [LcdClockNext]_clockVars => [Abstract!Next]_(Abstract!vars)
<1>1. ASSUME LcdClockTypeOK, LcdClockNext PROVE Abstract!Next
  <2>1. PICK hr_add \in {0, 1}, min_add \in {0, 1}, sec_zero \in {0, 1} :
          RisingEdge(hr_add, min_add, sec_zero)
    BY <1>1 DEF LcdClockNext
  <2>2. Abstract!Second(hr_add = 0, min_add = 0, sec_zero = 0)
    BY <1>1, <2>1, ClockStepRefines
  <2> QED
    BY <2>2 DEF Abstract!Next
<1>2. UNCHANGED clockVars => UNCHANGED Abstract!vars
  BY DEF clockVars, Abstract!vars, hour, minute, second
<1> QED
  BY <1>1, <1>2

(* Every behaviour of the digits is a behaviour of the settable clock.     *)
THEOREM ClockRefinement == LcdClockSpec => ImplementsClockSpec
  BY ClockMapsInitially, ClockMapsStep, ClockTypeCorrect, PTL
     DEF LcdClockSpec, ImplementsClockSpec, Abstract!Spec

-----------------------------------------------------------------------------
(* The timed state machine: its output follows only an input that has been *)
(* stable for long enough, for every pair of times and every width of the  *)
(* counter.                                                                *)

\* In the two states with a time of their own the count is the length of the
\* present run of the awaited sample.  In A and C it may be anything that a
\* reset has left behind.
Counted(awaited, samples) ==
  /\ counted < samples
  /\ counted > 0 => x = awaited /\ stable >= counted

FsmInv ==
  /\ FsmTypeOK
  /\ pr_state = "B" => Counted(1, time1)
  /\ pr_state = "D" => Counted(0, time2)

LEMMA Tables ==
  /\ DOMAIN T = {"A", "B", "C", "D"}
  /\ T["A"] = 1 /\ T["B"] = time1 /\ T["C"] = 2 /\ T["D"] = time2
  /\ input1["A"] = 1 /\ input1["B"] = 1 /\ input1["C"] = 0 /\ input1["D"] = 0
  /\ nx_state["A"] = "B" /\ nx_state["B"] = "C" /\ nx_state["C"] = "D" /\ nx_state["D"] = "A"
  BY DEF T, input1, nx_state

\* What one edge does in a state that waits for the sample awaited, time times.
LEMMA FsmCountStep ==
  ASSUME FsmInv, NEW q, pr_state = q, NEW sample \in {0, 1}, FsmClock(sample)
  PROVE  /\ x' = sample /\ stable' \in 0 .. MaxRun
         /\ counted' \in 0 .. CountRange - 1
         /\ pr_state' # q => counted' = 0 /\ pr_state' = nx_state[q] /\ sample = input1[q]
         /\ q \in {"B", "D"} =>
              counted' < T[q] /\ (counted' > 0 => x' = input1[q] /\ stable' >= counted')
         /\ q \in {"B", "D"} /\ pr_state' # q => stable' >= T[q]
<1> DEFINE more == (counted + 1) % CountRange
<1>1. /\ counted \in 0 .. CountRange - 1 /\ CountRange \in Nat \ {0}
      /\ stable \in 0 .. MaxRun /\ MaxRun \in Nat /\ x \in {0, 1}
      /\ time1 \in Nat \ {0} /\ time2 \in Nat \ {0} /\ time2 < CountRange
      /\ time1 <= time2 /\ time2 <= MaxRun
  BY TimesAssumption DEF FsmInv, FsmTypeOK
<1>2. more \in 0 .. CountRange - 1
  BY <1>1
<1>3. \/ sample # input1[q] /\ counted' = 0 /\ pr_state' = q
      \/ sample = input1[q] /\ more = T[q] /\ counted' = 0 /\ pr_state' = nx_state[q]
      \/ sample = input1[q] /\ more # T[q] /\ counted' = more /\ pr_state' = q
  BY DEF FsmClock, Count
<1>4. x' = sample /\ stable' = IF sample # x THEN 1 ELSE IF stable < MaxRun THEN stable + 1 ELSE stable
  BY DEF FsmClock
<1>5. x' = sample /\ stable' \in 0 .. MaxRun
  BY <1>1, <1>4
<1>6. counted' \in 0 .. CountRange - 1
  BY <1>1, <1>2, <1>3
<1>7. ASSUME q \in {"B", "D"}
      PROVE  /\ counted' < T[q] /\ (counted' > 0 => x' = input1[q] /\ stable' >= counted')
             /\ pr_state' # q => stable' >= T[q]
  <2>1. T[q] \in 1 .. MaxRun /\ T[q] < CountRange
    BY <1>1, <1>7, Tables
  <2>2. counted < T[q] /\ (counted > 0 => x = input1[q] /\ stable >= counted)
    BY <1>7, Tables DEF FsmInv, Counted
  <2>3. more = counted + 1
    BY <2>1, <2>2, <1>1
  <2>4. sample = input1[q] => stable' >= counted + 1
    BY <2>1, <2>2, <1>1, <1>4
  <2> QED
    BY <2>1, <2>2, <2>3, <2>4, <1>1, <1>3, <1>4
<1> QED
  BY <1>1, <1>3, <1>5, <1>6, <1>7

LEMMA FsmClockStep == ASSUME FsmInv, NEW sample \in {0, 1}, FsmClock(sample) PROVE FsmInv'
<1>1. pr_state \in {"A", "B", "C", "D"}
  BY Tables DEF FsmInv, FsmTypeOK
<1>2. pr_state' \in {"A", "B", "C", "D"}
  BY <1>1, FsmCountStep, Tables
<1>3. FsmTypeOK'
  BY <1>2, FsmCountStep, Tables DEF FsmTypeOK
<1>4. ASSUME pr_state' = "B" PROVE Counted(1, time1)'
  BY <1>1, <1>4, FsmCountStep, Tables, TimesAssumption DEF Counted
<1>5. ASSUME pr_state' = "D" PROVE Counted(0, time2)'
  BY <1>1, <1>5, FsmCountStep, Tables, TimesAssumption DEF Counted
<1> QED
  BY <1>3, <1>4, <1>5 DEF FsmInv

LEMMA FsmInitially == FsmInit => FsmInv
  BY Tables, TimesAssumption DEF FsmInit, FsmInv, FsmTypeOK

LEMMA FsmStep == FsmInv /\ [FsmNext]_fsmVars => FsmInv'
<1>1. FsmInv /\ FsmReset => FsmInv'
  BY Tables DEF FsmReset, FsmInv, FsmTypeOK
<1>2. FsmInv /\ UNCHANGED fsmVars => FsmInv'
  BY DEF fsmVars, FsmInv, FsmTypeOK, Counted
<1> QED
  BY <1>1, <1>2, FsmClockStep DEF FsmNext

LEMMA FsmInvariance == FsmSpec => []FsmInv
  BY FsmInitially, FsmStep, PTL DEF FsmSpec

\* What a step may do to the output.
HeldSteady ==
  /\ y < y' => x' = 1 /\ stable' >= time1
  /\ y > y' => FsmReset \/ (x' = 0 /\ stable' >= time2)

LEMMA SteadyStep == FsmInv /\ [FsmNext]_fsmVars => [HeldSteady]_fsmVars
<1> SUFFICES ASSUME FsmInv, [FsmNext]_fsmVars PROVE [HeldSteady]_fsmVars
  OBVIOUS
<1>1. CASE UNCHANGED fsmVars
  BY <1>1
<1>2. CASE FsmReset
  BY <1>2 DEF FsmReset, y, HeldSteady
<1>3. ASSUME NEW sample \in {0, 1}, FsmClock(sample) PROVE HeldSteady
  <2>1. pr_state \in {"A", "B", "C", "D"}
    BY Tables DEF FsmInv, FsmTypeOK
  <2> QED
    BY <2>1, <1>3, FsmCountStep, Tables DEF y, HeldSteady
<1> QED
  BY <1>1, <1>2, <1>3 DEF FsmNext

(* y rises only after time1 samples of 1 in a row, and falls only by a     *)
(* reset or after time2 samples of 0.                                      *)
THEOREM DebouncedCorrect == FsmSpec => Debounced
<1>1. FsmInv /\ [FsmNext]_fsmVars =>
        [/\ y < y' => x' = 1 /\ stable' >= time1
         /\ y > y' => FsmReset \/ (x' = 0 /\ stable' >= time2)]_fsmVars
  BY SteadyStep DEF HeldSteady
<1> QED
  BY <1>1, FsmInvariance, PTL DEF FsmSpec, Debounced

(* The count never leaves its register and the state machine its states.   *)
THEOREM FsmTypeCorrect == FsmSpec => []FsmTypeOK
<1>1. FsmInv => FsmTypeOK
  BY DEF FsmInv
<1> QED
  BY <1>1, FsmInvariance, PTL

-----------------------------------------------------------------------------
(* The moving word, for every size of the screen and place of the box that *)
(* leaves it room to pass.                                                 *)

\* A word at an edge is already on its way back.  Without this the edge
\* tests, which are equalities, would let it pass.
HeadedBack ==
  /\ ALT_x1 = 0 => ALT_inc_x = 1
  /\ ALT_x2 = char_buffer_x => ALT_inc_x = -1
  /\ ALT_y = 0 => ALT_inc_y = 1
  /\ ALT_y = char_buffer_y => ALT_inc_y = -1

WordInv == BounceTypeOK /\ OnScreen /\ HeadedBack

(* Both increments are turned once or twice, hence stay 1 or -1; at an     *)
(* edge of the screen the box is too far away to turn them a second time.  *)
LEMMA WordStep == WordInv /\ Move => WordInv'
<1> SUFFICES ASSUME WordInv, Move PROVE WordInv'
  OBVIOUS
<1> USE LayoutAssumption DEF WordEnd
<1>1. /\ ALT_x1' = ALT_x1 + ALT_inc_x /\ ALT_x2' = ALT_x2 + ALT_inc_x
      /\ ALT_y' = ALT_y + ALT_inc_y
      /\ ALT_inc_x \in {-1, 1} /\ ALT_inc_y \in {-1, 1}
      /\ ALT_x1 \in Int /\ ALT_x2 = ALT_x1 + 5 /\ ALT_y \in Int
  BY DEF Move, WordInv, BounceTypeOK
<1>2. ALT_inc_x' \in {-1, 1} /\ ALT_inc_y' \in {-1, 1}
  BY <1>1 DEF Move, Turn
<1>3. ALT_x1' \in Int /\ ALT_x2' = ALT_x1' + 5 /\ ALT_y' \in Int
  BY <1>1
<1>4. ALT_x1' >= 0 /\ ALT_x2' <= char_buffer_x /\ ALT_y' \in 0 .. char_buffer_y
  BY <1>1 DEF WordInv, OnScreen, HeadedBack
<1>5. AtSide => ~NearBox
  BY <1>3 DEF AtSide, NearBox
<1>6. AtTopOrBottom => ~NearBox
  BY <1>3 DEF AtTopOrBottom, NearBox
<1>7. ALT_x1' = 0 => ALT_inc_x' = 1
  BY <1>1, <1>5 DEF Move, Turn, AtSide, WordInv, OnScreen
<1>8. ALT_x2' = char_buffer_x => ALT_inc_x' = -1
  BY <1>1, <1>5 DEF Move, Turn, AtSide, WordInv, OnScreen
<1>9. ALT_y' = 0 => ALT_inc_y' = 1
  BY <1>1, <1>6 DEF Move, Turn, AtTopOrBottom, WordInv, OnScreen
<1>10. ALT_y' = char_buffer_y => ALT_inc_y' = -1
  BY <1>1, <1>6 DEF Move, Turn, AtTopOrBottom, WordInv, OnScreen
<1> QED
  BY <1>2, <1>3, <1>4, <1>7, <1>8, <1>9, <1>10 DEF WordInv, BounceTypeOK, OnScreen, HeadedBack

LEMMA WordInitially == BounceInit => WordInv
  BY LayoutAssumption DEF BounceInit, WordInv, BounceTypeOK, OnScreen, HeadedBack, WordEnd

LEMMA WordNext == WordInv /\ [BounceNext]_bounceVars => WordInv'
<1>1. WordInv /\ UNCHANGED bounceVars => WordInv'
  BY DEF bounceVars, WordInv, BounceTypeOK, OnScreen, HeadedBack
<1> QED
  BY <1>1, WordStep DEF BounceNext

LEMMA WordInvariance == BounceSpec => []WordInv
  BY WordInitially, WordNext, PTL DEF BounceSpec

(* The word never leaves the screen: its columns stay between 0 and        *)
(* char_buffer_x and its row between 0 and char_buffer_y, so VGA_text      *)
(* never writes outside the character buffer.                              *)
THEOREM StaysOnScreen == BounceSpec => []OnScreen
<1>1. WordInv => OnScreen
  BY DEF WordInv
<1> QED
  BY <1>1, WordInvariance, PTL

\* The columns and rows from which the box is touched.
LeftOf  == blue_x1 - 1 - WordEnd
RightOf == blue_x2 + 1
Above   == blue_y1 - 1
Below   == blue_y2 + 1

\* The box is high an odd number of rows, so that its upper and its lower
\* corners are alike to a word that moves diagonally; and the message is inside,
\* away from its last column.  (Rows 26 to 34 and columns 28 to 52 in main.)
OddHeight == (Below - Above) % 2 = 0
HoldsMessage == blue_x1 + 18 < blue_x2 /\ blue_y1 + 4 <= blue_y2

Even(n) == n % 2 = 0
BesideBox == ALT_y \in Above + 1 .. Below - 1

\* A word can enter the box at a corner only: it comes up along a side, is
\* turned downwards in the corner and is inside at its next step.  From then on
\* the two tests keep it swinging between the two columns at that side, until it
\* reaches the other corner of the side, which turns it out again.
CaughtInv ==
  /\ WordInv
  /\ Even(ALT_x1 + ALT_y)
  /\ BesideBox /\ ALT_x1 \in LeftOf + 1 .. RightOf - 1 =>
       \/ ALT_x1 = RightOf - 1 /\ ALT_inc_x = 1 /\ Even(RightOf + Above)
       \/ ALT_x1 = LeftOf + 1 /\ ALT_inc_x = -1 /\ Even(LeftOf + Above)
  /\ BesideBox /\ ALT_x1 = RightOf /\ ALT_inc_x = -1 => Even(RightOf + Above)
  /\ BesideBox /\ ALT_x1 = LeftOf /\ ALT_inc_x = 1 => Even(LeftOf + Above)
  /\ ALT_y = Above /\ ALT_x1 \in LeftOf + 1 .. RightOf - 1 => ALT_inc_y = -1
  /\ ALT_y = Below /\ ALT_x1 \in LeftOf + 1 .. RightOf - 1 => ALT_inc_y = 1

LEMMA CaughtStep == ASSUME OddHeight, HoldsMessage, CaughtInv, Move PROVE CaughtInv'
<1> USE LayoutAssumption DEF WordEnd
<1>1. WordInv /\ WordInv'
  BY WordStep DEF CaughtInv
<1>2. /\ ALT_x1' = ALT_x1 + ALT_inc_x /\ ALT_y' = ALT_y + ALT_inc_y
      /\ ALT_inc_x \in {-1, 1} /\ ALT_inc_y \in {-1, 1}
      /\ ALT_x1 \in Int /\ ALT_y \in Int /\ ALT_x2' = ALT_x1' + 5
      /\ ALT_x1' \in Int /\ ALT_y' \in Int
  BY <1>1 DEF Move, WordInv, BounceTypeOK
<1>3. /\ LeftOf \in Int /\ RightOf \in Int /\ Above \in Int /\ Below \in Int
      /\ LeftOf + 20 < RightOf /\ Above + 1 < Below
      /\ (Below - Above) % 2 = 0
      /\ LeftOf' = LeftOf /\ RightOf' = RightOf /\ Above' = Above /\ Below' = Below
  BY DEF OddHeight, HoldsMessage, LeftOf, RightOf, Above, Below
<1>4. NearBox <=> ALT_y' \in Above .. Below /\ ALT_x1' \in LeftOf .. RightOf
  BY <1>2, <1>3 DEF NearBox, LeftOf, RightOf, Above, Below
<1>5. AboveOrBelowBox <=> ALT_y' \in {Above, Below}
  BY DEF AboveOrBelowBox, Above, Below
<1>6. NearBox => ~AtSide /\ ~AtTopOrBottom
  BY <1>2 DEF NearBox, AtSide, AtTopOrBottom
<1>7. /\ NearBox /\ AboveOrBelowBox => ALT_inc_y' = -ALT_inc_y /\ ALT_inc_x' = ALT_inc_x
      /\ NearBox /\ ~AboveOrBelowBox => ALT_inc_y' = ALT_inc_y /\ ALT_inc_x' = -ALT_inc_x
  BY <1>6 DEF Move, Turn
<1> HIDE DEF LeftOf, RightOf, Above, Below
<1>8. Even(ALT_x1 + ALT_y) /\ Even(ALT_x1' + ALT_y')
  BY <1>2 DEF CaughtInv, Even
<1> QED
  BY <1>1, <1>2, <1>3, <1>4, <1>5, <1>7, <1>8 DEF CaughtInv, BesideBox, Even

LEMMA CaughtInitially == ASSUME HoldsMessage PROVE BounceInit => CaughtInv
<1> SUFFICES ASSUME BounceInit PROVE CaughtInv
  OBVIOUS
<1>1. WordInv
  BY WordInitially
<1>2. ALT_x1 = 0 /\ ALT_y = 0 /\ 0 < LeftOf /\ 0 < Above /\ LeftOf \in Int /\ Above \in Int
  BY LayoutAssumption DEF BounceInit, LeftOf, Above, WordEnd
<1>3. RightOf \in Int /\ Below \in Int /\ 0 < RightOf /\ 0 < Below
  BY LayoutAssumption DEF RightOf, Below
<1> QED
  BY <1>1, <1>2, <1>3 DEF CaughtInv, BesideBox, Even

LEMMA CaughtNext ==
  ASSUME OddHeight, HoldsMessage
  PROVE  CaughtInv /\ [BounceNext]_bounceVars => CaughtInv'
<1> SUFFICES ASSUME CaughtInv, [BounceNext]_bounceVars PROVE CaughtInv'
  OBVIOUS
<1>1. CASE Move
  BY <1>1, CaughtStep
<1>2. CASE UNCHANGED bounceVars
  BY <1>2 DEF bounceVars, CaughtInv, WordInv, BounceTypeOK, OnScreen, HeadedBack, BesideBox,
              LeftOf, RightOf, Above, Below
<1> QED
  BY <1>1, <1>2 DEF BounceNext

LEMMA CaughtMeans == ASSUME HoldsMessage PROVE CaughtInv => MessageIntact
<1> SUFFICES ASSUME CaughtInv, Overlaps(blue_x1 + 5, blue_x1 + 18, blue_y1 + 3, blue_y1 + 4)
             PROVE  FALSE
  BY DEF MessageIntact
<1>1. ALT_x1 \in Int /\ ALT_y \in Int /\ ALT_x2 = ALT_x1 + 5
  BY DEF CaughtInv, WordInv, BounceTypeOK, WordEnd
<1>2. /\ ALT_x1 > LeftOf + 1 /\ ALT_x1 < RightOf - 1 /\ ALT_y > Above
      /\ LeftOf \in Int /\ RightOf \in Int /\ Above \in Int /\ Below \in Int
  BY <1>1, LayoutAssumption DEF Overlaps, HoldsMessage, LeftOf, RightOf, Above, Below, WordEnd
<1>3. ALT_y < Below
  BY <1>1, LayoutAssumption DEF Overlaps, HoldsMessage, Below
<1> QED
  BY <1>1, <1>2, <1>3 DEF CaughtInv, BesideBox

(* The moving word never touches the message in the box, though it does go *)
(* into the box: on its way along the right side it is caught in the       *)
(* corner and covers the box's last columns.                               *)
THEOREM MessageCorrect ==
  ASSUME OddHeight, HoldsMessage
  PROVE  BounceSpec => []MessageIntact
  BY CaughtInitially, CaughtNext, CaughtMeans, PTL DEF BounceSpec

(* Both ends move together and the increments stay 1 or -1.                *)
THEOREM WordTypeCorrect == BounceSpec => []BounceTypeOK
<1>1. WordInv => BounceTypeOK
  BY DEF WordInv
<1> QED
  BY <1>1, WordInvariance, PTL

-----------------------------------------------------------------------------
(* The polled recorder.  Its storing and playing loops hold a frame, or    *)
(* room for one, which the codec does not take away.                       *)

PolledInv ==
  /\ PolledTypeOK
  /\ at = "storing" => ralc > 0 /\ index < BufferSize
  /\ at = "playing" => wslc < PortWords /\ index < BufferSize

LEMMA PolledStep == PolledInv /\ [PolledNext]_polledVars => PolledInv'
<1> SUFFICES ASSUME PolledInv, [PolledNext]_polledVars PROVE PolledInv'
  OBVIOUS
<1> USE PolledAssumption DEF PolledInv, PolledTypeOK
<1>1. CASE FrameIn
  BY <1>1 DEF FrameIn
<1>2. CASE FrameOut
  BY <1>2 DEF FrameOut
<1>3. CASE Key1
  BY <1>3 DEF Key1
<1>4. CASE Key2
  BY <1>4 DEF Key2, Branch
<1>5. CASE NoKey
  BY <1>5 DEF NoKey, Branch
<1>6. CASE Record
  BY <1>6 DEF Record
<1>7. CASE Store
  <2>1. /\ ralc' = ralc - 1 /\ index' = index + 1 /\ UNCHANGED <<play, wslc, pressed>>
        /\ record' \in {record, FALSE} /\ green_LED' \in {green_LED, {}}
    BY <1>7 DEF Store
  <2>2. at' = IF ralc' > 0 /\ index' < BufferSize THEN "storing" ELSE "keys"
    BY <1>7 DEF Store
  <2>3. ralc' \in 0 .. PortWords /\ index' \in 0 .. BufferSize
    BY <1>7, <2>1 DEF Store
  <2>4. PolledTypeOK'
    BY <2>1, <2>2, <2>3
  <2>5. at' = "storing" => ralc' > 0 /\ index' < BufferSize
    BY <2>2
  <2>6. at' # "playing"
    BY <2>2
  <2> QED
    BY <2>4, <2>5, <2>6
<1>8. CASE Play
  BY <1>8 DEF Play
<1>9. CASE Output
  <2>1. /\ wslc' = wslc + 1 /\ index' = index + 1 /\ UNCHANGED <<record, ralc, pressed>>
        /\ play' \in {play, FALSE} /\ green_LED' \in {green_LED, {}}
    BY <1>9 DEF Output
  <2>2. at' = IF wslc' < PortWords /\ index' < BufferSize THEN "playing" ELSE "keys"
    BY <1>9 DEF Output
  <2>3. wslc' \in 0 .. PortWords /\ index' \in 0 .. BufferSize
    BY <1>9, <2>1 DEF Output
  <2>4. PolledTypeOK'
    BY <2>1, <2>2, <2>3
  <2>5. at' = "playing" => wslc' < PortWords /\ index' < BufferSize
    BY <2>2
  <2>6. at' # "storing"
    BY <2>2
  <2> QED
    BY <2>4, <2>5, <2>6
<1>10. CASE UNCHANGED polledVars
  BY <1>10 DEF polledVars
<1> QED
  BY <1>1, <1>2, <1>3, <1>4, <1>5, <1>6, <1>7, <1>8, <1>9, <1>10 DEF PolledNext, PolledLoop

LEMMA PolledInitially == PolledInit => PolledInv
<1> SUFFICES ASSUME PolledInit PROVE PolledInv
  OBVIOUS
<1>1. /\ record = FALSE /\ play = FALSE /\ index = 0 /\ at = "keys" /\ ralc = 0 /\ wslc = 0
      /\ green_LED = {} /\ pressed = 0
  BY DEF PolledInit
<1>2. index \in 0 .. BufferSize /\ {ralc, wslc} \subseteq 0 .. PortWords /\ pressed \in 0 .. KeyPresses
  BY <1>1, PolledAssumption
<1>3. {record, play} \subseteq BOOLEAN /\ green_LED \subseteq {0, 1}
  BY <1>1
<1>4. at \in {"keys", "record", "storing", "play", "playing"} /\ at # "storing" /\ at # "playing"
  BY <1>1
<1> QED
  BY <1>2, <1>3, <1>4 DEF PolledInv, PolledTypeOK

\* Neither loop reads a FIFO that is empty, fills one that is full or leaves
\* the buffer.
THEOREM PolledTypeCorrect == PolledSpec => []PolledTypeOK
<1>1. PolledInv => PolledTypeOK
  BY DEF PolledInv
<1> QED
  BY <1>1, PolledInitially, PolledStep, PTL DEF PolledSpec

-----------------------------------------------------------------------------
(* The display writer of lab 7: no character is ever in another one's      *)
(* place.  The machine counts its own states and the display counts its    *)
(* own cursor, so what has to be shown is that the two counts agree.       *)

Characters   == [rs : {1}, what : {"code", "name", "time"}, n : Nat]
Instructions == [rs : {0}, what : {"code"}, n : 0 .. 192]

LEMMA SequenceOf ==
  ASSUME NEW S, NEW n \in Nat, NEW f \in [1 .. n -> S]
  PROVE  f \in Seq(S) /\ Len(f) = n
<1>1. f \in Seq(S)
  BY SeqDef
<1>2. Len(f) \in Nat /\ DOMAIN f = 1 .. Len(f)
  BY <1>1, LenProperties
<1> QED
  BY <1>1, <1>2

\* Which element of which part is the k-th of two sequences joined.
LEMMA JoinedAt ==
  ASSUME NEW S, NEW p \in Seq(S), NEW q \in Seq(S), NEW k \in 1 .. Len(p) + Len(q)
  PROVE  (p \o q)[k] = IF k <= Len(p) THEN p[k] ELSE q[k - Len(p)]
  BY ConcatProperties

LEMMA Joined ==
  ASSUME NEW S, NEW p \in Seq(S), NEW q \in Seq(S)
  PROVE  p \o q \in Seq(S) /\ Len(p \o q) = Len(p) + Len(q)
  BY ConcatProperties

LEMMA FirstLineIs == FirstLine \in Seq(Characters) /\ Len(FirstLine) = 16
<1> DEFINE head == <<Letter(1), Letter(2), Letter(3), Letter(4), Space>>
           rest == [i \in 1 .. 7 |-> Letter(4 + i)]
           blank == Spaces(4)
<1>1. head \in Seq(Characters) /\ Len(head) = 5
  BY DEF Letter, Space, Fixed, Characters
<1>2. rest \in Seq(Characters) /\ Len(rest) = 7
  <2>1. rest \in [1 .. 7 -> Characters]
    BY DEF Letter, Characters
  <2> QED
    BY <2>1, SequenceOf
<1>3. blank \in Seq(Characters) /\ Len(blank) = 4
  <2>1. blank \in [1 .. 4 -> Characters]
    BY DEF Spaces, Space, Fixed, Characters
  <2> QED
    BY <2>1, SequenceOf
<1> HIDE DEF head, rest, blank
<1>4. head \o rest \in Seq(Characters) /\ Len(head \o rest) = Len(head) + Len(rest)
  BY <1>1, <1>2, Joined
<1>5. /\ (head \o rest) \o blank \in Seq(Characters)
      /\ Len((head \o rest) \o blank) = Len(head \o rest) + Len(blank)
  BY <1>3, <1>4, Joined
<1>6. Len((head \o rest) \o blank) = 16
  BY <1>1, <1>2, <1>3, <1>4, <1>5
<1> QED
  BY <1>5, <1>6 DEF FirstLine, head, rest, blank

LEMMA SecondLineIs == SecondLine \in Seq(Characters) /\ Len(SecondLine) = 16
<1> DEFINE head == <<Digit(1), Digit(2), Colon, Digit(3), Digit(4), Colon, Digit(5), Digit(6),
                     Space, Digit(7), Fixed(77)>>
           blank == Spaces(5)
<1>1. head \in Seq(Characters) /\ Len(head) = 11
  <2>1. \A i \in Nat : Digit(i) \in Characters /\ Fixed(i) \in Characters
    BY DEF Digit, Fixed, Characters
  <2>2. Colon \in Characters /\ Space \in Characters
    BY <2>1 DEF Colon, Space
  <2> QED
    BY <2>1, <2>2
<1>2. blank \in Seq(Characters) /\ Len(blank) = 5
  <2>1. blank \in [1 .. 5 -> Characters]
    BY DEF Spaces, Space, Fixed, Characters
  <2> QED
    BY <2>1, SequenceOf
<1> HIDE DEF head, blank
<1>3. /\ head \o blank \in Seq(Characters)
      /\ Len(head \o blank) = Len(head) + Len(blank)
  BY <1>1, <1>2, Joined
<1>4. Len(head \o blank) = 16
  BY <1>1, <1>2, <1>3
<1> QED
  BY <1>3, <1>4 DEF SecondLine, head, blank

LEMMA InitialiseIs ==
  /\ Initialise \in Seq(Instructions) /\ Len(Initialise) = 8
  /\ \A k \in 1 .. 8 : Initialise[k].n < Line1
<1>1. \A c \in 0 .. 192 : Instruction(c) \in Instructions /\ Instruction(c).n = c
  BY DEF Instruction, Instructions
<1>2. Initialise \in Seq(Instructions) /\ Len(Initialise) = 8
  BY <1>1 DEF Initialise, ClearDisplay
<1>3. \A k \in 1 .. 8 : Initialise[k].n < Line1
  BY <1>1 DEF Initialise, ClearDisplay, Line1
<1> QED
  BY <1>2, <1>3

\* The script: the initialisation, then each line after the instruction that
\* sends the cursor to its beginning.
LEMMA ScriptIs ==
  /\ Script \in Seq(Characters \cup Instructions) /\ Len(Script) = 42 /\ HOME = 9
  /\ \A k \in 1 .. 42 :
       Script[k] = IF k <= 8 THEN Initialise[k]
                   ELSE IF k = 9 THEN Instruction(Line1)
                   ELSE IF k <= 25 THEN FirstLine[k - 9]
                   ELSE IF k = 26 THEN Instruction(Line2)
                   ELSE SecondLine[k - 26]
<1> DEFINE Words == Characters \cup Instructions
           home1 == <<Instruction(Line1)>>
           home2 == <<Instruction(Line2)>>
           one == Initialise \o home1
           two == one \o FirstLine
           three == two \o home2
           all == three \o SecondLine
<1>1. /\ Initialise \in Seq(Words) /\ FirstLine \in Seq(Words) /\ SecondLine \in Seq(Words)
      /\ Len(Initialise) = 8 /\ Len(FirstLine) = 16 /\ Len(SecondLine) = 16
  BY InitialiseIs, FirstLineIs, SecondLineIs
<1>2. /\ home1 \in Seq(Words) /\ Len(home1) = 1 /\ home1[1] = Instruction(Line1)
      /\ home2 \in Seq(Words) /\ Len(home2) = 1 /\ home2[1] = Instruction(Line2)
  BY DEF Instruction, Instructions, Line1, Line2
<1>3. Script = all
  BY DEF Script
<1>4. HOME = 9
  BY <1>1 DEF HOME
<1> HIDE DEF Words, home1, home2
<1>5. one \in Seq(Words) /\ Len(one) = Len(Initialise) + Len(home1)
  BY <1>1, <1>2, Joined
<1>6. ASSUME NEW k \in 1 .. Len(Initialise) + Len(home1)
      PROVE  one[k] = IF k <= Len(Initialise) THEN Initialise[k] ELSE home1[k - Len(Initialise)]
  BY <1>1, <1>2, <1>6, JoinedAt
<1> HIDE DEF one
<1>7. two \in Seq(Words) /\ Len(two) = Len(one) + Len(FirstLine)
  BY <1>1, <1>5, Joined
<1>8. ASSUME NEW k \in 1 .. Len(one) + Len(FirstLine)
      PROVE  two[k] = IF k <= Len(one) THEN one[k] ELSE FirstLine[k - Len(one)]
  BY <1>1, <1>5, <1>8, JoinedAt
<1> HIDE DEF two
<1>9. three \in Seq(Words) /\ Len(three) = Len(two) + Len(home2)
  BY <1>2, <1>7, Joined
<1>10. ASSUME NEW k \in 1 .. Len(two) + Len(home2)
       PROVE  three[k] = IF k <= Len(two) THEN two[k] ELSE home2[k - Len(two)]
  BY <1>2, <1>7, <1>10, JoinedAt
<1> HIDE DEF three
<1>11. all \in Seq(Words) /\ Len(all) = Len(three) + Len(SecondLine)
  BY <1>1, <1>9, Joined
<1>12. ASSUME NEW k \in 1 .. Len(three) + Len(SecondLine)
       PROVE  all[k] = IF k <= Len(three) THEN three[k] ELSE SecondLine[k - Len(three)]
  BY <1>1, <1>9, <1>12, JoinedAt
<1> HIDE DEF all
<1>13. Len(one) = 9 /\ Len(two) = 25 /\ Len(three) = 26 /\ Len(all) = 42
  BY <1>1, <1>2, <1>5, <1>7, <1>9, <1>11
<1>14. ASSUME NEW k \in 1 .. 42
       PROVE  Script[k] = IF k <= 8 THEN Initialise[k]
                          ELSE IF k = 9 THEN Instruction(Line1)
                          ELSE IF k <= 25 THEN FirstLine[k - 9]
                          ELSE IF k = 26 THEN Instruction(Line2)
                          ELSE SecondLine[k - 26]
  <2>1. k \in 1 .. Len(three) + Len(SecondLine)
    BY <1>1, <1>13
  <2>2. all[k] = IF k <= Len(three) THEN three[k] ELSE SecondLine[k - Len(three)]
    BY <1>12, <2>1
  <2>3. CASE k <= 26
    <3>1. k \in 1 .. Len(two) + Len(home2) /\ k <= Len(three)
      <4>1. Len(two) + Len(home2) = 26 /\ Len(three) = 26
        BY <1>2, <1>13
      <4> QED
        BY <2>3, <4>1
    <3>2. three[k] = IF k <= Len(two) THEN two[k] ELSE home2[k - Len(two)]
      BY <1>10, <3>1
    <3>3. CASE k <= 25
      <4>1. k \in 1 .. Len(one) + Len(FirstLine) /\ k <= Len(two)
        BY <1>1, <1>13, <3>3
      <4>2. two[k] = IF k <= Len(one) THEN one[k] ELSE FirstLine[k - Len(one)]
        BY <1>8, <4>1
      <4>3. CASE k <= 9
        <5>1. k \in 1 .. Len(Initialise) + Len(home1) /\ k <= Len(one)
          <6>1. Len(Initialise) + Len(home1) = 9
            BY <1>1, <1>2
          <6> QED
            BY <1>13, <4>3, <6>1
        <5>2. one[k] = IF k <= Len(Initialise) THEN Initialise[k] ELSE home1[k - Len(Initialise)]
          BY <1>6, <5>1
        <5>3. Script[k] = IF k <= 8 THEN Initialise[k] ELSE home1[k - 8]
          BY <1>1, <1>3, <2>2, <3>1, <3>2, <4>1, <4>2, <5>1, <5>2
        <5>4. CASE k <= 8
          BY <5>3, <5>4
        <5>5. CASE k = 9
          <6>1. k - 8 = 1 /\ ~(k <= 8)
            BY <5>5
          <6>2. Script[k] = Instruction(Line1)
            BY <1>2, <5>3, <6>1
          <6> QED
            BY <5>5, <6>1, <6>2
        <5> QED
          BY <4>3, <5>4, <5>5
      <4>4. CASE k > 9
        <5>1. ~(k <= Len(one)) /\ Len(one) = 9 /\ ~(k <= 8) /\ k # 9 /\ k <= 25
          BY <1>13, <3>3, <4>4
        <5> QED
          BY <1>3, <2>2, <3>1, <3>2, <4>1, <4>2, <5>1
      <4> QED
        BY <4>3, <4>4
    <3>4. CASE k = 26
      <4>1. /\ ~(k <= Len(two)) /\ Len(two) = 25 /\ ~(k <= 8) /\ k # 9 /\ ~(k <= 25)
            /\ k - 25 = 1
        BY <1>13, <3>4
      <4> QED
        BY <1>2, <1>3, <2>2, <3>1, <3>2, <3>4, <4>1
    <3> QED
      BY <2>3, <3>3, <3>4
  <2>4. CASE k > 26
    <3>1. /\ ~(k <= Len(three)) /\ Len(three) = 26
          /\ ~(k <= 8) /\ k # 9 /\ ~(k <= 25) /\ k # 26
      BY <1>13, <2>4
    <3> QED
      BY <1>3, <2>2, <3>1
  <2> QED
    BY <2>3, <2>4
<1> QED
  BY <1>3, <1>4, <1>11, <1>13, <1>14 DEF Words

LEMMA SuccessorIs ==
  ASSUME NEW k \in 1 .. 42
  PROVE  Successor(k) = (IF k = 42 THEN 9 ELSE k + 1) /\ Successor(k) \in 1 .. 42
  BY ScriptIs DEF Successor

LEMMA WordIs ==
  ASSUME NEW k \in 1 .. 42
  PROVE  /\ Script[k].rs \in {0, 1}
         /\ Script[k].rs = 1 <=> k \in 10 .. 25 \cup 27 .. 42
         /\ k <= 8 => Script[k].n \in 0 .. 127
         /\ k = 9 => Script[k].n = 128
         /\ k = 26 => Script[k].n = 192
<1>1. \A w \in Instructions : w.rs = 0 /\ w.n \in 0 .. 192
  BY DEF Instructions
<1>2. \A w \in Characters : w.rs = 1
  BY DEF Characters
<1>3. /\ Instruction(Line1).rs = 0 /\ Instruction(Line1).n = 128
      /\ Instruction(Line2).rs = 0 /\ Instruction(Line2).n = 192
  BY DEF Instruction, Line1, Line2
<1>4. Script[k] = IF k <= 8 THEN Initialise[k]
                  ELSE IF k = 9 THEN Instruction(Line1)
                  ELSE IF k <= 25 THEN FirstLine[k - 9]
                  ELSE IF k = 26 THEN Instruction(Line2)
                  ELSE SecondLine[k - 26]
  BY ScriptIs
<1>5. CASE k <= 8
  <2>1. k \in 1 .. Len(Initialise) /\ k \in 1 .. 8
    BY <1>5, InitialiseIs
  <2>2. Initialise[k] \in Instructions /\ Initialise[k].n < 128
    BY <2>1, InitialiseIs, ElementOfSeq DEF Line1
  <2> QED
    BY <1>1, <1>4, <1>5, <2>2
<1>6. CASE k = 9 \/ k = 26
  BY <1>3, <1>4, <1>6
<1>7. CASE k \in 10 .. 25
  <2> DEFINE j == k - 9
  <2>1. j \in 1 .. Len(FirstLine) /\ ~(k <= 8) /\ k # 9 /\ k <= 25
    BY <1>7, FirstLineIs
  <2> HIDE DEF j
  <2>2. FirstLine[j] \in Characters
    BY <2>1, FirstLineIs, ElementOfSeq
  <2> QED
    BY <1>2, <1>4, <1>7, <2>1, <2>2 DEF j
<1>8. CASE k \in 27 .. 42
  <2> DEFINE j == k - 26
  <2>1. j \in 1 .. Len(SecondLine) /\ ~(k <= 8) /\ k # 9 /\ ~(k <= 25) /\ k # 26
    BY <1>8, SecondLineIs
  <2> HIDE DEF j
  <2>2. SecondLine[j] \in Characters
    BY <2>1, SecondLineIs, ElementOfSeq
  <2> QED
    BY <1>2, <1>4, <1>8, <2>1, <2>2 DEF j
<1> QED
  BY <1>5, <1>6, <1>7, <1>8

\* Where the cursor has to be when the machine is about to write state k.
AddressFor(k) ==
  /\ k \in 10 .. 25 => address = k - 10
  /\ k \in 27 .. 42 => address = k + 37

LEMMA LengthIs == Max(OneSecond) \in Nat /\ Max(FirstSecond) \in Nat
<1>1. ASSUME NEW n \in Nat PROVE Max(n .. n + 1) \in Nat
  <2>1. n + 1 \in n .. n + 1 /\ \A m \in n .. n + 1 : n + 1 >= m
    OBVIOUS
  <2>2. Max(n .. n + 1) \in n .. n + 1
    BY <2>1 DEF Max
  <2> QED
    BY <2>2
<1>2. ASSUME NEW a \in Nat, NEW b \in Nat \ {0} PROVE a \div b \in Nat
  BY SMT
<1>3. /\ HalfPeriod \in Nat /\ 2 * HalfPeriod \in Nat /\ LcdPeriod \in Nat \ {0}
  BY DividersAssumption DEF HalfPeriod, LcdPeriod
<1>4. HalfPeriod \div LcdPeriod \in Nat /\ (2 * HalfPeriod) \div LcdPeriod \in Nat
  BY <1>2, <1>3
<1> QED
  BY <1>1, <1>4 DEF OneSecond, FirstSecond

\* The part of the type invariant that the state machine moves.
MachineType ==
  /\ now_state \in {"write", "TOGGLE_E", "WAITUP"} /\ next_state \in 1 .. 42
  /\ LCD_EN \in {0, 1} /\ LCD_RS \in {0, 1}
  /\ LCD_EN = 1 <=> now_state = "TOGGLE_E"
  /\ address \in 0 .. 80 /\ DOMAIN ddram = Cells

TimeType ==
  /\ parity \in {0, 1} /\ pulses \in 0 .. Max(Length) /\ running \in BOOLEAN /\ SW0 \in {0, 1}

\* What is on the bus while LCD_EN is high, and where it will go.
OnBus(k) ==
  /\ next_state = Successor(k) /\ AddressFor(k)
  /\ LCD_RS = Script[k].rs
  /\ LCD_DATA_VALUE[1] = Script[k].what /\ LCD_DATA_VALUE[2] = Script[k].n

MachineInv ==
  /\ MachineType
  /\ InPlace
  /\ now_state # "TOGGLE_E" => AddressFor(next_state)
  /\ now_state = "TOGGLE_E" => \E k \in 1 .. 42 : OnBus(k)

WriterInv == MachineInv /\ TimeType

LEMMA TypeParts == WriterTypeOK <=> MachineType /\ TimeType
<1>1. DOMAIN Script = 1 .. 42
  <2>1. Script \in Seq(Characters \cup Instructions)
    BY ScriptIs
  <2> QED
    BY <2>1, ScriptIs, LenProperties
<1> QED
  BY <1>1 DEF WriterTypeOK, MachineType, TimeType

LEMMA WriteStep == MachineInv /\ Write => MachineInv'
<1> SUFFICES ASSUME MachineInv, Write PROVE MachineInv'
  OBVIOUS
<1> DEFINE k == next_state
<1>1. /\ k \in 1 .. 42 /\ now_state = "write" /\ now_state' = "TOGGLE_E" /\ AddressFor(k)
      /\ LCD_EN' = 1 /\ LCD_RS' = Script[k].rs /\ LCD_DATA_VALUE' = Reading(Script[k])
      /\ next_state' = Successor(k) /\ address' = address /\ ddram' = ddram
  BY DEF MachineInv, MachineType, Write, display
<1>2. LCD_DATA_VALUE'[1] = Script[k].what /\ LCD_DATA_VALUE'[2] = Script[k].n
  BY <1>1 DEF Reading
<1>3. Script[k].rs \in {0, 1} /\ Successor(k) \in 1 .. 42
  BY <1>1, WordIs, SuccessorIs
<1>4. MachineType'
  BY <1>1, <1>3 DEF MachineInv, MachineType
<1>5. InPlace'
  BY <1>1 DEF MachineInv, InPlace
<1> QED
  BY <1>1, <1>2, <1>4, <1>5 DEF MachineInv, OnBus, AddressFor

LEMMA WaitStep == MachineInv /\ WAITUP => MachineInv'
<1> SUFFICES ASSUME MachineInv, WAITUP PROVE MachineInv'
  OBVIOUS
<1>1. /\ now_state = "WAITUP" /\ now_state' = "write" /\ AddressFor(next_state)
      /\ LCD_EN' = LCD_EN /\ LCD_RS' = LCD_RS /\ next_state' = next_state
      /\ address' = address /\ ddram' = ddram
  BY DEF MachineInv, WAITUP, bus, display
<1>2. MachineType'
  BY <1>1 DEF MachineInv, MachineType
<1>3. InPlace'
  BY <1>1 DEF MachineInv, InPlace
<1> QED
  BY <1>1, <1>2, <1>3 DEF MachineInv, AddressFor

LEMMA CellsAre ==
  ASSUME NEW k \in 10 .. 25 \cup 27 .. 42,
         NEW c, c = IF k <= 25 THEN k - 10 ELSE k + 37
  PROVE  c \in Cells /\ c \in 0 .. 79 /\ Meant(c) = Script[k]
<1>1. CASE k \in 10 .. 25
  <2>1. c < 64 /\ c + 1 = k - 9 /\ c \in 0 .. 15
    BY <1>1
  <2>2. k \in 1 .. 42 /\ ~(k <= 8) /\ k # 9 /\ k <= 25
    BY <1>1
  <2>3. Script[k] = FirstLine[k - 9]
    BY <2>2, ScriptIs
  <2> QED
    BY <2>1, <2>3 DEF Meant, Cells
<1>2. CASE k \in 27 .. 42
  <2>1. ~(c < 64) /\ c - 63 = k - 26 /\ c \in 64 .. 79
    BY <1>2
  <2>2. k \in 1 .. 42 /\ ~(k <= 8) /\ k # 9 /\ ~(k <= 25) /\ k # 26
    BY <1>2
  <2>3. Script[k] = SecondLine[k - 26]
    BY <2>2, ScriptIs
  <2> QED
    BY <2>1, <2>3 DEF Meant, Cells
<1> QED
  BY <1>1, <1>2

LEMMA TakeStep == MachineInv /\ TOGGLE_E => MachineInv'
<1> SUFFICES ASSUME MachineInv, TOGGLE_E PROVE MachineInv'
  OBVIOUS
<1>1. /\ now_state = "TOGGLE_E" /\ now_state' = "WAITUP" /\ LCD_EN' = 0 /\ PanelTakes
      /\ next_state' = next_state /\ LCD_RS' = LCD_RS
  BY DEF TOGGLE_E
<1>2. PICK k \in 1 .. 42 : OnBus(k)
  BY <1>1 DEF MachineInv
<1>3. /\ next_state = IF k = 42 THEN 9 ELSE k + 1
      /\ LCD_RS \in {0, 1} /\ (LCD_RS = 1 <=> k \in 10 .. 25 \cup 27 .. 42)
  <2>1. Successor(k) = IF k = 42 THEN 9 ELSE k + 1
    BY SuccessorIs
  <2>2. Script[k].rs \in {0, 1} /\ (Script[k].rs = 1 <=> k \in 10 .. 25 \cup 27 .. 42)
    BY WordIs
  <2> QED
    BY <1>2, <2>1, <2>2 DEF OnBus
<1>4. address \in 0 .. 80 /\ DOMAIN ddram = Cells /\ next_state \in 1 .. 42 /\ InPlace
  BY DEF MachineInv, MachineType
<1>5. SUFFICES /\ address' \in 0 .. 80 /\ DOMAIN ddram' = Cells
               /\ InPlace' /\ AddressFor(next_state)'
  BY <1>1, <1>4 DEF MachineInv, MachineType
<1>6. CASE LCD_RS = 1
  <2>1. k \in 10 .. 25 \cup 27 .. 42 /\ address = IF k <= 25 THEN k - 10 ELSE k + 37
    BY <1>2, <1>3, <1>6 DEF OnBus, AddressFor
  <2>2. address \in Cells /\ address \in 0 .. 79 /\ Meant(address) = Script[k]
    BY <2>1, CellsAre
  <2>3. address' = address + 1 /\ ddram' = [ddram EXCEPT ![address] = LCD_DATA_VALUE]
    BY <1>1, <1>6, <2>2 DEF PanelTakes
  <2>4. InPlace'
    <3> SUFFICES ASSUME NEW c \in Cells
                 PROVE  \/ ddram'[c] = BlankCell
                        \/ ddram'[c][1] = Meant(c).what /\ ddram'[c][2] = Meant(c).n
      BY DEF InPlace
    <3>1. CASE c = address
      BY <1>2, <1>4, <2>2, <2>3, <3>1 DEF OnBus
    <3>2. CASE c # address
      BY <1>4, <2>2, <2>3, <3>2 DEF InPlace
    <3> QED
      BY <3>1, <3>2
  <2>5. AddressFor(next_state)'
    BY <1>1, <1>3, <2>1, <2>3 DEF AddressFor
  <2> QED
    BY <1>4, <2>2, <2>3, <2>4, <2>5
<1>7. CASE LCD_RS # 1
  <2> DEFINE code == LCD_DATA_VALUE[2]
  <2>1. /\ code = Script[k].n /\ k \in 1 .. 9 \cup {26}
    BY <1>2, <1>3, <1>7 DEF OnBus
  <2>2. /\ k <= 8 => code \in 0 .. 127
        /\ k = 9 => code = 128
        /\ k = 26 => code = 192
    BY <2>1, WordIs
  <2>3. /\ ddram' = IF code = ClearDisplay THEN [c \in Cells |-> BlankCell] ELSE ddram
        /\ address' = IF code = ClearDisplay THEN 0
                      ELSE IF code >= Line1 THEN code - Line1 ELSE address
    BY <1>1, <1>7 DEF PanelTakes
  <2> HIDE DEF code
  <2>4. address' \in 0 .. 80 /\ DOMAIN ddram' = Cells
    BY <1>4, <2>1, <2>2, <2>3 DEF Line1, ClearDisplay
  <2>5. InPlace'
    BY <1>4, <2>3 DEF InPlace
  <2>6. /\ k = 9 => address' = 0
        /\ k = 26 => address' = 64
    BY <2>2, <2>3 DEF Line1, ClearDisplay
  <2>7. AddressFor(next_state)'
    BY <1>1, <1>3, <2>1, <2>6 DEF AddressFor
  <2> QED
    BY <2>4, <2>5, <2>7
<1> QED
  BY <1>6, <1>7

LEMMA WriterInvStep == WriterInv /\ [WriterNext]_writerVars => WriterInv'
<1> SUFFICES ASSUME WriterInv, [WriterNext]_writerVars PROVE WriterInv'
  OBVIOUS
<1>1. MachineInv /\ TimeType
  BY DEF WriterInv
<1>2. ASSUME UNCHANGED <<now_state, next_state, bus, display>> PROVE MachineInv'
  <2>1. MachineType'
    BY <1>1, <1>2 DEF MachineInv, MachineType, bus, display
  <2>2. InPlace'
    BY <1>1, <1>2 DEF MachineInv, InPlace, display
  <2>3. ASSUME NEW k PROVE (AddressFor(k)' <=> AddressFor(k)) /\ (OnBus(k)' <=> OnBus(k))
    BY <1>2 DEF AddressFor, OnBus, bus, display
  <2>4. now_state' = now_state /\ next_state' = next_state /\ address' = address
    BY <1>2 DEF display
  <2>5. now_state' # "TOGGLE_E" => AddressFor(next_state)'
    BY <1>1, <2>4 DEF MachineInv, AddressFor
  <2>6. now_state' = "TOGGLE_E" => \E k \in 1 .. 42 : OnBus(k)'
    BY <1>1, <2>3, <2>4 DEF MachineInv
  <2> QED
    BY <2>1, <2>2, <2>5, <2>6 DEF MachineInv
<1>3. MachineInv'
  <2>1. CASE Pulse
    BY <1>1, <2>1, WriteStep, TakeStep, WaitStep DEF Pulse
  <2>2. CASE SecondEdge \/ MoveSwitch \/ UNCHANGED writerVars
    BY <1>2, <2>2 DEF SecondEdge, MoveSwitch, writerVars
  <2> QED
    BY <2>1, <2>2 DEF WriterNext
<1>4. TimeType'
  <2>1. Max(OneSecond) \in Nat /\ Max(FirstSecond) \in Nat
    BY LengthIs
  <2>2. CASE Pulse
    <3> DEFINE limit == Max(Length)
    <3>1. Length' = Length
      BY <2>2 DEF Pulse, Length
    <3>2. limit \in Nat
      BY <2>1 DEF Length
    <3>3. limit' = limit
      BY <3>1
    <3>4. pulses' \in 0 .. limit
      BY <1>1, <2>2, <3>2 DEF Pulse, TimeType
    <3> QED
      BY <1>1, <2>2, <3>3, <3>4 DEF Pulse, TimeType
  <2>3. CASE SecondEdge
    <3>1. Length' = OneSecond
      BY <2>3 DEF SecondEdge, Length
    <3>2. pulses' \in 0 .. Max(Length)'
      BY <2>1, <2>3, <3>1 DEF SecondEdge
    <3> QED
      BY <1>1, <2>3, <3>2 DEF SecondEdge, TimeType
  <2>4. CASE MoveSwitch \/ UNCHANGED writerVars
    <3>1. Length' = Length /\ pulses' = pulses /\ parity' = parity /\ running' = running
      BY <2>4 DEF MoveSwitch, writerVars, time, Length
    <3>2. SW0' \in {0, 1}
      BY <1>1, <2>4 DEF MoveSwitch, writerVars, TimeType
    <3> QED
      BY <1>1, <3>1, <3>2 DEF TimeType
  <2> QED
    BY <2>2, <2>3, <2>4 DEF WriterNext
<1> QED
  BY <1>3, <1>4 DEF WriterInv

LEMMA WriterInitially == WriterInit => WriterInv
<1> SUFFICES ASSUME WriterInit PROVE WriterInv
  OBVIOUS
<1>1. MachineType
  BY DEF WriterInit, MachineType
<1>2. TimeType
  <2>1. Max(Length) \in Nat
    BY LengthIs DEF Length
  <2> HIDE DEF Length
  <2>2. pulses \in 0 .. Max(Length)
    BY <2>1 DEF WriterInit
  <2> QED
    BY <2>2 DEF WriterInit, TimeType
<1>3. InPlace
  BY DEF WriterInit, InPlace
<1>4. AddressFor(next_state) /\ now_state # "TOGGLE_E"
  BY DEF WriterInit, AddressFor
<1> QED
  BY <1>1, <1>2, <1>3, <1>4 DEF WriterInv, MachineInv

LEMMA WriterInvariance == WriterSpec => []WriterInv
  BY WriterInitially, WriterInvStep, PTL DEF WriterSpec

(* The state machine stays within its 42 states, LCD_EN is high in         *)
(* TOGGLE_E and only there, and the cursor within the display's memory,    *)
(* whatever the two dividers.                                              *)
THEOREM WriterTypeCorrect == WriterSpec => []WriterTypeOK
<1>1. WriterInv => WriterTypeOK
  BY TypeParts DEF WriterInv, MachineInv
<1> QED
  BY <1>1, WriterInvariance, PTL

(* No character is ever shown in another character's place, whatever the   *)
(* two dividers, whenever the second changes and the switch is moved.      *)
THEOREM InPlaceCorrect == WriterSpec => []InPlace
<1>1. WriterInv => InPlace
  BY DEF WriterInv, MachineInv
<1> QED
  BY <1>1, WriterInvariance, PTL

-----------------------------------------------------------------------------
(* Every second is shown: when a second lasts at least 103 pulses, whatever *)
(* the dividers.  A digit is on the display one pulse after it is read, and *)
(* is read again every 102 pulses; so as soon as more pulses have passed    *)
(* since the change than since the digit was last put on the display, and   *)
(* one for the reading, it is the new one.                                  *)

\* Where the machine is in its cycle: 0 when it is about to write HOME, 3 pulses
\* for each state, below -2 in the initialisation only.
Pos ==
  3 * (next_state - 9)
    - (IF now_state = "TOGGLE_E" THEN 2 ELSE IF now_state = "WAITUP" THEN 1 ELSE 0)

\* The state that writes a cell, Pos when the display has taken it, and the
\* pulses since then.
Slot(c)  == IF c < 64 THEN c + 10 ELSE c - 37
Taken(c) == 3 * (Slot(c) - 9) + 2
Age(c)   == IF Pos >= Taken(c) THEN Pos - Taken(c) ELSE Pos - Taken(c) + 102

\* At most the pulses since power-up.
Elapsed == pulses + (IF running THEN HalfPeriod \div LcdPeriod ELSE 0)

NotYet(c) == ddram[c] = BlankCell /\ Pos < Taken(c) /\ Elapsed <= Pos + 24
Shown(c) ==
  /\ Pos >= -2
  /\ ddram[c][1] = "time"
  /\ pulses >= Age(c) + 2 => ddram[c][3] = parity

FreshInv ==
  /\ \A c \in TimeCells : NotYet(c) \/ Shown(c)
  /\ now_state = "TOGGLE_E" /\ LCD_DATA_VALUE[1] = "time" /\ pulses > 0 =>
       LCD_DATA_VALUE[3] = parity

LEMMA LettersEndTheLine ==
  ASSUME NEW k \in 11 .. 16
  PROVE  SecondLine[k].what = "code"
<1> DEFINE head == <<Digit(1), Digit(2), Colon, Digit(3), Digit(4), Colon, Digit(5), Digit(6),
                     Space, Digit(7), Fixed(77)>>
           blank == Spaces(5)
<1>1. head \in Seq(Characters) /\ Len(head) = 11 /\ head[11] = Fixed(77)
  <2>1. \A i \in Nat : Digit(i) \in Characters /\ Fixed(i) \in Characters
    BY DEF Digit, Fixed, Characters
  <2>2. Colon \in Characters /\ Space \in Characters
    BY <2>1 DEF Colon, Space
  <2> QED
    BY <2>1, <2>2
<1>2. blank \in [1 .. 5 -> Characters] /\ \A i \in 1 .. 5 : blank[i] = Space
  BY DEF Spaces, Space, Fixed, Characters
<1>3. blank \in Seq(Characters) /\ Len(blank) = 5
  BY <1>2, SequenceOf
<1>4. Fixed(77).what = "code" /\ Space.what = "code"
  BY DEF Fixed, Space
<1>5. SecondLine = head \o blank
  BY DEF SecondLine
<1> HIDE DEF head, blank
<1>6. k \in 1 .. Len(head) + Len(blank)
  BY <1>1, <1>3
<1>7. SecondLine[k] = IF k <= Len(head) THEN head[k] ELSE blank[k - Len(head)]
  BY <1>1, <1>3, <1>5, <1>6, JoinedAt
<1>8. CASE k = 11
  BY <1>1, <1>4, <1>7, <1>8
<1>9. CASE k \in 12 .. 16
  <2>1. k - 11 \in 1 .. 5 /\ ~(k <= 11)
    BY <1>9
  <2> QED
    BY <1>1, <1>2, <1>4, <1>7, <2>1
<1> QED
  BY <1>8, <1>9

\* The cells of both lines, but for the spaces that end the second.
Written == 0 .. 15 \cup 64 .. 73

LEMMA CellIs ==
  ASSUME NEW c \in Written
  PROVE  /\ c \in Cells /\ c \in Nat
         /\ Slot(c) \in 10 .. 25 \cup 27 .. 36
         /\ c = IF Slot(c) <= 25 THEN Slot(c) - 10 ELSE Slot(c) + 37
         /\ Script[Slot(c)] = Meant(c)
         /\ Taken(c) \in 5 .. 83 /\ Taken(c) = 3 * (Slot(c) - 9) + 2
<1>1. c \in Cells /\ c \in Nat
  BY DEF Written, Cells
<1>2. Slot(c) \in 10 .. 25 \cup 27 .. 36 /\ c = IF Slot(c) <= 25 THEN Slot(c) - 10 ELSE Slot(c) + 37
  BY DEF Written, Slot
<1>3. Meant(c) = Script[Slot(c)]
  BY <1>2, CellsAre
<1>4. Taken(c) \in 5 .. 83
  BY <1>2 DEF Taken
<1> QED
  BY <1>1, <1>2, <1>3, <1>4 DEF Taken

LEMMA TimeCellIs ==
  ASSUME NEW c \in TimeCells
  PROVE  c \in Written /\ Meant(c).what = "time"
<1>1. c \in Cells /\ Meant(c).what = "time"
  BY DEF TimeCells
<1>2. ~(c \in 74 .. 79)
  <2> SUFFICES ASSUME c \in 74 .. 79 PROVE FALSE
    OBVIOUS
  <2>1. ~(c < 64) /\ c - 63 \in 11 .. 16
    OBVIOUS
  <2>2. SecondLine[c - 63].what = "code"
    BY <2>1, LettersEndTheLine
  <2> QED
    BY <1>1, <2>1, <2>2 DEF Meant
<1> QED
  BY <1>1, <1>2 DEF Cells, Written

LEMMA FirstIs == HalfPeriod \div LcdPeriod \in Nat
<1>1. ASSUME NEW a \in Nat, NEW b \in Nat \ {0} PROVE a \div b \in Nat
  BY SMT
<1> QED
  BY <1>1, DividersAssumption DEF HalfPeriod, LcdPeriod

\* A pulse takes the machine one step on in its cycle.
LEMMA PulseMoves ==
  ASSUME MachineInv, Pulse
  PROVE  /\ Pos \in -26 .. 99 /\ Pos' \in -26 .. 99
         /\ Pos' = IF Pos = 99 THEN -2 ELSE Pos + 1
<1>1. next_state \in 1 .. 42 /\ now_state \in {"write", "TOGGLE_E", "WAITUP"}
  BY DEF MachineInv, MachineType
<1>2. Pos' = 3 * (next_state' - 9)
               - (IF now_state' = "TOGGLE_E" THEN 2 ELSE IF now_state' = "WAITUP" THEN 1 ELSE 0)
  BY DEF Pos
<1>3. CASE Write
  <2>1. /\ now_state = "write" /\ now_state' = "TOGGLE_E"
        /\ next_state' = IF next_state = 42 THEN 9 ELSE next_state + 1
    BY <1>1, <1>3, SuccessorIs DEF Write
  <2> QED
    BY <1>1, <1>2, <2>1 DEF Pos
<1>4. CASE TOGGLE_E
  <2>1. now_state = "TOGGLE_E" /\ now_state' = "WAITUP" /\ next_state' = next_state
    BY <1>4 DEF TOGGLE_E
  <2> QED
    BY <1>1, <1>2, <2>1 DEF Pos
<1>5. CASE WAITUP
  <2>1. now_state = "WAITUP" /\ now_state' = "write" /\ next_state' = next_state
    BY <1>5 DEF WAITUP
  <2> QED
    BY <1>1, <1>2, <2>1 DEF Pos
<1> QED
  BY <1>3, <1>4, <1>5 DEF Pulse

\* Which pulse a cell is written by, and what leaves it alone.
LEMMA PulsePlaces ==
  ASSUME MachineInv, Pulse, NEW c \in Written
  PROVE  \/ /\ Pos' = Taken(c) /\ TOGGLE_E
            /\ ddram'[c] = LCD_DATA_VALUE /\ LCD_DATA_VALUE[1] = Meant(c).what
         \/ /\ Pos' # Taken(c)
            /\ \/ ddram'[c] = ddram[c]
               \/ Pos < -2 /\ ddram'[c] = BlankCell
<1>1. /\ next_state \in 1 .. 42 /\ now_state \in {"write", "TOGGLE_E", "WAITUP"}
      /\ address \in 0 .. 80 /\ DOMAIN ddram = Cells
  BY DEF MachineInv, MachineType
<1>2. /\ c \in Cells /\ c \in Nat /\ Slot(c) \in 10 .. 25 \cup 27 .. 36
      /\ c = IF Slot(c) <= 25 THEN Slot(c) - 10 ELSE Slot(c) + 37
      /\ Script[Slot(c)] = Meant(c) /\ Taken(c) = 3 * (Slot(c) - 9) + 2
  BY CellIs
<1>3. Pos' = 3 * (next_state' - 9)
               - (IF now_state' = "TOGGLE_E" THEN 2 ELSE IF now_state' = "WAITUP" THEN 1 ELSE 0)
  BY DEF Pos
<1>4. CASE Write
  <2>1. now_state' = "TOGGLE_E" /\ next_state' \in 1 .. 42 /\ ddram' = ddram
    BY <1>1, <1>4, SuccessorIs DEF Write, display
  <2>2. Pos' # Taken(c)
    BY <1>2, <1>3, <2>1
  <2> QED
    BY <2>1, <2>2
<1>5. CASE WAITUP
  <2>1. now_state' = "write" /\ next_state' \in 1 .. 42 /\ ddram' = ddram
    BY <1>1, <1>5 DEF WAITUP, display
  <2>2. Pos' # Taken(c)
    BY <1>2, <1>3, <2>1
  <2> QED
    BY <2>1, <2>2
<1>6. CASE TOGGLE_E
  <2>1. /\ now_state = "TOGGLE_E" /\ now_state' = "WAITUP" /\ PanelTakes /\ next_state' = next_state
    BY <1>6 DEF TOGGLE_E
  <2>2. PICK k \in 1 .. 42 : OnBus(k)
    BY <2>1 DEF MachineInv
  <2>3. /\ next_state = IF k = 42 THEN 9 ELSE k + 1
        /\ LCD_RS \in {0, 1} /\ (LCD_RS = 1 <=> k \in 10 .. 25 \cup 27 .. 42)
    <3>1. Successor(k) = IF k = 42 THEN 9 ELSE k + 1
      BY SuccessorIs
    <3>2. Script[k].rs \in {0, 1} /\ (Script[k].rs = 1 <=> k \in 10 .. 25 \cup 27 .. 42)
      BY WordIs
    <3> QED
      BY <2>2, <3>1, <3>2 DEF OnBus
  <2>4. Pos = 3 * (next_state - 9) - 2 /\ Pos' = 3 * (next_state - 9) - 1
    BY <1>1, <1>3, <2>1 DEF Pos
  <2>5. Pos' = Taken(c) <=> k = Slot(c)
    BY <1>2, <2>3, <2>4
  <2>6. CASE LCD_RS = 1
    <3>1. k \in 10 .. 25 \cup 27 .. 42 /\ address = IF k <= 25 THEN k - 10 ELSE k + 37
      BY <2>2, <2>3, <2>6 DEF OnBus, AddressFor
    <3>2. address \in Cells
      BY <3>1, CellsAre
    <3>3. ddram' = [ddram EXCEPT ![address] = LCD_DATA_VALUE]
      BY <2>1, <2>6, <3>2 DEF PanelTakes
    <3>4. address = c <=> k = Slot(c)
      BY <1>2, <3>1
    <3>5. CASE k = Slot(c)
      <4>1. LCD_DATA_VALUE[1] = Meant(c).what
        BY <1>2, <2>2, <3>5 DEF OnBus
      <4>2. ddram'[c] = LCD_DATA_VALUE
        BY <1>1, <1>2, <3>3, <3>4, <3>5
      <4> QED
        BY <1>6, <2>5, <3>5, <4>1, <4>2
    <3>6. CASE k # Slot(c)
      <4>1. ddram'[c] = ddram[c]
        BY <1>1, <1>2, <3>3, <3>4, <3>6
      <4> QED
        BY <2>5, <3>6, <4>1
    <3> QED
      BY <3>5, <3>6
  <2>7. CASE LCD_RS # 1
    <3> DEFINE code == LCD_DATA_VALUE[2]
    <3>1. code = Script[k].n /\ k \in 1 .. 9 \cup {26}
      BY <2>2, <2>3, <2>7 DEF OnBus
    <3>2. ddram' = IF code = ClearDisplay THEN [d \in Cells |-> BlankCell] ELSE ddram
      BY <2>1, <2>7 DEF PanelTakes
    <3> HIDE DEF code
    <3>3. k # Slot(c)
      BY <1>2, <3>1
    <3>4. CASE code # ClearDisplay
      BY <2>5, <3>2, <3>3, <3>4
    <3>5. CASE code = ClearDisplay
      <4>1. k # 9 /\ k # 26
        <5>1. (k = 9 => Script[k].n = 128) /\ (k = 26 => Script[k].n = 192)
          BY WordIs
        <5> QED
          BY <3>1, <3>5, <5>1 DEF ClearDisplay
      <4>2. k # 8
        <5>1. ASSUME k = 8 PROVE Script[k] = Instruction(6)
          <6>1. Script[k] = Initialise[k]
            BY <5>1, ScriptIs
          <6> QED
            BY <5>1, <6>1 DEF Initialise
        <5>2. ASSUME k = 8 PROVE code = 6
          BY <3>1, <5>1, <5>2 DEF Instruction
        <5> QED
          BY <3>5, <5>2 DEF ClearDisplay
      <4>3. Pos < -2
        BY <2>3, <2>4, <3>1, <4>1, <4>2
      <4>4. ddram'[c] = BlankCell
        BY <1>2, <3>2, <3>5
      <4> QED
        BY <2>5, <3>3, <4>3, <4>4
    <3> QED
      BY <3>4, <3>5
  <2> QED
    BY <2>6, <2>7
<1> QED
  BY <1>4, <1>5, <1>6 DEF Pulse

\* One pulse, for one cell.
LEMMA CellStep ==
  ASSUME MachineInv, TimeType, FreshInv, Pulse, NEW c \in TimeCells
  PROVE  (NotYet(c) \/ Shown(c))'
<1>1. /\ Pos \in -26 .. 99 /\ Pos' \in -26 .. 99 /\ Taken(c) \in 5 .. 83
      /\ Pos' = IF Pos = 99 THEN -2 ELSE Pos + 1
  BY PulseMoves, TimeCellIs, CellIs
<1>2. pulses \in Nat /\ pulses' = pulses + 1 /\ parity' = parity /\ running' = running
  <2>1. Max(Length) \in Nat
    BY LengthIs DEF Length
  <2> QED
    BY <2>1 DEF TimeType, Pulse
<1>3. Taken(c)' = Taken(c)
  BY DEF Taken, Slot
<1>4. Age(c) = (IF Pos >= Taken(c) THEN Pos - Taken(c) ELSE Pos - Taken(c) + 102)
      /\ Age(c)' = (IF Pos' >= Taken(c) THEN Pos' - Taken(c) ELSE Pos' - Taken(c) + 102)
  BY <1>3 DEF Age
<1>5. (NotYet(c) \/ Shown(c)) /\ (now_state = "TOGGLE_E" /\ LCD_DATA_VALUE[1] = "time" /\ pulses > 0 =>
       LCD_DATA_VALUE[3] = parity)
  BY DEF FreshInv
<1>6. CASE /\ Pos' = Taken(c) /\ TOGGLE_E
           /\ ddram'[c] = LCD_DATA_VALUE /\ LCD_DATA_VALUE[1] = "time"
  <2>1. pulses' >= 2 => ddram'[c][3] = parity
    BY <1>2, <1>5, <1>6 DEF TOGGLE_E
  <2>2. Age(c)' = 0 /\ Pos' >= -2
    BY <1>1, <1>4, <1>6
  <2> QED
    BY <1>2, <1>6, <2>1, <2>2 DEF Shown
<1>7. CASE /\ Pos' # Taken(c)
           /\ \/ ddram'[c] = ddram[c]
              \/ Pos < -2 /\ ddram'[c] = BlankCell
  <2>1. CASE NotYet(c)
    <3>1. ddram'[c] = BlankCell /\ Pos < Taken(c) /\ Elapsed <= Pos + 24
      BY <1>7, <2>1 DEF NotYet
    <3>2. Pos' < Taken(c) /\ Pos' = Pos + 1
      BY <1>1, <1>7, <3>1
    <3>3. Elapsed' <= Pos' + 24
      <4> DEFINE n == IF running THEN HalfPeriod \div LcdPeriod ELSE 0
      <4>1. n \in Nat /\ n' = n /\ Elapsed = pulses + n /\ Elapsed' = pulses' + n
        BY <1>2, FirstIs DEF Elapsed
      <4> HIDE DEF n
      <4> QED
        BY <1>1, <1>2, <3>1, <3>2, <4>1
    <3> QED
      BY <1>3, <3>1, <3>2, <3>3 DEF NotYet
  <2>2. CASE Shown(c)
    <3>1. Pos >= -2 /\ ddram[c][1] = "time" /\ (pulses >= Age(c) + 2 => ddram[c][3] = parity)
      BY <2>2 DEF Shown
    <3>2. Pos' >= -2 /\ ddram'[c] = ddram[c]
      BY <1>1, <1>7, <3>1
    <3>3. Age(c)' = Age(c) + 1 /\ Age(c) \in Int
      <4>1. CASE Pos = 99
        BY <1>1, <1>4, <4>1
      <4>2. CASE Pos # 99 /\ Pos >= Taken(c)
        BY <1>1, <1>4, <4>2
      <4>3. CASE Pos # 99 /\ Pos < Taken(c)
        <5>1. Pos' = Pos + 1 /\ ~(Pos' >= Taken(c))
          BY <1>1, <1>7, <4>3
        <5>2. Age(c) = Pos - Taken(c) + 102 /\ Age(c)' = Pos' - Taken(c) + 102
          BY <1>1, <1>4, <4>3, <5>1
        <5> QED
          BY <1>1, <5>1, <5>2
      <4> QED
        BY <1>1, <4>1, <4>2, <4>3
    <3> HIDE DEF Age
    <3> QED
      BY <1>2, <3>1, <3>2, <3>3 DEF Shown
  <2> QED
    BY <1>5, <2>1, <2>2
<1> QED
  BY <1>6, <1>7, PulsePlaces, TimeCellIs

LEMMA FreshStep == WriterInv /\ FreshInv /\ [WriterNext]_writerVars => FreshInv'
<1> SUFFICES ASSUME WriterInv, FreshInv, [WriterNext]_writerVars PROVE FreshInv'
  OBVIOUS
<1>1. MachineInv /\ TimeType
  BY DEF WriterInv
<1>2. TimeCells' = TimeCells
  BY DEF TimeCells
<1>3. CASE Pulse
  <2>1. \A c \in TimeCells : (NotYet(c) \/ Shown(c))'
    BY <1>1, <1>3, CellStep
  <2>2. now_state' = "TOGGLE_E" /\ LCD_DATA_VALUE'[1] = "time" => LCD_DATA_VALUE'[3] = parity'
    <3>1. CASE Write
      BY <1>3, <3>1 DEF Write, Reading, Pulse
    <3>2. CASE TOGGLE_E \/ WAITUP
      BY <3>2 DEF TOGGLE_E, WAITUP
    <3> QED
      BY <1>3, <3>1, <3>2 DEF Pulse
  <2> QED
    BY <1>2, <2>1, <2>2 DEF FreshInv
<1>4. CASE SecondEdge
  <2>1. /\ pulses' = 0 /\ running' = TRUE /\ pulses \in Length
        /\ now_state' = now_state /\ next_state' = next_state
        /\ LCD_DATA_VALUE' = LCD_DATA_VALUE /\ ddram' = ddram
    BY <1>4 DEF SecondEdge, bus, display
  <2>2. Pos' = Pos
    BY <2>1 DEF Pos
  <2>3. Elapsed' <= Elapsed /\ Elapsed' \in Int /\ Elapsed \in Int
    <3> DEFINE n == HalfPeriod \div LcdPeriod
    <3>1. n \in Nat
      BY FirstIs
    <3>2. Elapsed' = n
      BY <2>1, <3>1 DEF Elapsed
    <3>3. pulses \in Nat /\ (~running => pulses >= n)
      <4>1. running \in BOOLEAN /\ pulses \in 0 .. Max(Length)
        BY <1>1 DEF TimeType
      <4>2. Max(Length) \in Nat
        BY LengthIs DEF Length
      <4>3. CASE ~running
        <5>1. pulses \in n .. n + 1
          BY <2>1, <4>3 DEF Length, FirstSecond
        <5> QED
          BY <3>1, <5>1
      <4> QED
        BY <4>1, <4>2, <4>3
    <3> HIDE DEF n
    <3>4. Elapsed = pulses + (IF running THEN n ELSE 0)
      BY DEF Elapsed, n
    <3> QED
      BY <3>1, <3>2, <3>3, <3>4
  <2>4. ASSUME NEW c \in TimeCells PROVE (NotYet(c) \/ Shown(c))'
    <3>1. Taken(c)' = Taken(c) /\ Taken(c) \in 5 .. 83 /\ Age(c)' = Age(c)
      BY <2>2, TimeCellIs, CellIs DEF Age, Taken, Slot
    <3>2. Pos \in Int /\ (Pos >= -2 => Age(c) \in Nat)
      <4>1. Pos \in Int
        <5>1. next_state \in Int
          BY <1>1 DEF MachineInv, MachineType
        <5> QED
          BY <5>1 DEF Pos
      <4> QED
        BY <3>1, <4>1 DEF Age
    <3>3. CASE NotYet(c)
      BY <2>1, <2>2, <2>3, <3>1, <3>2, <3>3 DEF NotYet
    <3>4. CASE Shown(c)
      <4>1. ~(pulses' >= Age(c)' + 2)
        BY <2>1, <3>1, <3>2, <3>4 DEF Shown
      <4> QED
        BY <2>1, <2>2, <3>4, <4>1 DEF Shown
    <3> QED
      BY <3>3, <3>4 DEF FreshInv
  <2> QED
    BY <1>2, <2>1, <2>4 DEF FreshInv
<1>5. CASE MoveSwitch \/ UNCHANGED writerVars
  <2>1. /\ now_state' = now_state /\ next_state' = next_state /\ LCD_DATA_VALUE' = LCD_DATA_VALUE
        /\ ddram' = ddram /\ pulses' = pulses /\ parity' = parity /\ running' = running
    BY <1>5 DEF MoveSwitch, writerVars, bus, display, time
  <2>2. Pos' = Pos /\ Elapsed' = Elapsed
    BY <2>1 DEF Pos, Elapsed
  <2>3. ASSUME NEW c PROVE (NotYet(c)' <=> NotYet(c)) /\ (Shown(c)' <=> Shown(c))
    BY <2>1, <2>2 DEF NotYet, Shown, Age, Taken, Slot
  <2> QED
    BY <1>2, <2>1, <2>3 DEF FreshInv
<1> QED
  BY <1>3, <1>4, <1>5 DEF WriterNext

LEMMA QuotientBound ==
  ASSUME NEW a \in Nat, NEW b \in Nat \ {0}, NEW k \in Nat, k * b <= a
  PROVE  k <= a \div b
  BY SMT

LEMMA FreshInitially == WriterInit => FreshInv
<1> SUFFICES ASSUME WriterInit PROVE FreshInv
  OBVIOUS
<1>1. Pos = -24 /\ Elapsed = 0
  BY DEF WriterInit, Pos, Elapsed
<1>2. ASSUME NEW c \in TimeCells PROVE NotYet(c)
  <2>1. c \in Cells /\ Taken(c) \in 5 .. 83
    BY TimeCellIs, CellIs
  <2> QED
    BY <1>1, <2>1 DEF WriterInit, NotYet
<1> QED
  BY <1>2 DEF WriterInit, FreshInv

\* A second has room for one rewriting of the display and a pulse more.
LongSecond == 103 * LcdPeriod <= 2 * HalfPeriod

LEMMA ManyPulses ==
  ASSUME LongSecond
  PROVE  (2 * HalfPeriod) \div LcdPeriod >= 103 /\ HalfPeriod \div LcdPeriod >= 4
<1> USE DEF LongSecond
<1>1. HalfPeriod \in Nat /\ 2 * HalfPeriod \in Nat /\ LcdPeriod \in Nat \ {0}
  BY DividersAssumption DEF HalfPeriod, LcdPeriod
<1>2. 4 * LcdPeriod <= HalfPeriod
  BY <1>1
<1>3. (2 * HalfPeriod) \div LcdPeriod \in Int /\ HalfPeriod \div LcdPeriod \in Int
  BY <1>1
<1> QED
  BY <1>1, <1>2, <1>3, QuotientBound

ShownInFull == \A c \in TimeCells : ddram[c][1] = "time" /\ ddram[c][3] = parity

LEMMA EdgeStep ==
  ASSUME LongSecond
  PROVE  WriterInv /\ FreshInv /\ [WriterNext]_writerVars =>
           [SecondEdge /\ running => ShownInFull]_writerVars
<1> SUFFICES ASSUME WriterInv, FreshInv, SecondEdge, running, NEW c \in TimeCells
             PROVE  ddram[c][1] = "time" /\ ddram[c][3] = parity
  BY DEF ShownInFull
<1>1. pulses >= 103 /\ pulses \in Int
  <2> DEFINE n == (2 * HalfPeriod) \div LcdPeriod
  <2>1. pulses \in n .. n + 1
    BY DEF SecondEdge, Length, OneSecond
  <2>2. n \in Int /\ n >= 103
    BY ManyPulses, DividersAssumption DEF HalfPeriod, LcdPeriod
  <2> HIDE DEF n
  <2> QED
    BY <2>1, <2>2
<1>2. Pos \in Int /\ Pos <= 99 /\ Taken(c) \in 5 .. 83
  <2>1. next_state \in 1 .. 42 /\ now_state \in {"write", "TOGGLE_E", "WAITUP"}
    BY DEF WriterInv, MachineInv, MachineType
  <2> QED
    BY <2>1, TimeCellIs, CellIs DEF Pos
<1>3. ~NotYet(c)
  <2> DEFINE n == HalfPeriod \div LcdPeriod
  <2>1. n \in Nat /\ n >= 4 /\ Elapsed = pulses + n
    BY ManyPulses, FirstIs DEF Elapsed
  <2> HIDE DEF n
  <2>2. Elapsed > 106
    BY <1>1, <2>1
  <2> QED
    BY <1>1, <1>2, <2>1, <2>2 DEF NotYet
<1>4. Shown(c)
  BY <1>3 DEF FreshInv
<1>5. Pos >= -2 => Age(c) \in Int /\ Age(c) <= 101
  BY <1>2 DEF Age
<1> QED
  BY <1>1, <1>4, <1>5 DEF Shown

(* Every second is shown in full before it ends, whatever the dividers and *)
(* however the switch is moved, if it has room for 103 pulses.  (With the   *)
(* dividers of the lab it has 131; the 103 cannot be made less: the digits  *)
(* may change right after one has been read, which is on the display one    *)
(* pulse later and read again 102 pulses after the first time.)             *)
THEOREM EverySecondCorrect ==
  ASSUME LongSecond
  PROVE  WriterSpec => EverySecondShown
<1>1. WriterInv /\ FreshInv /\ [WriterNext]_writerVars =>
        [SecondEdge /\ running => \A c \in TimeCells : ddram[c][1] = "time" /\ ddram[c][3] = parity]_writerVars
  BY EdgeStep DEF ShownInFull
<1> QED
  BY FreshInitially, <1>1, FreshStep, WriterInvariance, PTL DEF WriterSpec, EverySecondShown

-----------------------------------------------------------------------------
(***************************************************************************)
(* The name settles (NameSettles).  Once the switch rests, what the        *)
(* machine reads is the name chosen, and one round through the line, from  *)
(* the end of one to the end of the next, puts it into every cell.  That   *)
(* every round ends is shown by counting down the pulses left of it, in    *)
(* binary: a bit that is set is cleared the next time the bits below it    *)
(* are clear.  That the dividers run is a hypothesis.                      *)
(***************************************************************************)
Left == 99 - Pos
RoundEnds == Pos = 99
Clear(n) == Left % n = 0              \* the bits below n, a power of 2
Set(n)   == Left % (2 * n) >= n       \* bit n itself
Bits == {1, 2, 4, 8, 16, 32, 64}

LEMMA CountsDown ==
  ASSUME NEW n \in Bits, NEW a \in 1 .. 125
  PROVE  /\ a % n = 0 => ~((a - 1) % (2 * n) >= n) \/ ~(a % (2 * n) >= n)
         /\ a % n # 0 => ((a - 1) % (2 * n) >= n <=> a % (2 * n) >= n)
<1>1. CASE n = 1
  BY <1>1
<1>2. CASE n = 2
  BY <1>2
<1>3. CASE n = 4
  BY <1>3
<1>4. CASE n = 8
  BY <1>4
<1>5. CASE n = 16
  BY <1>5
<1>6. CASE n = 32
  BY <1>6
<1>7. CASE n = 64
  BY <1>7
<1> QED
  BY <1>1, <1>2, <1>3, <1>4, <1>5, <1>6, <1>7 DEF Bits

LEMMA NextBit ==
  ASSUME NEW n \in Bits, NEW a \in 0 .. 125, a % n = 0, ~(a % (2 * n) >= n)
  PROVE  a % (2 * n) = 0
<1>1. CASE n = 1
  BY <1>1
<1>2. CASE n = 2
  BY <1>2
<1>3. CASE n = 4
  BY <1>3
<1>4. CASE n = 8
  BY <1>4
<1>5. CASE n = 16
  BY <1>5
<1>6. CASE n = 32
  BY <1>6
<1>7. CASE n = 64
  BY <1>7
<1> QED
  BY <1>1, <1>2, <1>3, <1>4, <1>5, <1>6, <1>7 DEF Bits

LEMMA LeftIs == WriterInv => Left \in 0 .. 125 /\ (RoundEnds <=> Left = 0)
<1> SUFFICES ASSUME WriterInv PROVE Left \in 0 .. 125 /\ (RoundEnds <=> Left = 0)
  OBVIOUS
<1>1. next_state \in 1 .. 42 /\ now_state \in {"write", "TOGGLE_E", "WAITUP"}
  BY DEF WriterInv, MachineInv, MachineType
<1> QED
  BY <1>1 DEF Left, RoundEnds, Pos

\* A pulse takes one from what is left of the round; nothing else does.
LEMMA LeftStep ==
  ASSUME WriterInv, [WriterNext]_writerVars, NEW n \in Bits
  PROVE  /\ Pulse /\ ~RoundEnds =>
              /\ Clear(n) /\ Set(n) => ~Set(n)'
              /\ ~Clear(n) => (Set(n)' <=> Set(n))
         /\ ~Pulse => /\ Clear(n)' <=> Clear(n)
                      /\ Set(n)' <=> Set(n)
                      /\ RoundEnds' <=> RoundEnds
<1>1. CASE Pulse /\ ~RoundEnds
  <2>1. Left \in 1 .. 125
    BY <1>1, LeftIs
  <2>2. Left' = Left - 1
    <3>1. Pos' = Pos + 1 /\ Pos \in Int
      BY <1>1, PulseMoves DEF WriterInv, RoundEnds
    <3> QED
      BY <3>1 DEF Left
  <2> HIDE DEF Left
  <2> QED
    BY <1>1, <2>1, <2>2, CountsDown DEF Clear, Set
<1>2. CASE ~Pulse
  <2>1. now_state' = now_state /\ next_state' = next_state
    BY <1>2 DEF WriterNext, SecondEdge, MoveSwitch, writerVars
  <2> QED
    BY <1>2, <2>1 DEF Clear, Set, Left, RoundEnds, Pos
<1> QED
  BY <1>1, <1>2

\* The display writer runs: pulses keep coming.
Running == []WriterInv /\ [][WriterNext]_writerVars /\ []<><<Pulse>>_writerVars

\* What becomes of bit n of the count, and of the bits below it and it, once
\* those below it are clear.
LEMMA BitMoves ==
  ASSUME NEW n \in Bits, NEW m, m = 2 * n
  PROVE  /\ WriterInv /\ [WriterNext]_writerVars /\ ~RoundEnds =>
              /\ Clear(n) /\ Set(n) => (Clear(n) /\ Set(n))' \/ ~Set(n)'
              /\ ~Clear(n) /\ ~Set(n) => ~Set(n)'
         /\ WriterInv /\ <<Pulse>>_writerVars /\ ~RoundEnds /\ Clear(n) /\ Set(n) => ~Set(n)'
         /\ WriterInv /\ Clear(n) /\ ~Set(n) => Clear(m)
<1>1. WriterInv /\ Clear(n) /\ ~Set(n) => Clear(m)
  BY LeftIs, NextBit DEF Clear, Set
<1>2. ASSUME WriterInv, [WriterNext]_writerVars, ~RoundEnds
      PROVE  /\ Clear(n) /\ Set(n) => (Clear(n) /\ Set(n))' \/ ~Set(n)'
             /\ ~Clear(n) /\ ~Set(n) => ~Set(n)'
  <2>1. CASE Pulse
    BY <1>2, <2>1, LeftStep
  <2>2. CASE ~Pulse
    BY <1>2, <2>2, LeftStep
  <2> QED
    BY <2>1, <2>2
<1>3. ASSUME WriterInv, <<Pulse>>_writerVars, ~RoundEnds, Clear(n), Set(n)
      PROVE  ~Set(n)'
  BY <1>3, LeftStep DEF WriterNext
<1> QED
  BY <1>1, <1>2, <1>3

\* Every round of the two lines ends.
LEMMA RoundsEnd == Running => []<>RoundEnds
<1>1. WriterInv => Clear(1)
  BY LeftIs DEF Clear
<1>2. Running => []<>(Clear(2) \/ RoundEnds)
  <2>1. /\ WriterInv /\ [WriterNext]_writerVars /\ ~RoundEnds =>
             /\ Clear(1) /\ Set(1) => (Clear(1) /\ Set(1))' \/ ~Set(1)'
             /\ ~Clear(1) /\ ~Set(1) => ~Set(1)'
        /\ WriterInv /\ <<Pulse>>_writerVars /\ ~RoundEnds /\ Clear(1) /\ Set(1) => ~Set(1)'
        /\ WriterInv /\ Clear(1) /\ ~Set(1) => Clear(2)
    BY BitMoves DEF Bits
  <2> QED
    BY <1>1, <2>1, PTL DEF Running
<1>3. Running => []<>(Clear(4) \/ RoundEnds)
  <2>1. /\ WriterInv /\ [WriterNext]_writerVars /\ ~RoundEnds =>
             /\ Clear(2) /\ Set(2) => (Clear(2) /\ Set(2))' \/ ~Set(2)'
             /\ ~Clear(2) /\ ~Set(2) => ~Set(2)'
        /\ WriterInv /\ <<Pulse>>_writerVars /\ ~RoundEnds /\ Clear(2) /\ Set(2) => ~Set(2)'
        /\ WriterInv /\ Clear(2) /\ ~Set(2) => Clear(4)
    BY BitMoves DEF Bits
  <2> QED
    BY <1>2, <2>1, PTL DEF Running
<1>4. Running => []<>(Clear(8) \/ RoundEnds)
  <2>1. /\ WriterInv /\ [WriterNext]_writerVars /\ ~RoundEnds =>
             /\ Clear(4) /\ Set(4) => (Clear(4) /\ Set(4))' \/ ~Set(4)'
             /\ ~Clear(4) /\ ~Set(4) => ~Set(4)'
        /\ WriterInv /\ <<Pulse>>_writerVars /\ ~RoundEnds /\ Clear(4) /\ Set(4) => ~Set(4)'
        /\ WriterInv /\ Clear(4) /\ ~Set(4) => Clear(8)
    BY BitMoves DEF Bits
  <2> QED
    BY <1>3, <2>1, PTL DEF Running
<1>5. Running => []<>(Clear(16) \/ RoundEnds)
  <2>1. /\ WriterInv /\ [WriterNext]_writerVars /\ ~RoundEnds =>
             /\ Clear(8) /\ Set(8) => (Clear(8) /\ Set(8))' \/ ~Set(8)'
             /\ ~Clear(8) /\ ~Set(8) => ~Set(8)'
        /\ WriterInv /\ <<Pulse>>_writerVars /\ ~RoundEnds /\ Clear(8) /\ Set(8) => ~Set(8)'
        /\ WriterInv /\ Clear(8) /\ ~Set(8) => Clear(16)
    BY BitMoves DEF Bits
  <2> QED
    BY <1>4, <2>1, PTL DEF Running
<1>6. Running => []<>(Clear(32) \/ RoundEnds)
  <2>1. /\ WriterInv /\ [WriterNext]_writerVars /\ ~RoundEnds =>
             /\ Clear(16) /\ Set(16) => (Clear(16) /\ Set(16))' \/ ~Set(16)'
             /\ ~Clear(16) /\ ~Set(16) => ~Set(16)'
        /\ WriterInv /\ <<Pulse>>_writerVars /\ ~RoundEnds /\ Clear(16) /\ Set(16) => ~Set(16)'
        /\ WriterInv /\ Clear(16) /\ ~Set(16) => Clear(32)
    BY BitMoves DEF Bits
  <2> QED
    BY <1>5, <2>1, PTL DEF Running
<1>7. Running => []<>(Clear(64) \/ RoundEnds)
  <2>1. /\ WriterInv /\ [WriterNext]_writerVars /\ ~RoundEnds =>
             /\ Clear(32) /\ Set(32) => (Clear(32) /\ Set(32))' \/ ~Set(32)'
             /\ ~Clear(32) /\ ~Set(32) => ~Set(32)'
        /\ WriterInv /\ <<Pulse>>_writerVars /\ ~RoundEnds /\ Clear(32) /\ Set(32) => ~Set(32)'
        /\ WriterInv /\ Clear(32) /\ ~Set(32) => Clear(64)
    BY BitMoves DEF Bits
  <2> QED
    BY <1>6, <2>1, PTL DEF Running
<1>8. Running => []<>(Clear(128) \/ RoundEnds)
  <2>1. /\ WriterInv /\ [WriterNext]_writerVars /\ ~RoundEnds =>
             /\ Clear(64) /\ Set(64) => (Clear(64) /\ Set(64))' \/ ~Set(64)'
             /\ ~Clear(64) /\ ~Set(64) => ~Set(64)'
        /\ WriterInv /\ <<Pulse>>_writerVars /\ ~RoundEnds /\ Clear(64) /\ Set(64) => ~Set(64)'
        /\ WriterInv /\ Clear(64) /\ ~Set(64) => Clear(128)
    BY BitMoves DEF Bits
  <2> QED
    BY <1>7, <2>1, PTL DEF Running
<1>9. WriterInv /\ Clear(128) => RoundEnds
  BY LeftIs DEF Clear
<1> QED
  BY <1>8, <1>9, PTL DEF Running

\* A letter on the bus and in a cell.
BusRight ==
  now_state = "TOGGLE_E" /\ LCD_DATA_VALUE[1] = "name" => LCD_DATA_VALUE[3] = SW0
NameRight(c) == ddram[c][1] = "name" /\ ddram[c][3] = SW0

\* The cells this round has passed are right; all of them are.
Swept    == Pos >= -2 /\ \A c \in NameCells : Taken(c) <= Pos => NameRight(c)
AllRight == Pos >= -2 /\ \A c \in NameCells : NameRight(c)

LEMMA NameCellIs ==
  ASSUME NEW c \in NameCells
  PROVE  c \in Written /\ Meant(c).what = "name"
<1>1. c \in Cells /\ Meant(c).what = "name"
  BY DEF NameCells
<1>2. ~(c \in 74 .. 79)
  <2> SUFFICES ASSUME c \in 74 .. 79 PROVE FALSE
    OBVIOUS
  <2>1. ~(c < 64) /\ c - 63 \in 11 .. 16
    OBVIOUS
  <2>2. SecondLine[c - 63].what = "code"
    BY <2>1, LettersEndTheLine
  <2> QED
    BY <1>1, <2>1, <2>2 DEF Meant
<1> QED
  BY <1>1, <1>2 DEF Cells, Written

\* A pulse while the switch rests, for one cell.
LEMMA NamePulse ==
  ASSUME MachineInv, Pulse, BusRight, Pos >= -2, NEW c \in NameCells
  PROVE  NameRight(c) \/ Pos' = Taken(c) => NameRight(c)'
<1>1. SW0' = SW0
  BY DEF Pulse
<1>2. CASE Pos' = Taken(c)
  <2>1. TOGGLE_E /\ ddram'[c] = LCD_DATA_VALUE /\ LCD_DATA_VALUE[1] = "name"
    BY <1>2, NameCellIs, PulsePlaces
  <2>2. LCD_DATA_VALUE[3] = SW0
    BY <2>1 DEF TOGGLE_E, BusRight
  <2> QED
    BY <1>1, <2>1, <2>2 DEF NameRight
<1>3. CASE Pos' # Taken(c)
  <2>1. Pos \in Int
    BY PulseMoves
  <2>2. ddram'[c] = ddram[c]
    BY <1>3, <2>1, NameCellIs, PulsePlaces
  <2> QED
    BY <1>1, <1>3, <2>2 DEF NameRight
<1> QED
  BY <1>2, <1>3

\* The rounds, while the switch rests.
LEMMA NameStep ==
  ASSUME WriterInv, [WriterNext]_writerVars, SW0' = SW0
  PROVE  /\ Pulse => BusRight'
         /\ BusRight => BusRight'
         /\ BusRight /\ Pulse /\ RoundEnds => Swept'
         /\ BusRight /\ Swept /\ ~RoundEnds => Swept'
         /\ BusRight /\ AllRight => AllRight'
<1>1. NameCells' = NameCells /\ \A c : Taken(c)' = Taken(c)
  BY DEF NameCells, Taken, Slot
<1>2. \A c \in NameCells : Taken(c) \in 5 .. 83
  BY NameCellIs, CellIs
<1>3. CASE Pulse
  <2>1. BusRight'
    <3>1. CASE Write
      BY <1>3, <3>1 DEF Write, Reading, Pulse, BusRight
    <3>2. CASE TOGGLE_E \/ WAITUP
      BY <3>2 DEF TOGGLE_E, WAITUP, BusRight
    <3> QED
      BY <1>3, <3>1, <3>2 DEF Pulse
  <2>2. /\ Pos \in -26 .. 99 /\ Pos' \in -26 .. 99
        /\ Pos' = IF Pos = 99 THEN -2 ELSE Pos + 1
    BY <1>3, PulseMoves DEF WriterInv
  <2>3. ASSUME RoundEnds PROVE Swept'
    <3>1. Pos' = -2
      BY <2>2, <2>3 DEF RoundEnds
    <3> QED
      BY <1>1, <1>2, <3>1 DEF Swept
  <2>4. ASSUME BusRight, Swept, ~RoundEnds PROVE Swept'
    <3>1. Pos' = Pos + 1 /\ Pos >= -2
      BY <2>2, <2>4 DEF RoundEnds, Swept
    <3>2. ASSUME NEW c \in NameCells, Taken(c) <= Pos' PROVE NameRight(c)'
      <4>1. Taken(c) <= Pos \/ Pos' = Taken(c)
        BY <1>2, <2>2, <3>1, <3>2
      <4>2. NameRight(c) \/ Pos' = Taken(c)
        BY <2>4, <4>1 DEF Swept
      <4> QED
        BY <1>3, <2>4, <3>1, <4>2, NamePulse DEF WriterInv
    <3> QED
      BY <1>1, <2>2, <3>1, <3>2 DEF Swept
  <2>5. ASSUME BusRight, AllRight PROVE AllRight'
    <3>1. Pos >= -2 /\ Pos' >= -2
      BY <2>2, <2>5 DEF AllRight
    <3>2. ASSUME NEW c \in NameCells PROVE NameRight(c)'
      BY <1>3, <2>5, <3>1, NamePulse DEF WriterInv, AllRight
    <3> QED
      BY <1>1, <3>1, <3>2 DEF AllRight
  <2> QED
    BY <2>1, <2>3, <2>4, <2>5
<1>4. CASE ~Pulse
  <2>1. /\ now_state' = now_state /\ next_state' = next_state
        /\ LCD_DATA_VALUE' = LCD_DATA_VALUE /\ ddram' = ddram
    BY <1>4 DEF WriterNext, SecondEdge, MoveSwitch, writerVars, bus, display
  <2>2. Pos' = Pos
    BY <2>1 DEF Pos
  <2>3. \A c : NameRight(c)' <=> NameRight(c)
    BY <2>1 DEF NameRight
  <2>4. BusRight' <=> BusRight
    BY <2>1 DEF BusRight
  <2>5. (Swept' <=> Swept) /\ (AllRight' <=> AllRight)
    BY <1>1, <2>2, <2>3 DEF Swept, AllRight
  <2> QED
    BY <1>4, <2>4, <2>5
<1> QED
  BY <1>3, <1>4

SwitchRests == <>[][SW0' = SW0]_writerVars

\* Two ends of a round, the second after the switch has come to rest.
LEMMA NameIsWritten == Running /\ SwitchRests => NameSettles
<1>1. WriterInv /\ [WriterNext]_writerVars /\ [SW0' = SW0]_writerVars =>
        /\ Pulse => BusRight'
        /\ BusRight => BusRight'
        /\ BusRight /\ Pulse /\ RoundEnds => Swept'
        /\ BusRight /\ Swept /\ ~RoundEnds => Swept'
        /\ BusRight /\ AllRight => AllRight'
  BY NameStep DEF writerVars
<1>2. Swept /\ RoundEnds => AllRight
  BY NameCellIs, CellIs DEF Swept, RoundEnds, AllRight
<1>3. AllRight => \A c \in NameCells : ddram[c][1] = "name" /\ ddram[c][3] = SW0
  BY DEF AllRight, NameRight
<1>4. WriterInv /\ [WriterNext]_writerVars /\ ~Pulse => (RoundEnds' <=> RoundEnds)
  BY LeftStep DEF Bits
<1> QED
  BY <1>1, <1>2, <1>3, <1>4, RoundsEnd, PTL DEF Running, SwitchRests, NameSettles

\* Pulses are what moves the machine: an edge of clk that follows an edge has
\* had a pulse in between, as a pulse is no longer than half a period.
Edged == pulses = 0 /\ running

LEMMA EdgeThenPulse ==
  /\ WriterInv /\ [WriterNext]_writerVars =>
       /\ SecondEdge => Edged'
       /\ Edged => Edged' \/ Pulse
       /\ Edged => ~SecondEdge
  /\ WriterInv /\ Pulse => <<Pulse>>_writerVars
<1>1. ASSUME WriterInv PROVE pulses \in Nat /\ running \in BOOLEAN
  <2>1. Max(Length) \in Nat
    BY LengthIs DEF Length
  <2> QED
    BY <1>1, <2>1 DEF WriterInv, TimeType
<1>2. ASSUME SecondEdge PROVE Edged'
  BY <1>2 DEF SecondEdge, Edged
<1>3. ASSUME [WriterNext]_writerVars, Edged, ~Pulse PROVE Edged'
  <2>1. CASE SecondEdge
    BY <1>2, <2>1
  <2>2. CASE MoveSwitch \/ UNCHANGED writerVars
    BY <1>3, <2>2 DEF MoveSwitch, writerVars, time, Edged
  <2> QED
    BY <1>3, <2>1, <2>2 DEF WriterNext
<1>4. ASSUME Edged PROVE ~SecondEdge
  <2> DEFINE n == (2 * HalfPeriod) \div LcdPeriod
  <2>1. n \in Int /\ n >= 1
    <3>1. /\ 2 * HalfPeriod \in Nat /\ LcdPeriod \in Nat \ {0}
          /\ 1 * LcdPeriod <= 2 * HalfPeriod
      BY DividersAssumption DEF HalfPeriod, LcdPeriod
    <3>2. n \in Int
      BY <3>1
    <3>3. n >= 1
      BY <3>1, QuotientBound
    <3> QED
      BY <3>2, <3>3
  <2>2. Length = n .. n + 1
    BY <1>4 DEF Edged, Length, OneSecond
  <2> HIDE DEF n
  <2>3. ~(0 \in n .. n + 1)
    BY <2>1
  <2> QED
    BY <1>4, <2>2, <2>3 DEF SecondEdge, Edged
<1>5. ASSUME WriterInv, Pulse PROVE <<Pulse>>_writerVars
  <2>1. pulses' = pulses + 1 /\ pulses \in Nat
    BY <1>1, <1>5 DEF Pulse
  <2>2. pulses' # pulses
    BY <2>1
  <2> QED
    BY <1>5, <2>2 DEF writerVars, time
<1> QED
  BY <1>2, <1>3, <1>4, <1>5

LEMMA PulsesCome ==
  []WriterInv /\ [][WriterNext]_writerVars /\ []<><<Pulse \/ SecondEdge>>_writerVars => Running
<1>1. <<Pulse \/ SecondEdge>>_writerVars => Pulse \/ SecondEdge
  OBVIOUS
<1> QED
  BY <1>1, EdgeThenPulse, PTL DEF Running

-----------------------------------------------------------------------------
(* The board: whichever design is on it takes the steps of its own          *)
(* specification, and the others none.                                      *)
BoardInv ==
  /\ design = "scomp" => TypeOK
  /\ LcdClockTypeOK /\ WriterInv /\ FsmInv /\ WordInv /\ PolledInv

LEMMA EachDesign ==
  [BoardNext]_boardVars =>
    /\ [Next]_vars /\ [LcdClockNext]_clockVars /\ [WriterNext]_writerVars
    /\ [FsmNext]_fsmVars /\ [BounceNext]_bounceVars /\ [PolledNext]_polledVars
    /\ design' = design
<1> SUFFICES ASSUME [BoardNext]_boardVars
             PROVE  /\ [Next]_vars /\ [LcdClockNext]_clockVars /\ [WriterNext]_writerVars
                    /\ [FsmNext]_fsmVars /\ [BounceNext]_bounceVars /\ [PolledNext]_polledVars
                    /\ design' = design
  OBVIOUS
<1> USE DEF OnBoard, ScompStays, ClockStays, WriterStays, SmallStays
<1>1. CASE Scomp(Next)
  BY <1>1 DEF Scomp
<1>2. CASE Clock(LcdClockNext)
  BY <1>2 DEF Clock
<1>3. CASE Writer(WriterNext)
  BY <1>3 DEF Writer
<1>4. CASE Fsm(FsmNext)
  BY <1>4 DEF Fsm, Small
<1>5. CASE Screen(BounceNext)
  BY <1>5 DEF Screen, Small
<1>6. CASE Recorder(PolledNext)
  BY <1>6 DEF Recorder, Small
<1>7. CASE UNCHANGED boardVars
  BY <1>7 DEF boardVars
<1> QED
  BY <1>1, <1>2, <1>3, <1>4, <1>5, <1>6, <1>7 DEF BoardNext

LEMMA BoardInitially == BoardInit => BoardInv
  BY TypeInitially, ClockInitially, WriterInitially, FsmInitially, WordInitially, PolledInitially
     DEF BoardInit, BoardInv

LEMMA BoardStep == BoardInv /\ [BoardNext]_boardVars => BoardInv'
  BY EachDesign, TypeStep, ClockTypeStep, WriterInvStep, FsmStep, WordNext, PolledStep
     DEF BoardInv

LEMMA BoardInvariance == BoardSpec => []BoardInv
  BY BoardInitially, BoardStep, PTL DEF BoardSpec

(* Whichever of the six designs is on the board, and whatever its          *)
(* constants: it stays within its types, no character of the display is    *)
(* ever in another one's place, and the word never leaves the screen.      *)
THEOREM BoardTypeCorrect == BoardSpec => [](BoardTypeOK /\ InPlace /\ OnScreen)
<1>1. BoardInv => BoardTypeOK /\ InPlace /\ OnScreen
  BY TypeParts DEF BoardInv, BoardTypeOK, FsmInv, WordInv, PolledInv, WriterInv, MachineInv
<1> QED
  BY <1>1, BoardInvariance, PTL

-----------------------------------------------------------------------------
\* Without a SCOMP on the board there is no program to finish.
ScompInv ==
  /\ design = "scomp" => IInv /\ ProgramInv
  /\ design # "scomp" => state = "reset_pc"

LEMMA ScompOnBoard ==
  ASSUME TestMachine
  PROVE  /\ BoardInit => ScompInv
         /\ ScompInv /\ [BoardNext]_boardVars => ScompInv'
<1>1. BoardInit => ScompInv
  BY IInvInitially, ProgramInitially DEF BoardInit, ScompInv, NoScomp
<1>2. ASSUME ScompInv, [BoardNext]_boardVars PROVE ScompInv'
  <2>1. [Next]_vars /\ design' = design
    BY <1>2, EachDesign
  <2>2. CASE design = "scomp"
    BY <1>2, <2>1, <2>2, IInvStep, ProgramStep DEF ScompInv
  <2>3. CASE design # "scomp"
    <3>1. state' = state
      BY <1>2, <2>3 DEF BoardNext, Scomp, Clock, Writer, Fsm, Screen, Recorder, Small, OnBoard,
                        ScompStays, vars, boardVars
    <3> QED
      BY <1>2, <2>1, <2>3, <3>1 DEF ScompInv
  <2> QED
    BY <2>2, <2>3
<1> QED
  BY <1>1, <1>2

(* All that is promised of the six designs, on the board that carries one  *)
(* of them: the program of SCOMP ends with its results; the clock of lab 7 *)
(* is a settable clock and shows every second in full; the timed state     *)
(* machine lets no glitch through; the word never touches the message.     *)
THEOREM BoardCorrect ==
  ASSUME TestMachine, LongSecond, OddHeight, HoldsMessage
  PROVE  BoardSpec => /\ [](ProgramResults /\ MessageIntact)
                      /\ ImplementsClockSpec /\ EverySecondShown /\ Debounced
<1> DEFINE BInv == BoardInv /\ ScompInv /\ FreshInv /\ CaughtInv
<1>1. BoardInit => BInv
  <2>1. BoardInit => BoardInv
    BY BoardInitially
  <2> QED
    BY <2>1, ScompOnBoard, FreshInitially, CaughtInitially DEF BoardInit
<1>2. BInv /\ [BoardNext]_boardVars => BInv'
  BY BoardStep, ScompOnBoard, FreshStep, CaughtNext, EachDesign DEF BoardInv
<1>3. BInv => ProgramResults /\ MessageIntact
  <2>1. ScompInv => ProgramResults
    BY ProgramMeans DEF ScompInv, ProgramResults, Finished
  <2> QED
    BY <2>1, CaughtMeans
<1>4. BInv /\ [BoardNext]_boardVars => [Abstract!Next]_(Abstract!vars)
  BY EachDesign, ClockMapsStep DEF BoardInv
<1>5. BoardInit => Abstract!Init
  BY ClockMapsInitially DEF BoardInit
<1>6. BInv /\ [BoardNext]_boardVars =>
        [SecondEdge /\ running => \A c \in TimeCells : ddram[c][1] = "time" /\ ddram[c][3] = parity]_writerVars
  <2>1. BInv /\ [BoardNext]_boardVars => [SecondEdge /\ running => ShownInFull]_writerVars
    BY EachDesign, EdgeStep DEF BoardInv
  <2> QED
    BY <2>1 DEF ShownInFull
<1>7. BInv /\ [BoardNext]_boardVars =>
        [/\ y < y' => x' = 1 /\ stable' >= time1
         /\ y > y' => FsmReset \/ (x' = 0 /\ stable' >= time2)]_fsmVars
  <2>1. BInv /\ [BoardNext]_boardVars => [HeldSteady]_fsmVars
    BY EachDesign, SteadyStep DEF BoardInv
  <2> QED
    BY <2>1 DEF HeldSteady
<1> HIDE DEF BInv
<1> QED
  BY <1>1, <1>2, <1>3, <1>4, <1>5, <1>6, <1>7, PTL
     DEF BoardSpec, ImplementsClockSpec, Abstract!Spec, EverySecondShown, Debounced

-----------------------------------------------------------------------------
\* What the dividers do when the display writer is on the board: their next
\* pulse or edge is never blocked.
DividersRun ==
  [](design = "writer" =>
       ENABLED <<Writer(Pulse \/ SecondEdge) \/ Screen(Move) \/ Recorder(FrameIn)>>_boardVars)

(* Once the switch rests, the display ends up with the name it chooses in  *)
(* every one of its cells, for good, wherever in a round it was moved: no  *)
(* mixture of the two names stays.                                         *)
THEOREM NameCorrect == BoardSpec /\ DividersRun /\ SwitchRests => NameSettlesOnBoard
<1> DEFINE Here == design = "writer"
           D == Writer(Pulse \/ SecondEdge) \/ Screen(Move) \/ Recorder(FrameIn)
<1>1. BoardSpec => []WriterInv /\ [][WriterNext]_writerVars
  <2>1. BoardInv => WriterInv
    BY DEF BoardInv
  <2> QED
    BY <2>1, BoardInvariance, EachDesign, PTL DEF BoardSpec
<1>2. [BoardNext]_boardVars => (Here <=> Here')
  BY EachDesign
<1>3. WriterInv /\ Here /\ <<D>>_boardVars => <<Pulse \/ SecondEdge>>_writerVars
  <2> SUFFICES ASSUME WriterInv, Here, D PROVE <<Pulse \/ SecondEdge>>_writerVars
    OBVIOUS
  <2>1. Pulse \/ SecondEdge
    BY DEF Writer, Screen, Recorder, Small, OnBoard
  <2>2. CASE Pulse
    BY <2>2, EdgeThenPulse
  <2>3. CASE SecondEdge
    <3>1. parity' = 1 - parity /\ parity \in {0, 1}
      BY <2>3 DEF SecondEdge, WriterInv, TimeType
    <3>2. parity' # parity
      BY <3>1
    <3> QED
      BY <2>3, <3>2 DEF writerVars, time
  <2> QED
    BY <2>1, <2>2, <2>3
<1>4. Here <=> design = "writer"
  OBVIOUS
<1> HIDE DEF Here
<1>5. BoardSpec /\ DividersRun => []<><<Pulse \/ SecondEdge>>_writerVars \/ []~Here
  BY <1>1, <1>2, <1>3, <1>4, PTL DEF BoardSpec, BoardFairness, DividersRun
<1> QED
  BY <1>1, <1>4, <1>5, PulsesCome, NameIsWritten, PTL DEF NameSettlesOnBoard
=============================================================================
