------------------------------ MODULE LcdWriter ------------------------------
(***************************************************************************)
(* The display half of the lab 7 "Better Circuit": the state machine of    *)
(* entity lcdclk (lcdclk.vhd) that keeps writing the name and the time to  *)
(* the 16 x 2 character display, and the display itself.                   *)
(*                                                                         *)
(* One Pulse is one pulse of cntr_clk.  The clock (module LcdClock) appears *)
(* here only as the parity of the second: a digit on the display is the    *)
(* parity of the second it was read in.  (A digit two seconds old would    *)
(* have been one second old before.)                                       *)
(* Likewise a letter of the name is the position of the switch SW0 at the  *)
(* time it was read.                                                       *)
(***************************************************************************)
EXTENDS Integers, Sequences, SequencesExt, FiniteSetsExt

CONSTANTS
  ClkDiv,      \* count in clk_div.vhd: 25000000 clocks to half a period of clk
  LcdDiv,      \* count_clk in lcdclk.vhd: 380000 clocks to a pulse of cntr_clk
  MaxToggles   \* bound on how often SW0 is moved

ASSUME DividersAssumption ==
  ClkDiv \in Nat /\ LcdDiv \in Nat /\ LcdDiv < ClkDiv /\ MaxToggles \in Nat

\* Both counters count from 0 up to and including their limit.
HalfPeriod == ClkDiv + 1
LcdPeriod_FromComment == 769230 + 1
LcdPeriod == LcdDiv + 1

\* Pulses of cntr_clk before the first rising edge of clk, and between two.
FirstSecond == LET n == HalfPeriod \div LcdPeriod IN n .. n + 1
OneSecond   == LET n == (2 * HalfPeriod) \div LcdPeriod IN n .. n + 1
-----------------------------------------------------------------------------
(* What the state machine writes, one record per state that drives the     *)
(* bus: an instruction (RS = 0) or a character (RS = 1).                   *)
Instruction(code) == [rs |-> 0, what |-> "code", n |-> code]
Letter(i)   == [rs |-> 1, what |-> "name", n |-> i]    \* name1 .. name11
Digit(i)    == [rs |-> 1, what |-> "time", n |-> i]    \* h2 h1 m2 m1 s2 s1, am_or_pm
Fixed(c)    == [rs |-> 1, what |-> "code", n |-> c]
Space == Fixed(32)
Colon == Fixed(58)
Spaces(k) == [i \in 1 .. k |-> Space]

ClearDisplay == 1
Line1 == 128               \* X"80": set the address to 0
Line2_SameLine == 128
Line2 == 192               \* X"C0": set it to 64

\* INITIAL_START, INITIAL_2, INITIAL_3, FUNC_SET, DISP_OFF, CLEAR, DISP_ON, MODE_SET
Initialise == <<Instruction(56), Instruction(56), Instruction(56), Instruction(56),
                Instruction(8), Instruction(ClearDisplay), Instruction(12), Instruction(6)>>

\* STATE_1 .. STATE_16 and STATE_17 .. STATE_32
FirstLine  == <<Letter(1), Letter(2), Letter(3), Letter(4), Space>>
              \o [i \in 1 .. 7 |-> Letter(4 + i)] \o Spaces(4)
SecondLine == <<Digit(1), Digit(2), Colon, Digit(3), Digit(4), Colon, Digit(5), Digit(6),
                Space, Digit(7), Fixed(77)>> \o Spaces(5)

Script ==
  Initialise \o <<Instruction(Line1)>> \o FirstLine \o <<Instruction(Line2)>> \o SecondLine

HOME   == Len(Initialise) + 1
LINE_2 == HOME + Len(FirstLine) + 1

\* The state a writing state is followed by: STATE_32 goes back to HOME.
Successor_Line2(i) == IF i = Len(Script) THEN LINE_2 ELSE i + 1
Successor(i) == IF i = Len(Script) THEN HOME ELSE i + 1
-----------------------------------------------------------------------------
VARIABLES
  now_state,      \* "write" (the state numbered next_state), "TOGGLE_E" or "WAITUP"
  next_state,
  LCD_EN, LCD_RS, LCD_DATA_VALUE,
  address, ddram,         \* the display: cursor and character memory
  parity,                 \* the second shown by the clock, modulo 2
  pulses,                 \* pulses of cntr_clk since that second began
  running,                \* history: clk has risen since power-up
  SW0, toggles

bus   == <<LCD_EN, LCD_RS, LCD_DATA_VALUE>>
display == <<address, ddram>>
time  == <<parity, pulses, running>>
writerVars  == <<now_state, next_state, bus, display, time, SW0, toggles>>

Cells == 0 .. 15 \cup 64 .. 79       \* the cells in view
BlankCell == <<"code", 32, 0>>
\* A character as it is read now: what, which, and when or from which switch.
Reading(w) == <<w.what, w.n, CASE w.what = "time" -> parity [] w.what = "name" -> SW0
                               [] OTHER -> 0>>
-----------------------------------------------------------------------------
(* The display takes the bus when LCD_EN falls. *)
PanelTakes ==
  IF LCD_RS = 1
  THEN /\ ddram' = IF address \in Cells THEN [ddram EXCEPT ![address] = LCD_DATA_VALUE] ELSE ddram
       /\ address' = address + 1
  ELSE LET code == LCD_DATA_VALUE[2] IN
       /\ ddram' = IF code = ClearDisplay THEN [c \in Cells |-> BlankCell] ELSE ddram
       /\ address' = IF code = ClearDisplay THEN 0
                     ELSE IF code >= Line1 THEN code - Line1 ELSE address

Write ==
  /\ now_state = "write"
  /\ LET w == Script[next_state] IN
     /\ LCD_EN' = 1 /\ LCD_RS' = w.rs /\ LCD_DATA_VALUE' = Reading(w)
     /\ next_state' = Successor(next_state)
  /\ now_state' = "TOGGLE_E"
  /\ UNCHANGED display

TOGGLE_E ==
  /\ now_state = "TOGGLE_E" /\ now_state' = "WAITUP"
  /\ LCD_EN' = 0
  /\ PanelTakes
  /\ UNCHANGED <<next_state, LCD_RS, LCD_DATA_VALUE>>

WAITUP ==
  /\ now_state = "WAITUP" /\ now_state' = "write"
  /\ UNCHANGED <<next_state, bus, display>>

\* The number of pulses a second has room for depends on which it is.
Length == IF running THEN OneSecond ELSE FirstSecond

Pulse ==
  /\ pulses < Max(Length) /\ pulses' = pulses + 1
  /\ Write \/ TOGGLE_E \/ WAITUP
  /\ UNCHANGED <<parity, running, SW0, toggles>>

\* A rising edge of clk: the digits change.
SecondEdge ==
  /\ pulses \in Length
  /\ pulses' = 0 /\ parity' = 1 - parity /\ running' = TRUE
  /\ UNCHANGED <<now_state, next_state, bus, display, SW0, toggles>>

MoveSwitch ==
  /\ toggles < MaxToggles /\ toggles' = toggles + 1
  /\ SW0' = 1 - SW0
  /\ UNCHANGED <<now_state, next_state, bus, display, time>>
-----------------------------------------------------------------------------
WriterInit ==
  /\ now_state = "write" /\ next_state = 1          \* INITIAL_START
  /\ LCD_EN = 0 /\ LCD_RS = 0 /\ LCD_DATA_VALUE = <<"code", 0, 0>>
  /\ address = 0 /\ ddram = [c \in Cells |-> BlankCell]
  /\ parity = 0 /\ pulses = 0 /\ running = FALSE
  /\ SW0 \in {0, 1} /\ toggles = 0

WriterNext == Pulse \/ SecondEdge \/ MoveSwitch

\* The dividers run; nobody has to move the switch.
WriterSpec == WriterInit /\ [][WriterNext]_writerVars /\ WF_writerVars(Pulse \/ SecondEdge)
-----------------------------------------------------------------------------
WriterTypeOK ==
  /\ now_state \in {"write", "TOGGLE_E", "WAITUP"} /\ next_state \in DOMAIN Script
  /\ LCD_EN \in {0, 1} /\ LCD_RS \in {0, 1}
  /\ LCD_EN = 1 <=> now_state = "TOGGLE_E"
  /\ address \in 0 .. 80 /\ DOMAIN ddram = Cells
  /\ parity \in {0, 1} /\ pulses \in 0 .. Max(Length) /\ running \in BOOLEAN /\ SW0 \in {0, 1}

\* The character meant for a cell.
Meant(c) == IF c < 64 THEN FirstLine[c + 1] ELSE SecondLine[c - 63]

(* No character is ever shown in another character's place: the display's  *)
(* own cursor, which the machine never reads back, keeps in step with it.  *)
InPlace ==
  \A c \in Cells :
    \/ ddram[c] = BlankCell
    \/ ddram[c][1] = Meant(c).what /\ ddram[c][2] = Meant(c).n

TimeCells == {c \in Cells : Meant(c).what = "time"}
NameCells == {c \in Cells : Meant(c).what = "name"}

(* Every second is shown in full: before the digits change, all of them    *)
(* and the AM/PM letter have been written since they changed last.  While  *)
(* a line is being rewritten it mixes old digits and new ones; a digit     *)
(* read just before the change is read again 102 pulses later and on the   *)
(* display one pulse after that, and a second has at least 131.            *)
(* (The first half period after power-up is spent on initialisation.)      *)
EverySecondShown ==
  [][SecondEdge /\ running => \A c \in TimeCells : ddram[c][1] = "time" /\ ddram[c][3] = parity]_writerVars

(* When the switch is left alone the display ends up with the name chosen, *)
(* and not a mixture of the two.                                           *)
NameSettles == <>[](\A c \in NameCells : ddram[c][1] = "name" /\ ddram[c][3] = SW0)
=============================================================================
