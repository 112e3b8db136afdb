------------------------------- MODULE Bounce -------------------------------
(***************************************************************************)
(* The word ALTERA that main of app_software/media_interrupt_C moves over  *)
(* the 80 x 60 character screen, one step per refresh, turning round at    *)
(* the screen edges and at the blue box.  Everything else main does in a   *)
(* refresh is in module MediaPS2.                                          *)
(***************************************************************************)
EXTENDS Integers

CONSTANTS
  char_buffer_x, char_buffer_y,        \* last column and row of the screen: 79, 59
  blue_x1, blue_x2, blue_y1, blue_y2   \* the box: columns 28 to 52, rows 26 to 34

WordEnd == 5   \* the word is six characters long

\* The box leaves room for the word, and one more column or row, on every side.
ASSUME LayoutAssumption ==
  /\ {char_buffer_x, char_buffer_y, blue_x1, blue_x2, blue_y1, blue_y2} \subseteq Nat
  /\ WordEnd + 1 < blue_x1 /\ blue_x1 <= blue_x2 /\ blue_x2 + WordEnd + 1 < char_buffer_x
  /\ 1 < blue_y1 /\ blue_y1 <= blue_y2 /\ blue_y2 + 1 < char_buffer_y

VARIABLES ALT_x1, ALT_x2, ALT_y, ALT_inc_x, ALT_inc_y

bounceVars == <<ALT_x1, ALT_x2, ALT_y, ALT_inc_x, ALT_inc_y>>

\* The next position is at the top or bottom (a side) of the screen.
AtTopOrBottom == ALT_y' \in {0, char_buffer_y}
AtSide_LeftOnly == ALT_x1' = 0
AtSide == ALT_x2' = char_buffer_x \/ ALT_x1' = 0

\* It touches the box from outside: within one row of it, and one of the
\* word's ends within one column.
NearBox_RowsOnly == ALT_y' \in blue_y1 - 1 .. blue_y2 + 1

NearBox ==
  /\ ALT_y' \in blue_y1 - 1 .. blue_y2 + 1
  /\ \/ ALT_x1' \in blue_x1 - 1 .. blue_x2 + 1
     \/ ALT_x2' \in blue_x1 - 1 .. blue_x2 + 1
AboveOrBelowBox == ALT_y' \in {blue_y1 - 1, blue_y2 + 1}

Turn(inc, b) == IF b THEN -inc ELSE inc

Move_NoBox ==
  /\ ALT_x1' = ALT_x1 + ALT_inc_x
  /\ ALT_x2' = ALT_x2 + ALT_inc_x
  /\ ALT_y'  = ALT_y + ALT_inc_y
  /\ ALT_inc_y' = Turn(ALT_inc_y, AtTopOrBottom)
  /\ ALT_inc_x' = Turn(ALT_inc_x, AtSide)

\* Edges and box are looked at one after the other: two of them together
\* turn an increment twice.
Move ==
  /\ ALT_x1' = ALT_x1 + ALT_inc_x
  /\ ALT_x2' = ALT_x2 + ALT_inc_x
  /\ ALT_y'  = ALT_y + ALT_inc_y
  /\ ALT_inc_y' = Turn(Turn(ALT_inc_y, AtTopOrBottom), NearBox /\ AboveOrBelowBox)
  /\ ALT_inc_x' = Turn(Turn(ALT_inc_x, AtSide), NearBox /\ ~AboveOrBelowBox)

BounceInit ==
  /\ ALT_x1 = 0 /\ ALT_x2 = WordEnd /\ ALT_y = 0
  /\ ALT_inc_x = 1 /\ ALT_inc_y = 1

BounceNext == Move
\* The main loop keeps being released by the interval timer.
BounceSpec == BounceInit /\ [][BounceNext]_bounceVars /\ WF_bounceVars(Move)
-----------------------------------------------------------------------------
BounceTypeOK ==
  /\ ALT_x1 \in Int /\ ALT_x2 = ALT_x1 + WordEnd /\ ALT_y \in Int
  /\ ALT_inc_x \in {-1, 1} /\ ALT_inc_y \in {-1, 1}

(* The word stays on the screen, for ever: the edges are tested for        *)
(* equality only, so a position beyond one would never be turned back, and *)
(* VGA_text would write outside the character buffer.                      *)
OnScreen == ALT_x1 >= 0 /\ ALT_x2 <= char_buffer_x /\ ALT_y \in 0 .. char_buffer_y

\* "Altera DE2" and "Media Computer": two rows of the box, column 5 on.
Overlaps(x1, x2, y1, y2) == ALT_x1 <= x2 /\ x1 <= ALT_x2 /\ ALT_y \in y1 .. y2

(* The moving word never touches the message in the box, so erasing it     *)
(* behind itself never erases the message.                                 *)
MessageIntact == ~Overlaps(blue_x1 + 5, blue_x1 + 18, blue_y1 + 3, blue_y1 + 4)

(* The word is never caught between the box and an edge: it reaches each   *)
(* of the four edges of the screen again and again.                        *)
KeepsCrossing ==
  /\ []<>(ALT_x1 = 0) /\ []<>(ALT_x2 = char_buffer_x)
  /\ []<>(ALT_y = 0)  /\ []<>(ALT_y = char_buffer_y)
=============================================================================
