---------------------------- MODULE MCLcdDriver ----------------------------
(* The panel driver: a narrow panel, and the real one.                      *)
EXTENDS LcdDriver

P(c) == [op |-> "print", c |-> c]
Control(name) == [op |-> name]
MoveCursor(row, col) == [op |-> "H", row |-> row, col |-> col]

MCTexts ==
  { <<Control("J"), P("a"), P("b"), P("c"), Control("LF")>>,
    <<Control("CR"), P("b"), Control("K"), P("a"), P("b"), P("c"), P("a")>>,
    <<MoveCursor(4, 2), Control("BS"), Control("K"), Control("LF"), P("c")>> }

\* A line of 63 characters on the real panel.
MCLongTexts == { <<Control("J")>> \o [i \in 1 .. 63 |-> P(IF i = 63 THEN "b" ELSE "a")] }
=============================================================================
