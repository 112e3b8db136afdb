----------------------------- MODULE LcdDriver -----------------------------
(***************************************************************************)
(* The board support package's driver of the two-line character panel      *)
(* (BSP/drivers/src/altera_avalon_lcd_16207.c): a small terminal that      *)
(* scrolls lines too long for the panel.  write runs in the foreground; a  *)
(* timer routine scrolls every 100 ms and repaints unless the foreground   *)
(* is active.  The driver never reads the panel: it keeps its own copy of  *)
(* what it shows and of its address counter.                               *)
(*                                                                         *)
(* One step per character written or painted.  A text is a sequence of     *)
(* characters and of complete control sequences.                           *)
(***************************************************************************)
EXTENDS Integers, Sequences

CONSTANTS
  Width,        \* ALT_LCD_WIDTH, 16
  Virtual,      \* ALT_LCD_VIRTUAL_WIDTH, 80
  CharMax,      \* largest value of a signed char, 127
  Texts         \* bound: the texts an application writes

Height == 2
ColStart == <<0, 64>>
Blank == " "

Rows == 1 .. Height
Columns == 1 .. Width     \* 1 for the 0 of the C arrays, rows and columns alike

ASSUME PanelAssumption ==
  /\ Width \in 2 .. 39 /\ Virtual \in Nat /\ Virtual >= Width
  /\ CharMax \in Nat /\ CharMax > Virtual

\* What occurs in the texts: printable characters, controls, H with its numbers.
Items == UNION {{text[i] : i \in 1 .. Len(text)} : text \in Texts}
Operations == {"print", "CR", "LF", "BS", "H", "J", "K"}
Letters == {t.c : t \in {u \in Items : u.op = "print"}}
Glyph == Letters \cup {Blank}

ASSUME TextsAssumption ==
  /\ Texts \subseteq Seq(Items)
  /\ \A t \in Items : t.op \in Operations /\ (t.op = "H" => t.row \in Nat /\ t.col \in Nat)

VARIABLES
  sp,           \* altera_avalon_lcd_16207_state
  panel,        \* the panel: its character RAM, address counter, unplugged or not
  pc, rest, old,  \* call of write: its place, what it has still to read, old_scrollpos
  isr,          \* the timer routine is painting
  cell, pos     \* lcd_repaint_screen: next cell, its copy of scrollpos

driverVars == <<sp, panel, pc, rest, old, isr, cell, pos>>

SignedChar(v) == ((v + CharMax + 1) % (2 * (CharMax + 1))) - CharMax - 1
UnsignedChar(v) == v % (2 * (CharMax + 1))

Maximum(S) == CHOOSE m \in S : \A k \in S : k <= m

BlankText == [i \in 1 .. Virtual + 1 |-> Blank]
BlankShown == [i \in Columns |-> Blank]
BlankRam == [a \in {ColStart[r] + i - 1 : r \in Rows, i \in Columns} |-> Blank]
BlankLine == [visible |-> BlankShown, data |-> BlankText, width |-> 0, speed |-> 0]

DriverInit ==
  /\ sp = [x |-> 0, y |-> 1, address |-> 0, broken |-> FALSE,
           scrollpos |-> 0, scrollmax |-> 0, active |-> FALSE,
           line |-> [r \in Rows |-> BlankLine]]
  /\ panel = [ram |-> BlankRam, ac |-> 0, unplugged |-> FALSE]
  /\ pc = "idle" /\ rest = <<>> /\ old = 0
  /\ isr = FALSE /\ cell = 1 /\ pos = 0

-----------------------------------------------------------------------------
(* Access to the panel; d is the driver's state with the panel's. *)

Command(d, done) ==
  IF d.sp.broken THEN d
  ELSE IF d.panel.unplugged THEN [d EXCEPT !.sp.broken = TRUE]     \* busy for ever
  ELSE [d EXCEPT !.panel = done]

SetAddress(d, a) == [Command(d, [d.panel EXCEPT !.ac = a]) EXCEPT !.sp.address = a]

WriteData(d, c) ==
  IF d.sp.broken THEN d
  ELSE IF d.panel.unplugged THEN [d EXCEPT !.sp.broken = TRUE]
  ELSE [d EXCEPT !.panel.ram[d.panel.ac] = c, !.panel.ac = @ + 1, !.sp.address = @ + 1]

\* Mutant: the copy of the address counter is forgotten.
ClearScreen_KeepsAddress(d) ==
  LET cleared == [d.panel EXCEPT !.ac = 0, !.ram = BlankRam]
  IN [Command(d, cleared) EXCEPT !.sp.x = 0, !.sp.y = 1, !.sp.line = <<BlankLine, BlankLine>>]

ClearScreen(d) ==
  LET cleared == [d.panel EXCEPT !.ac = 0, !.ram = BlankRam]
  IN [Command(d, cleared) EXCEPT
       !.sp.x = 0, !.sp.y = 1, !.sp.address = 0,
       !.sp.line[1] = [BlankLine EXCEPT !.speed = d.sp.line[1].speed],
       !.sp.line[2] = [BlankLine EXCEPT !.speed = d.sp.line[2].speed]]

-----------------------------------------------------------------------------
(* Repainting. *)

\* Mutant: the line is taken to be as wide as the panel.
Offset_PanelWidth(s, r, p) ==
  LET o == (p * s.line[r].speed) \div 256
  IN IF o >= Width THEN 0 ELSE o

Offset(s, r, p) ==
  LET o == (p * s.line[r].speed) \div 256
  IN IF o >= s.line[r].width THEN 0 ELSE o

\* The character line r is to show in column i at scrolling position p.
Visible(s, r, i, p) == s.line[r].data[1 + ((i - 1 + Offset(s, r, p)) % s.line[r].width)]

\* Written only if the panel does not show it already.
Paint(d, k) ==
  LET r == 1 + (k - 1) \div Width
      i == 1 + ((k - 1) % Width)
      a == ColStart[r] + i - 1
      there == IF a = d.sp.address THEN d ELSE SetAddress(d, a)
      c == Visible(d.sp, r, i, pos)
  IN IF d.sp.line[r].visible[i] = c THEN d
     ELSE [WriteData(there, c) EXCEPT !.sp.line[r].visible[i] = c]

-----------------------------------------------------------------------------
(* The characters of a text, applied to sp in order. *)

ScrollUp(d) ==
  [d EXCEPT !.sp.y = @ - 1,
            !.sp.line[1].data = d.sp.line[2].data, !.sp.line[2].data = BlankText]

\* The cursor may rest on the blank line below the last one.
PutChar(d, c) ==
  LET up == IF d.sp.y > Height THEN ScrollUp(d) ELSE d
      next == [up EXCEPT !.sp.x = UnsignedChar(@ + 1)]
  IN IF d.sp.x < Virtual THEN [next EXCEPT !.sp.line[up.sp.y].data[d.sp.x + 1] = c] ELSE next

\* Mutant: no scrolling at the bottom.
LineFeed_NoScroll(d) == [d EXCEPT !.sp.x = 0, !.sp.y = @ + 1]

LineFeed(d) ==
  LET down == [d EXCEPT !.sp.x = 0, !.sp.y = @ + 1]
  IN IF down.sp.y > Height + 1 THEN ScrollUp(down) ELSE down

\* Clears to the end of the line.  Below the last line there is no line in sp.
ClearToEnd(d) ==
  IF d.sp.y > Height \/ d.sp.x >= Virtual THEN d
  ELSE [d EXCEPT !.sp.line[d.sp.y].data = SubSeq(@, 1, d.sp.x) \o SubSeq(BlankText, d.sp.x + 1, Virtual + 1)]

\* A parameter left out is 0 and leaves its coordinate alone.
MoveTo(d, row, col) ==
  LET line == 1 + UnsignedChar(row - 1)
      lowest == IF line > 2 * Height + 1 THEN 2 * Height + 1 ELSE line
      moved == [d EXCEPT !.sp.x = IF col > 0 THEN UnsignedChar(col - 1) ELSE @,
                         !.sp.y = IF row > 0 THEN lowest ELSE @]
      fit(e) == IF e.sp.y > Height + 1 THEN ScrollUp(e) ELSE e
  IN fit(fit(moved))

Apply(d, t) ==
  CASE t.op = "print" -> PutChar(d, t.c)
    [] t.op = "CR" -> [d EXCEPT !.sp.x = 0]
    [] t.op = "LF" -> LineFeed(d)
    [] t.op = "BS" -> [d EXCEPT !.sp.x = IF @ > 0 THEN @ - 1 ELSE 0]
    [] t.op = "H" -> MoveTo(d, t.row, t.col)
    [] t.op = "J" -> ClearScreen(d)
    [] t.op = "K" -> ClearToEnd(d)

\* A line that must scroll gets one more blank, between its end and its start.
LineWidth(l) ==
  LET used == Maximum({0} \cup {i \in 1 .. Virtual : l.data[i] # Blank})
  IN IF used <= Width THEN Width ELSE used + 1

Layout(s) ==
  LET width == [r \in Rows |-> LineWidth(s.line[r])]
      widest == Maximum({width[r] : r \in Rows})
      speed(r) == IF width[r] > Width THEN (256 * width[r]) \div (2 * widest) ELSE 0
  IN [s EXCEPT
       !.scrollmax = IF widest <= Width THEN 0 ELSE SignedChar(2 * widest),
       !.line = [r \in Rows |-> [@[r] EXCEPT !.width = width[r], !.speed = speed(r)]]]

-----------------------------------------------------------------------------
(* altera_avalon_lcd_16207_write runs while the timer routine does not. *)

State == [sp |-> sp, panel |-> panel]
Become(d) == sp' = d.sp /\ panel' = d.panel

Step(from, to) == ~isr /\ pc = from /\ pc' = to /\ UNCHANGED isr

\* active is set before the first character is looked at.
CallWrite ==
  /\ Step("idle", "chars")
  /\ rest' \in Texts
  /\ sp' = [sp EXCEPT !.active = TRUE]
 
  /\ UNCHANGED <<panel, old, cell, pos>>

Character ==
  /\ Step("chars", "chars") /\ rest # <<>>
  /\ Become(Apply(State, Head(rest))) /\ rest' = Tail(rest)
  /\ UNCHANGED <<old, cell, pos>>

SetLayout ==
  /\ Step("chars", "look") /\ rest = <<>>
  /\ sp' = Layout(sp)
  /\ UNCHANGED <<panel, rest, old, cell, pos>>

Look ==
  /\ Step("look", "repaint")
  /\ old' = sp.scrollpos
  /\ UNCHANGED <<sp, panel, rest, cell, pos>>

Repaint ==
  /\ Step("repaint", "painting")
  /\ cell' = 1 /\ pos' = sp.scrollpos
  /\ UNCHANGED <<sp, panel, rest, old>>

Release ==
  /\ Step("release", "check")
  /\ sp' = [sp EXCEPT !.active = FALSE]
  /\ UNCHANGED <<panel, rest, old, cell, pos>>

\* Mutant: a missed repaint is not noticed.
Finish_Unchecked ==
  /\ Step("check", "idle")
  /\ old' = 0
  /\ UNCHANGED <<sp, panel, rest, cell, pos>>

Finish ==
  /\ Step("check", "idle") /\ sp.scrollpos = old
  /\ old' = 0
  /\ UNCHANGED <<sp, panel, rest, cell, pos>>

\* The display scrolled while it was painted: once more.
Again ==
  /\ Step("check", "again") /\ sp.scrollpos # old
  /\ UNCHANGED <<sp, panel, rest, old, cell, pos>>

Reactivate ==
  /\ Step("again", "look")
  /\ sp' = [sp EXCEPT !.active = TRUE]
  /\ UNCHANGED <<panel, rest, old, cell, pos>>

WriteStep == Character \/ SetLayout \/ Look \/ Repaint \/ Release \/ Finish \/ Again \/ Reactivate

\* The loops of lcd_repaint_screen, for the timer routine or for write.
PaintCell ==
  /\ isr \/ pc = "painting"
  /\ cell <= Height * Width
  /\ Become(Paint(State, cell)) /\ cell' = cell + 1
  /\ UNCHANGED <<pc, rest, old, isr, pos>>

PaintEnd ==
  /\ isr \/ pc = "painting"
  /\ cell > Height * Width
  /\ cell' = 1 /\ pos' = 0
  /\ isr' = FALSE /\ pc' = IF isr THEN pc ELSE "release"
  /\ UNCHANGED <<sp, panel, rest, old>>

\* From Look to Reactivate: write has noted the position it paints.
Pass == {"repaint", "painting", "release", "check", "again"}

\* Bound: during a pass the timer does not fire so often that the position
\* comes back to the one write has noted.
NoRound(next) == pc \in Pass => next # old \/ next = sp.scrollpos

\* alt_lcd_16207_timeout.
ScrollTick ==
  /\ ~isr
  /\ LET next == IF sp.scrollpos + 1 >= sp.scrollmax THEN 0 ELSE sp.scrollpos + 1
     IN /\ NoRound(next)
        /\ sp' = [sp EXCEPT !.scrollpos = next]
        /\ isr' = (sp.scrollmax > 0 /\ ~sp.active)
        /\ pos' = IF isr' THEN next ELSE pos
  /\ UNCHANGED <<panel, pc, rest, old, cell>>

\* The panel stops answering, for good; nothing it held can be seen again.
Unplug ==
  /\ ~panel.unplugged
  /\ panel' = [ram |-> BlankRam, ac |-> 0, unplugged |-> TRUE]
  /\ UNCHANGED <<sp, pc, rest, old, isr, cell, pos>>

DriverNext == CallWrite \/ WriteStep \/ PaintCell \/ PaintEnd \/ ScrollTick \/ Unplug

\* The timer runs, and so does a call; nobody has to write or to unplug.
DriverSpec == DriverInit /\ [][DriverNext]_driverVars 
  /\ WF_driverVars(ScrollTick) /\ WF_driverVars(PaintCell \/ PaintEnd) /\ WF_driverVars(WriteStep)

-----------------------------------------------------------------------------
(* Properties *)

\* The cursor stays on a line or on the one below the last, and every field
\* within its C type.
DriverTypeOK ==
  /\ sp.x \in 0 .. 2 * CharMax + 1 /\ sp.y \in 1 .. Height + 1
  /\ sp.address \in 0 .. CharMax + 64
  /\ sp.scrollpos \in 0 .. CharMax /\ sp.scrollmax \in -CharMax - 1 .. CharMax
  /\ {sp.broken, sp.active, panel.unplugged, isr} \subseteq BOOLEAN
  /\ \A r \in Rows :
       /\ sp.line[r].visible \in [Columns -> Glyph]
       /\ sp.line[r].data \in [1 .. Virtual + 1 -> Glyph]
       /\ sp.line[r].width \in {0} \cup (Width .. Virtual + 1)
       /\ sp.line[r].speed \in 0 .. 128
  /\ {old, pos} \subseteq 0 .. CharMax /\ cell \in 1 .. Height * Width + 1
  /\ pc \in {"idle", "chars", "look", "repaint", "painting", "release", "check", "again"}

\* The driver's copy of the panel is right: while the panel answers, it shows
\* what visible says and would write the next character where address says.
CopyMatchesPanel ==
  ~panel.unplugged =>
    /\ ~sp.broken
    /\ panel.ac = sp.address
    /\ \A r \in Rows, i \in Columns : panel.ram[ColStart[r] + i - 1] = sp.line[r].visible[i]

\* Whenever the foreground lets go of the display, every line shows the part of
\* its text that belongs to the scrolling position, or another pass follows;
\* and a line the timer routine may repaint has a width to scroll round at.
\* (When scrollmax has overflowed, the position moves and nobody repaints.)
ShowsText ==
  ~sp.active /\ ~isr =>
    /\ sp.scrollmax > 0 => \A r \in Rows : sp.line[r].width >= Width
    /\ \/ sp.scrollmax < 0
       \/ \A r \in Rows :
            sp.line[r].visible = IF sp.line[r].width = 0 THEN BlankShown
                                 ELSE [i \in Columns |-> Visible(sp, r, i, sp.scrollpos)]
       \/ pc \in {"check", "again"} /\ sp.scrollpos # old

\* A line longer than the panel scrolls so that all of it is displayed.
InText(r, c) == \E i \in 1 .. Virtual : sp.line[r].data[i] = c
OnPanel(r, c) == \E i \in Columns : panel.ram[ColStart[r] + i - 1] = c
EveryCharacterShown ==
  \A r \in Rows, c \in Letters :
    (pc = "idle" /\ InText(r, c)) ~> (OnPanel(r, c) \/ pc # "idle" \/ panel.unplugged)

=============================================================================
