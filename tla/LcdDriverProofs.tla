-------------------------- MODULE LcdDriverProofs --------------------------
(***************************************************************************)
(* The driver of the character panel keeps every field within its C type,  *)
(* its copy of the panel is right, and it leaves no scrolling position     *)
(* unpainted: for panels and lines of any width, any texts, the timer at   *)
(* any moment of a call and a panel that stops answering at any moment.    *)
(***************************************************************************)
EXTENDS LcdDriver, SequenceTheorems, WellFoundedInduction, TLAPS

-----------------------------------------------------------------------------
(* The invariant. *)

Ram == {ColStart[r] + i - 1 : r \in Rows, i \in Columns}

LineType ==
  [visible : [Columns -> Glyph], data : [1 .. Virtual + 1 -> Glyph],
   width : {0} \cup (Width .. Virtual + 1), speed : 0 .. 128]
SpType ==
  [x : 0 .. 2 * CharMax + 1, y : 1 .. Height + 1, address : 0 .. CharMax + 64,
   broken : BOOLEAN, scrollpos : 0 .. CharMax, scrollmax : -CharMax - 1 .. CharMax,
   active : BOOLEAN, line : [Rows -> LineType]]
PanelType == [ram : [Ram -> Glyph], ac : 0 .. CharMax + 64, unplugged : BOOLEAN]
StateType == [sp : SpType, panel : PanelType]

Copied(d) ==
  ~d.panel.unplugged =>
    /\ ~d.sp.broken /\ d.panel.ac = d.sp.address
    /\ \A r \in Rows, i \in Columns : d.panel.ram[ColStart[r] + i - 1] = d.sp.line[r].visible[i]

CallType ==
  /\ isr \in BOOLEAN
  /\ old \in 0 .. CharMax /\ pos \in 0 .. CharMax /\ cell \in 1 .. Height * Width + 1
  /\ pc \in {"idle", "chars", "look", "repaint", "painting", "release", "check", "again"}
  /\ rest \in Seq(Items)

\* Every line has a width; a line that does not scroll has no speed.
Wide(s) == \A r \in Rows : s.line[r].width >= Width
Still(s) == s.scrollmax = 0 => \A r \in Rows : s.line[r].speed = 0

\* Nothing was ever written.
Fresh(s) ==
  /\ s.scrollmax = 0
  /\ \A r \in Rows : s.line[r].width = 0 /\ s.line[r].visible = BlankShown

PhaseInv ==
  /\ sp.active <=> pc \in {"chars", "look", "repaint", "painting", "release"}
  /\ isr => pc \in {"idle", "check", "again"} /\ sp.scrollmax > 0
  /\ ~isr /\ pc # "painting" => cell = 1
  /\ pc \notin {"idle", "chars"} => Wide(sp)
  /\ pc = "idle" => Wide(sp) \/ Fresh(sp)
  /\ pc # "chars" => Still(sp)

\* The cells painted so far, and the whole panel, at position p.
RowOf(k) == 1 + (k - 1) \div Width
ColOf(k) == 1 + ((k - 1) % Width)
Painted(s, p) ==
  \A k \in 1 .. cell - 1 : s.line[RowOf(k)].visible[ColOf(k)] = Visible(s, RowOf(k), ColOf(k), p)
Shown(s, p) == \A r \in Rows, i \in Columns : s.line[r].visible[i] = Visible(s, r, i, p)

\* While the position is the one write noted, what is painted belongs to it.
ScrollInv ==
  /\ pc = "painting" /\ sp.scrollpos = old => pos = sp.scrollpos
  /\ isr => pos = sp.scrollpos
  /\ pc = "again" => sp.scrollpos # old
  /\ isr \/ pc = "painting" => Painted(sp, pos)
  /\ pc = "release" /\ sp.scrollpos = old => Shown(sp, sp.scrollpos)
  /\ pc = "check" /\ ~isr /\ sp.scrollmax >= 0 /\ sp.scrollpos = old => Shown(sp, sp.scrollpos)
  /\ pc = "idle" /\ ~isr /\ sp.scrollmax >= 0 => Fresh(sp) \/ Shown(sp, sp.scrollpos)

TypeInv == State \in StateType /\ CallType
IInv == TypeInv /\ Copied(State) /\ PhaseInv /\ ScrollInv

-----------------------------------------------------------------------------
(* Numbers. *)

LEMMA MaximumIs ==
  ASSUME NEW N \in Nat, NEW S \in SUBSET (0 .. N), S # {}
  PROVE  Maximum(S) \in S /\ \A k \in S : k <= Maximum(S)
<1> DEFINE T == {N - k : k \in S}
           R == {ss \in Nat \X Nat : ss[1] < ss[2]}
<1>1. T \subseteq Nat /\ T # {}
  <2>1. PICK k \in S : TRUE
    OBVIOUS
  <2>2. N - k \in T
    OBVIOUS
  <2>3. T \subseteq Nat
    OBVIOUS
  <2> QED
    BY <2>2, <2>3
<1>2. IsWellFoundedOn(R, Nat)
  BY NatLessThanWellFounded DEF OpToRel
<1>3. \A x \in Nat, y \in Nat : y < x => <<y, x>> \in R
  OBVIOUS
<1> HIDE DEF R
<1>4. PICK x \in T : \A y \in T : ~(<<y, x>> \in R)
  <2> HIDE DEF T
  <2> QED
    BY <1>1, <1>2, WFMin
<1>5. PICK m \in S : x = N - m
  OBVIOUS
<1>6. \A k \in S : k <= m
  <2> SUFFICES ASSUME NEW k \in S, ~(k <= m) PROVE FALSE
    OBVIOUS
  <2>1. N - k \in T /\ N - k \in Nat /\ x \in Nat /\ N - k < x
    BY <1>5
  <2> QED
    BY <1>3, <1>4, <2>1
<1> QED
  BY <1>6 DEF Maximum

\* The sizes, and the panel's addresses.
LEMMA Sizes ==
  /\ Width \in Nat /\ Width >= 2 /\ Width <= 39
  /\ Virtual \in Nat /\ Virtual >= Width /\ CharMax \in Nat /\ CharMax > Virtual
  /\ Height = 2 /\ Rows = {1, 2} /\ Columns = 1 .. Width /\ ColStart[1] = 0 /\ ColStart[2] = 64
  BY PanelAssumption DEF Height, Rows, Columns, ColStart

LEMMA Addresses ==
  ASSUME NEW r \in Rows, NEW i \in Columns
  PROVE  /\ ColStart[r] + i - 1 \in Ram /\ ColStart[r] + i - 1 \in 0 .. 63 + Width
         /\ \A q \in Rows, j \in Columns :
              ColStart[q] + j - 1 = ColStart[r] + i - 1 => q = r /\ j = i
<1>1. ColStart[r] + i - 1 \in Ram
  BY DEF Ram
<1>2. ColStart[r] + i - 1 \in 0 .. 63 + Width
  BY Sizes
<1>3. ASSUME NEW q \in Rows, NEW j \in Columns, ColStart[q] + j - 1 = ColStart[r] + i - 1
      PROVE  q = r /\ j = i
  <2>1. CASE q = r
    BY <1>3, <2>1, Sizes
  <2>2. CASE q # r
    BY <1>3, <2>2, Sizes
  <2> QED
    BY <2>1, <2>2
<1> QED
  BY <1>1, <1>2, <1>3

LEMMA Cells ==
  ASSUME NEW k \in 1 .. Height * Width
  PROVE  /\ RowOf(k) \in Rows /\ ColOf(k) \in Columns
         /\ k = Width * (RowOf(k) - 1) + ColOf(k)
<1> DEFINE W == Width  q == (k - 1) \div W  m == (k - 1) % W
<1>1. W \in Nat /\ W > 0 /\ k - 1 \in 0 .. 2 * W - 1
  BY Sizes
<1>2. q \in Int /\ m \in 0 .. W - 1 /\ k - 1 = W * q + m
  BY <1>1
<1> HIDE DEF q, m
<1>3. q \in {0, 1}
  <2>1. CASE q >= 2
    <3>1. q - 2 \in Nat /\ W * (q - 2) \in Nat
      BY <1>1, <1>2, <2>1
    <3>2. W * q = W * (q - 2) + 2 * W
      BY <1>1, <1>2
    <3> QED
      BY <1>1, <1>2, <3>1, <3>2
  <2>2. CASE q <= -1
    <3>1. -q - 1 \in Nat /\ W * (-q - 1) \in Nat
      BY <1>1, <1>2, <2>2
    <3>2. W * q = -(W * (-q - 1)) - W
      BY <1>1, <1>2
    <3> QED
      BY <1>1, <1>2, <3>1, <3>2
  <2> QED
    BY <1>2, <2>1, <2>2
<1>4. RowOf(k) = 1 + q /\ ColOf(k) = 1 + m
  BY DEF RowOf, ColOf, q, m
<1> QED
  BY <1>1, <1>2, <1>3, <1>4, Sizes

\* Every cell is visited.
LEMMA CellOf ==
  ASSUME NEW r \in Rows, NEW i \in Columns
  PROVE  \E k \in 1 .. Height * Width : RowOf(k) = r /\ ColOf(k) = i
<1> DEFINE k == IF r = 1 THEN i ELSE Width + i
<1>1. k \in 1 .. Height * Width
  BY Sizes
<1>2. k = Width * (RowOf(k) - 1) + ColOf(k) /\ RowOf(k) \in {1, 2} /\ ColOf(k) \in 1 .. Width
  BY <1>1, Cells, Sizes
<1>3. RowOf(k) = r /\ ColOf(k) = i
  <2>1. CASE RowOf(k) = 1
    BY <1>2, <2>1, Sizes
  <2>2. CASE RowOf(k) = 2
    BY <1>2, <2>2, Sizes
  <2> QED
    BY <1>2, <2>1, <2>2
<1> QED
  BY <1>1, <1>3

\* What a line shows is one of the characters it holds.
LEMMA VisibleTyped ==
  ASSUME NEW s \in SpType, NEW r \in Rows, NEW i \in Columns, NEW p \in Nat,
         s.line[r].width >= Width
  PROVE  Visible(s, r, i, p) \in Glyph
<1> DEFINE w == s.line[r].width  o == Offset(s, r, p)
<1>1. w \in Width .. Virtual + 1 /\ s.line[r].speed \in Nat /\ s.line[r].data \in [1 .. Virtual + 1 -> Glyph]
  <2>1. s.line[r] \in LineType
    BY DEF SpType
  <2>2. /\ w \in {0} \cup (Width .. Virtual + 1) /\ s.line[r].speed \in 0 .. 128
        /\ s.line[r].data \in [1 .. Virtual + 1 -> Glyph]
    BY <2>1 DEF LineType
  <2>3. w # 0
    BY Sizes
  <2> HIDE DEF w
  <2>4. w \in Width .. Virtual + 1
    BY <2>2, <2>3
  <2>5. s.line[r].speed \in Nat
    <3>1. \A v \in 0 .. 128 : v \in Nat
      OBVIOUS
    <3> QED
      BY <2>2, <3>1
  <2> QED
    BY <2>2, <2>4, <2>5
<1>2. o \in Nat
  <2>1. p * s.line[r].speed \in Nat
    BY <1>1
  <2>2. (p * s.line[r].speed) \div 256 \in Nat
    BY <2>1
  <2> QED
    BY <2>2 DEF Offset
<1> HIDE DEF w, o
<1>3. (i - 1 + o) % w \in 0 .. w - 1
  BY <1>1, <1>2, Sizes
<1>4. 1 + ((i - 1 + o) % w) \in 1 .. Virtual + 1
  BY <1>1, <1>3, Sizes
<1> QED
  BY <1>1, <1>4 DEF Visible, w, o

\* A line without speed looks the same at every position.
LEMMA StillLine ==
  ASSUME NEW s, NEW r, NEW i, NEW p \in Nat, NEW q \in Nat, s.line[r].speed = 0
  PROVE  Visible(s, r, i, p) = Visible(s, r, i, q)
<1>1. p * s.line[r].speed = 0 /\ q * s.line[r].speed = 0
  OBVIOUS
<1> QED
  BY <1>1 DEF Visible, Offset

-----------------------------------------------------------------------------
(* Access to the panel. *)

LEMMA CommandIs ==
  ASSUME NEW d \in StateType, NEW done
  PROVE  /\ d.sp.broken => Command(d, done) = d
         /\ ~d.sp.broken /\ d.panel.unplugged =>
              Command(d, done) = [sp |-> [d.sp EXCEPT !.broken = TRUE], panel |-> d.panel]
         /\ ~d.sp.broken /\ ~d.panel.unplugged => Command(d, done) = [sp |-> d.sp, panel |-> done]
<1>1. d = [sp |-> d.sp, panel |-> d.panel]
  BY DEF StateType
<1> QED
  BY <1>1 DEF Command

LEMMA SetAddressIs ==
  ASSUME NEW d \in StateType, Copied(d), NEW a \in 0 .. 63 + Width
  PROVE  LET e == SetAddress(d, a)
         IN  /\ e \in StateType /\ Copied(e)
             /\ e.sp = [d.sp EXCEPT !.address = a, !.broken = e.sp.broken]
<1> DEFINE c == Command(d, [d.panel EXCEPT !.ac = a])
           e == SetAddress(d, a)
<1>1. a \in 0 .. CharMax + 64 /\ d.sp \in SpType /\ d.panel \in PanelType
      /\ d.sp.broken \in BOOLEAN /\ d.panel.unplugged \in BOOLEAN
  BY Sizes DEF StateType, SpType, PanelType
<1>2. \/ c.sp = d.sp /\ c.panel = d.panel /\ d.sp.broken
      \/ c.sp = [d.sp EXCEPT !.broken = TRUE] /\ c.panel = d.panel /\ d.panel.unplugged
      \/ c.sp = d.sp /\ c.panel = [d.panel EXCEPT !.ac = a] /\ ~d.panel.unplugged
  <2>1. CASE d.sp.broken
    BY <2>1, CommandIs
  <2>2. CASE ~d.sp.broken /\ d.panel.unplugged
    <3>1. c = [sp |-> [d.sp EXCEPT !.broken = TRUE], panel |-> d.panel]
      BY <2>2, CommandIs
    <3> HIDE DEF c
    <3> QED
      BY <2>2, <3>1
  <2>3. CASE ~d.sp.broken /\ ~d.panel.unplugged
    BY <2>3, CommandIs
  <2> QED
    BY <1>1, <2>1, <2>2, <2>3
<1>3. c = [sp |-> c.sp, panel |-> c.panel]
  BY CommandIs, <1>1 DEF StateType
<1> HIDE DEF c
<1>4. e = [sp |-> [c.sp EXCEPT !.address = a], panel |-> c.panel]
  BY <1>3 DEF SetAddress, c
<1> HIDE DEF e
<1>5. c.sp \in SpType /\ c.panel \in PanelType
  BY <1>1, <1>2 DEF SpType, PanelType
<1>6. e \in StateType
  BY <1>1, <1>4, <1>5 DEF StateType, SpType
<1>7. e.sp = [d.sp EXCEPT !.address = a, !.broken = e.sp.broken]
  BY <1>1, <1>2, <1>4 DEF SpType
<1>8. Copied(e)
  BY <1>1, <1>2, <1>4 DEF Copied, SpType, PanelType
<1> QED
  BY <1>6, <1>7, <1>8 DEF e

LEMMA WriteDataIs ==
  ASSUME NEW d \in StateType, ~d.panel.unplugged => ~d.sp.broken /\ d.panel.ac = d.sp.address,
         d.sp.address \in Ram, d.sp.address \in 0 .. 63 + Width, NEW c \in Glyph
  PROVE  LET e == WriteData(d, c)
         IN  /\ e \in StateType
             /\ e.sp = [d.sp EXCEPT !.address = e.sp.address, !.broken = e.sp.broken]
             /\ e.panel.unplugged = d.panel.unplugged
             /\ ~d.panel.unplugged => /\ ~e.sp.broken /\ e.panel.ac = e.sp.address
                                      /\ e.panel.ram = [d.panel.ram EXCEPT ![d.sp.address] = c]
<1> DEFINE e == WriteData(d, c)
<1>1. d = [sp |-> d.sp, panel |-> d.panel] /\ d.sp \in SpType /\ d.panel \in PanelType
      /\ d.sp.broken \in BOOLEAN /\ d.panel.unplugged \in BOOLEAN
  BY DEF StateType, SpType, PanelType
<1> DEFINE Claim(f) ==
             /\ f \in StateType
             /\ f.sp = [d.sp EXCEPT !.address = f.sp.address, !.broken = f.sp.broken]
             /\ f.panel.unplugged = d.panel.unplugged
             /\ ~d.panel.unplugged => /\ ~f.sp.broken /\ f.panel.ac = f.sp.address
                                      /\ f.panel.ram = [d.panel.ram EXCEPT ![d.sp.address] = c]
<1>2. ASSUME d.sp.broken PROVE Claim(e)
  <2>1. e = d /\ d.panel.unplugged
    BY <1>2 DEF WriteData
  <2> QED
    BY <1>1, <2>1 DEF SpType
<1>3. ASSUME ~d.sp.broken, d.panel.unplugged PROVE Claim(e)
  <2>1. e = [sp |-> [d.sp EXCEPT !.broken = TRUE], panel |-> d.panel]
    BY <1>1, <1>3 DEF WriteData
  <2> HIDE DEF e
  <2>2. e \in StateType
    BY <1>1, <2>1 DEF StateType, SpType
  <2>3. e.sp = [d.sp EXCEPT !.address = e.sp.address, !.broken = e.sp.broken]
    BY <1>1, <2>1 DEF SpType
  <2> QED
    BY <1>3, <2>1, <2>2, <2>3
<1>4. ASSUME ~d.sp.broken, ~d.panel.unplugged PROVE Claim(e)
  <2>1. e = [sp |-> [d.sp EXCEPT !.address = @ + 1],
             panel |-> [d.panel EXCEPT !.ram = [@ EXCEPT ![d.panel.ac] = c], !.ac = @ + 1]]
    BY <1>1, <1>4 DEF WriteData, PanelType
  <2> HIDE DEF e
  <2>2. d.sp.address + 1 \in 0 .. CharMax + 64 /\ d.panel.ac = d.sp.address
    BY <1>4, Sizes
  <2>3. e \in StateType
    BY <1>1, <2>1, <2>2 DEF StateType, SpType, PanelType
  <2>4. e.sp = [d.sp EXCEPT !.address = e.sp.address, !.broken = e.sp.broken]
    BY <1>1, <2>1 DEF SpType
  <2>5. /\ e.panel.unplugged = d.panel.unplugged /\ e.panel.ac = d.panel.ac + 1
        /\ e.sp.address = d.sp.address + 1 /\ e.sp.broken = d.sp.broken
        /\ e.panel.ram = [d.panel.ram EXCEPT ![d.panel.ac] = c]
    BY <1>1, <2>1 DEF SpType, PanelType
  <2> QED
    BY <1>4, <2>2, <2>3, <2>4, <2>5
<1> QED
  BY <1>1, <1>2, <1>3, <1>4

\* What painting leaves alone.
SameText(s, t) ==
  /\ t.scrollpos = s.scrollpos /\ t.scrollmax = s.scrollmax /\ t.active = s.active
  /\ \A q \in Rows : /\ t.line[q].data = s.line[q].data
                     /\ t.line[q].width = s.line[q].width /\ t.line[q].speed = s.line[q].speed

LEMMA SameVisible ==
  ASSUME NEW s, NEW t, SameText(s, t), NEW r \in Rows, NEW i, NEW p
  PROVE  Visible(t, r, i, p) = Visible(s, r, i, p)
  BY DEF SameText, Visible, Offset

\* What painting a cell does.
LEMMA PaintIs ==
  ASSUME NEW d \in StateType, Copied(d), NEW k \in 1 .. Height * Width, Wide(d.sp), pos \in Nat
  PROVE  LET e == Paint(d, k)
             r == RowOf(k)
             i == ColOf(k)
         IN  /\ e \in StateType /\ Copied(e) /\ SameText(d.sp, e.sp)
             /\ e.sp.line[r].visible[i] = Visible(d.sp, r, i, pos)
             /\ \A q \in Rows, j \in Columns :
                  q # r \/ j # i => e.sp.line[q].visible[j] = d.sp.line[q].visible[j]
<1> DEFINE r == RowOf(k)
           i == ColOf(k)
           a == ColStart[r] + i - 1
           c == Visible(d.sp, r, i, pos)
           there == IF a = d.sp.address THEN d ELSE SetAddress(d, a)
           w == WriteData(there, c)
           v == [w.sp.line[r].visible EXCEPT ![i] = c]
           l == [w.sp.line[r] EXCEPT !.visible = v]
           n == [w.sp.line EXCEPT ![r] = l]
           e == Paint(d, k)
           Claim(f) == /\ f \in StateType /\ Copied(f) /\ SameText(d.sp, f.sp)
                       /\ f.sp.line[r].visible[i] = c
                       /\ \A q \in Rows, j \in Columns :
                            q # r \/ j # i => f.sp.line[q].visible[j] = d.sp.line[q].visible[j]
<1>1. r \in Rows /\ i \in Columns
  BY Cells
<1>2. a \in Ram /\ a \in 0 .. 63 + Width
      /\ \A q \in Rows, j \in Columns : ColStart[q] + j - 1 = a => q = r /\ j = i
  BY <1>1, Addresses
<1>3. c \in Glyph
  <2>1. d.sp \in SpType /\ d.sp.line[r].width >= Width
    BY <1>1 DEF StateType, Wide
  <2> QED
    BY <1>1, <2>1, VisibleTyped
<1>4. /\ d.sp.line[r].visible[i] = c => e = d
      /\ d.sp.line[r].visible[i] # c => e = [w EXCEPT !.sp.line[r].visible[i] = c]
  BY DEF Paint, RowOf, ColOf
<1>5. ASSUME d.sp.line[r].visible[i] = c PROVE Claim(d)
  BY <1>5 DEF SameText
<1> HIDE DEF r, i, a, c
<1>6. /\ there \in StateType /\ Copied(there) /\ there.sp.address = a
      /\ there.sp = [d.sp EXCEPT !.address = a, !.broken = there.sp.broken]
  <2>1. CASE a = d.sp.address
    BY <2>1 DEF StateType, SpType
  <2>2. CASE a # d.sp.address
    <3>1. /\ there \in StateType /\ Copied(there)
          /\ there.sp = [d.sp EXCEPT !.address = a, !.broken = there.sp.broken]
      BY <1>2, <2>2, SetAddressIs
    <3> QED
      BY <3>1 DEF StateType, SpType
  <2> QED
    BY <2>1, <2>2
<1> HIDE DEF there
<1>7. /\ w \in StateType
      /\ w.sp = [there.sp EXCEPT !.address = w.sp.address, !.broken = w.sp.broken]
      /\ w.panel.unplugged = there.panel.unplugged
      /\ ~there.panel.unplugged => /\ ~w.sp.broken /\ w.panel.ac = w.sp.address
                                   /\ w.panel.ram = [there.panel.ram EXCEPT ![a] = c]
  <2>1. ~there.panel.unplugged => ~there.sp.broken /\ there.panel.ac = there.sp.address
    BY <1>6 DEF Copied
  <2>2. there.sp.address \in Ram /\ there.sp.address \in 0 .. 63 + Width
    BY <1>2, <1>6
  <2> HIDE DEF Ram
  <2> QED
    BY <1>3, <1>6, <2>1, <2>2, WriteDataIs
<1> HIDE DEF w
<1>8. /\ w.sp.line = d.sp.line /\ w.sp.scrollpos = d.sp.scrollpos
      /\ w.sp.scrollmax = d.sp.scrollmax /\ w.sp.active = d.sp.active
  BY <1>6, <1>7 DEF StateType, SpType
<1>9. ASSUME e = [w EXCEPT !.sp.line[r].visible[i] = c] PROVE Claim(e)
  <2>1. e = [sp |-> [w.sp EXCEPT !.line = n], panel |-> w.panel]
    BY <1>7, <1>9 DEF StateType
  <2> HIDE DEF e
  <2>2. w.sp \in SpType /\ w.sp.line \in [Rows -> LineType] /\ w.sp.line[r] \in LineType
        /\ w.sp.line[r].visible \in [Columns -> Glyph]
    BY <1>1, <1>7 DEF StateType, SpType, LineType
  <2>3. v \in [Columns -> Glyph] /\ v[i] = c /\ \A j \in Columns : j # i => v[j] = w.sp.line[r].visible[j]
    BY <1>1, <1>3, <2>2
  <2> HIDE DEF v
  <2>4. /\ l \in LineType /\ l.visible = v /\ l.data = w.sp.line[r].data
        /\ l.width = w.sp.line[r].width /\ l.speed = w.sp.line[r].speed
    BY <2>2, <2>3 DEF LineType
  <2> HIDE DEF l
  <2>5. n \in [Rows -> LineType] /\ n[r] = l /\ \A q \in Rows : q # r => n[q] = w.sp.line[q]
    BY <1>1, <2>2, <2>4
  <2> HIDE DEF n
  <2>6. /\ e.sp \in SpType /\ e.sp.line = n /\ e.panel = w.panel
        /\ e.sp.scrollpos = w.sp.scrollpos /\ e.sp.scrollmax = w.sp.scrollmax
        /\ e.sp.active = w.sp.active /\ e.sp.address = w.sp.address /\ e.sp.broken = w.sp.broken
    BY <2>1, <2>2, <2>5 DEF SpType
  <2>7. e \in StateType
    BY <1>7, <2>1, <2>6 DEF StateType
  <2>8. SameText(d.sp, e.sp)
    BY <1>8, <2>4, <2>5, <2>6 DEF SameText
  <2>9. e.sp.line[r].visible[i] = c
    BY <2>3, <2>4, <2>5, <2>6
  <2>10. \A q \in Rows, j \in Columns :
           q # r \/ j # i => e.sp.line[q].visible[j] = d.sp.line[q].visible[j]
    BY <1>8, <2>3, <2>4, <2>5, <2>6
  <2>11. Copied(e)
    <3> SUFFICES ASSUME ~e.panel.unplugged
                 PROVE  /\ ~e.sp.broken /\ e.panel.ac = e.sp.address
                        /\ \A q \in Rows, j \in Columns :
                             e.panel.ram[ColStart[q] + j - 1] = e.sp.line[q].visible[j]
      BY DEF Copied
    <3>1. /\ ~e.sp.broken /\ e.panel.ac = e.sp.address
          /\ e.panel.ram = [there.panel.ram EXCEPT ![a] = c] /\ ~there.panel.unplugged
      BY <1>7, <2>6
    <3>2. there.panel.ram \in [Ram -> Glyph]
      BY <1>6 DEF StateType, PanelType
    <3>3. ASSUME NEW q \in Rows, NEW j \in Columns
          PROVE  e.panel.ram[ColStart[q] + j - 1] = e.sp.line[q].visible[j]
      <4>1. ColStart[q] + j - 1 \in Ram
        BY Addresses
      <4>2. CASE q = r /\ j = i
        BY <1>2, <2>9, <3>1, <3>2, <4>2 DEF a
      <4>3. CASE q # r \/ j # i
        <5>1. ColStart[q] + j - 1 # a
          BY <1>2, <4>3
        <5>2. there.panel.ram[ColStart[q] + j - 1] = there.sp.line[q].visible[j]
          BY <1>6, <3>1 DEF Copied
        <5>3. there.sp.line = d.sp.line
          BY <1>6 DEF StateType, SpType
        <5> QED
          BY <2>10, <3>1, <3>2, <4>1, <4>3, <5>1, <5>2, <5>3
      <4> QED
        BY <4>2, <4>3
    <3> QED
      BY <3>1, <3>3
  <2> QED
    BY <2>7, <2>8, <2>9, <2>10, <2>11
<1>10. Claim(e)
  BY <1>4, <1>5, <1>9
<1> QED
  BY <1>10 DEF r, i, c

-----------------------------------------------------------------------------
(* The characters of a text.  Between its parts an operation may leave the *)
(* cursor further down.                                                    *)

TallType ==
  [sp : [x : 0 .. 2 * CharMax + 1, y : 1 .. 2 * Height + 1, address : 0 .. CharMax + 64,
         broken : BOOLEAN, scrollpos : 0 .. CharMax, scrollmax : -CharMax - 1 .. CharMax,
         active : BOOLEAN, line : [Rows -> LineType]],
   panel : PanelType]

\* From d the foreground comes to e without touching what the timer goes by.
Goes(d, e) ==
  /\ e \in TallType /\ Copied(e)
  /\ e.sp.active = d.sp.active /\ e.sp.scrollpos = d.sp.scrollpos /\ e.sp.scrollmax = d.sp.scrollmax

LEMMA GoesOn ==
  ASSUME NEW d, NEW e, NEW f, Goes(d, e), Goes(e, f)
  PROVE  Goes(d, f)
  BY DEF Goes

LEMMA TallIs ==
  ASSUME NEW d
  PROVE  d \in StateType <=> d \in TallType /\ d.sp.y <= Height + 1
  BY Sizes DEF StateType, TallType, SpType

LEMMA UnsignedTyped ==
  ASSUME NEW v \in Int
  PROVE  UnsignedChar(v) \in 0 .. 2 * CharMax + 1
<1> DEFINE M == 2 * (CharMax + 1)
<1>1. M \in Nat /\ M > 0 /\ M - 1 = 2 * CharMax + 1
  BY Sizes
<1> HIDE DEF M
<1>2. v % M \in 0 .. M - 1
  BY <1>1
<1> QED
  BY <1>1, <1>2 DEF UnsignedChar, M

LEMMA PlaceX ==
  ASSUME NEW d \in TallType, Copied(d), NEW x \in 0 .. 2 * CharMax + 1
  PROVE  LET e == [d EXCEPT !.sp.x = x]
         IN  Goes(d, e) /\ e.sp.x = x /\ e.sp.y = d.sp.y
<1> DEFINE e == [d EXCEPT !.sp.x = x]
<1>1. e = [sp |-> [d.sp EXCEPT !.x = x], panel |-> d.panel]
  BY DEF TallType
<1> HIDE DEF e
<1>2. e \in TallType /\ e.sp.x = x /\ e.sp.y = d.sp.y
  BY <1>1 DEF TallType
<1>3. Goes(d, e)
  BY <1>1, <1>2 DEF TallType, Goes, Copied
<1> QED
  BY <1>2, <1>3 DEF e

LEMMA PlaceY ==
  ASSUME NEW d \in TallType, Copied(d), NEW y \in 1 .. 2 * Height + 1
  PROVE  LET e == [d EXCEPT !.sp.y = y]
         IN  Goes(d, e) /\ e.sp.y = y /\ e.sp.x = d.sp.x
<1> DEFINE e == [d EXCEPT !.sp.y = y]
<1>1. e = [sp |-> [d.sp EXCEPT !.y = y], panel |-> d.panel]
  BY DEF TallType
<1> HIDE DEF e
<1>2. e \in TallType /\ e.sp.y = y /\ e.sp.x = d.sp.x
  BY <1>1 DEF TallType
<1>3. Goes(d, e)
  BY <1>1, <1>2 DEF TallType, Goes, Copied
<1> QED
  BY <1>2, <1>3 DEF e

LEMMA DataIs ==
  ASSUME NEW d \in TallType, Copied(d), NEW r \in Rows, NEW m \in [1 .. Virtual + 1 -> Glyph]
  PROVE  LET e == [d EXCEPT !.sp.line[r].data = m]
         IN  Goes(d, e) /\ e.sp.x = d.sp.x /\ e.sp.y = d.sp.y
<1> DEFINE e == [d EXCEPT !.sp.line[r].data = m]
           l == [d.sp.line[r] EXCEPT !.data = m]
           n == [d.sp.line EXCEPT ![r] = l]
<1>1. e = [sp |-> [d.sp EXCEPT !.line = n], panel |-> d.panel]
  BY DEF TallType
<1> HIDE DEF e
<1>2. d.sp.line \in [Rows -> LineType] /\ d.sp.line[r] \in LineType
  BY DEF TallType
<1>3. l \in LineType /\ l.visible = d.sp.line[r].visible
  BY <1>2 DEF LineType
<1> HIDE DEF l
<1>4. n \in [Rows -> LineType] /\ \A q \in Rows : n[q].visible = d.sp.line[q].visible
  BY <1>2, <1>3
<1> HIDE DEF n
<1>5. e \in TallType
  BY <1>1, <1>4 DEF TallType
<1>6. /\ e.sp.x = d.sp.x /\ e.sp.y = d.sp.y /\ e.panel = d.panel /\ e.sp.line = n
      /\ e.sp.active = d.sp.active /\ e.sp.scrollpos = d.sp.scrollpos /\ e.sp.scrollmax = d.sp.scrollmax
      /\ e.sp.broken = d.sp.broken /\ e.sp.address = d.sp.address
  BY <1>1 DEF TallType
<1>7. Copied(e)
  BY <1>4, <1>6 DEF Copied
<1> QED
  BY <1>5, <1>6, <1>7 DEF e, Goes

LEMMA BlankTyped == BlankText \in [1 .. Virtual + 1 -> Glyph] /\ BlankShown \in [Columns -> Glyph]
  BY DEF BlankText, BlankShown, Glyph

LEMMA ScrollUpIs ==
  ASSUME NEW d \in TallType, Copied(d), d.sp.y >= 2
  PROVE  Goes(d, ScrollUp(d)) /\ ScrollUp(d).sp.y = d.sp.y - 1 /\ ScrollUp(d).sp.x = d.sp.x
<1> DEFINE y == d.sp.y - 1
           a == [d EXCEPT !.sp.y = y]
           b == [a EXCEPT !.sp.line[1].data = d.sp.line[2].data]
           c == [b EXCEPT !.sp.line[2].data = BlankText]
<1>1. y \in 1 .. 2 * Height + 1
      /\ d.sp.line[2].data \in [1 .. Virtual + 1 -> Glyph]
  <2>1. d.sp.y \in 1 .. 2 * Height + 1 /\ d.sp.line[2] \in LineType
    BY Sizes DEF TallType
  <2>2. y \in 1 .. 2 * Height + 1
    BY <2>1, Sizes
  <2> QED
    BY <2>1, <2>2 DEF LineType
<1> HIDE DEF y
<1>2. Goes(d, a) /\ a.sp.x = d.sp.x /\ a.sp.y = y
  BY <1>1, PlaceY
<1> HIDE DEF a
<1>3. Goes(a, b) /\ b.sp.x = a.sp.x /\ b.sp.y = a.sp.y
  BY <1>1, <1>2, DataIs, Sizes DEF Goes
<1> HIDE DEF b
<1>4. Goes(b, c) /\ c.sp.x = b.sp.x /\ c.sp.y = b.sp.y
  BY <1>3, BlankTyped, DataIs, Sizes DEF Goes
<1> HIDE DEF c
<1>5. ScrollUp(d) = c
  BY DEF ScrollUp, a, b, c, y, TallType
<1> QED
  BY <1>2, <1>3, <1>4, <1>5, GoesOn DEF y

\* An operation of write.
Edits(d, e) == Goes(d, e) /\ e.sp.y <= Height + 1

LEMMA SequenceOf ==
  ASSUME NEW S, NEW n \in Nat, NEW f \in [1 .. n -> S]
  PROVE  f \in Seq(S) /\ Len(f) = n
<1>1. f \in Seq(S)
  BY SeqDef
<1>2. DOMAIN f = 1 .. n /\ DOMAIN f = 1 .. Len(f) /\ Len(f) \in Nat
  BY <1>1, LenProperties
<1> QED
  BY <1>1, <1>2

LEMMA PutCharIs ==
  ASSUME NEW d \in StateType, Copied(d), NEW c \in Glyph
  PROVE  Edits(d, PutChar(d, c))
<1> DEFINE up == IF d.sp.y > Height THEN ScrollUp(d) ELSE d
           x == UnsignedChar(up.sp.x + 1)
           next == [up EXCEPT !.sp.x = x]
           r == up.sp.y
           m == [next.sp.line[r].data EXCEPT ![d.sp.x + 1] = c]
           put == [next EXCEPT !.sp.line[r].data = m]
<1>1. d \in TallType /\ d.sp.y \in 1 .. Height + 1 /\ d.sp.x \in Nat
  BY Sizes, TallIs DEF StateType, SpType
<1>2. Goes(d, up) /\ up.sp.y \in Rows /\ up.sp.x = d.sp.x
  <2>1. CASE d.sp.y > Height
    BY <1>1, <2>1, ScrollUpIs, Sizes
  <2>2. CASE ~(d.sp.y > Height)
    BY <1>1, <2>2, Sizes DEF Goes
  <2> QED
    BY <2>1, <2>2
<1> HIDE DEF up
<1>3. x \in 0 .. 2 * CharMax + 1
  BY <1>1, <1>2, UnsignedTyped
<1> HIDE DEF x
<1>4. Goes(up, next) /\ next.sp.y = r
  BY <1>2, <1>3, PlaceX DEF Goes
<1>5. PutChar(d, c) = IF d.sp.x < Virtual THEN [next EXCEPT !.sp.line[r].data[d.sp.x + 1] = c] ELSE next
  BY DEF PutChar, up, x
<1> HIDE DEF next
<1>6. [next EXCEPT !.sp.line[r].data[d.sp.x + 1] = c] = put
  OBVIOUS
<1>7. m \in [1 .. Virtual + 1 -> Glyph]
  <2>1. next.sp.line[r].data \in [1 .. Virtual + 1 -> Glyph]
    BY <1>2, <1>4 DEF Goes, TallType, LineType
  <2> QED
    BY <2>1
<1> HIDE DEF m
<1>8. Goes(next, put) /\ put.sp.y = next.sp.y
  <2>1. next \in TallType /\ Copied(next) /\ r \in Rows
    BY <1>2, <1>4 DEF Goes
  <2> QED
    BY <1>7, <2>1, DataIs
<1> HIDE DEF put
<1>9. Edits(d, next)
  BY <1>2, <1>4, GoesOn, Sizes DEF Edits
<1>10. Edits(d, put)
  BY <1>8, <1>9, GoesOn DEF Edits
<1> QED
  BY <1>5, <1>6, <1>9, <1>10

LEMMA LineFeedIs ==
  ASSUME NEW d \in StateType, Copied(d)
  PROVE  Edits(d, LineFeed(d))
<1> DEFINE y == d.sp.y + 1
           first == [d EXCEPT !.sp.x = 0]
           down == [first EXCEPT !.sp.y = y]
<1>1. d \in TallType /\ d.sp.y \in 1 .. Height + 1 /\ y \in 2 .. Height + 2
  BY Sizes, TallIs DEF StateType, SpType
<1>2. Goes(d, first) /\ first.sp.y = d.sp.y
  <2>1. 0 \in 0 .. 2 * CharMax + 1
    BY Sizes
  <2> HIDE DEF y
  <2> QED
    BY <1>1, <2>1, PlaceX
<1> HIDE DEF y
<1>3. Goes(first, down) /\ down.sp.y = y
  <2>1. y \in 1 .. 2 * Height + 1
    BY <1>1, Sizes
  <2> HIDE DEF first
  <2> QED
    BY <1>2, <2>1, PlaceY DEF Goes
<1>4. LineFeed(d) = IF down.sp.y > Height + 1 THEN ScrollUp(down) ELSE down
  BY DEF LineFeed, y, TallType
<1> HIDE DEF first, down
<1>5. CASE down.sp.y > Height + 1
  <2>1. Goes(down, ScrollUp(down)) /\ ScrollUp(down).sp.y = down.sp.y - 1
    BY <1>1, <1>3, ScrollUpIs, Sizes DEF Goes
  <2> QED
    BY <1>1, <1>2, <1>3, <1>4, <1>5, <2>1, GoesOn, Sizes DEF Edits
<1>6. CASE ~(down.sp.y > Height + 1)
  BY <1>1, <1>2, <1>3, <1>4, <1>6, GoesOn, Sizes DEF Edits
<1> QED
  BY <1>5, <1>6

LEMMA ClearToEndIs ==
  ASSUME NEW d \in StateType, Copied(d)
  PROVE  Edits(d, ClearToEnd(d))
<1>1. d \in TallType /\ d.sp.y \in 1 .. Height + 1 /\ d.sp.x \in Nat
  BY Sizes, TallIs DEF StateType, SpType
<1>2. CASE d.sp.y > Height \/ d.sp.x >= Virtual
  BY <1>1, <1>2 DEF ClearToEnd, Edits, Goes
<1>3. CASE ~(d.sp.y > Height \/ d.sp.x >= Virtual)
  <2> DEFINE r == d.sp.y
             x == d.sp.x
             t == d.sp.line[r].data
             m == SubSeq(t, 1, x) \o SubSeq(BlankText, x + 1, Virtual + 1)
             e == [d EXCEPT !.sp.line[r].data = m]
  <2>1. r \in Rows /\ x \in 0 .. Virtual - 1
    BY <1>1, <1>3, Sizes
  <2>2. t \in [1 .. Virtual + 1 -> Glyph] /\ BlankText \in [1 .. Virtual + 1 -> Glyph]
    BY <2>1, BlankTyped DEF StateType, SpType, LineType
  <2> HIDE DEF t, x
  <2>3. t \in Seq(Glyph) /\ Len(t) = Virtual + 1 /\ BlankText \in Seq(Glyph) /\ Len(BlankText) = Virtual + 1
    BY <2>2, Sizes, SequenceOf
  <2>4. /\ SubSeq(t, 1, x) \in Seq(Glyph) /\ Len(SubSeq(t, 1, x)) = x
        /\ SubSeq(BlankText, x + 1, Virtual + 1) \in Seq(Glyph)
        /\ Len(SubSeq(BlankText, x + 1, Virtual + 1)) = Virtual + 1 - x
    BY <2>1, <2>3, Sizes, SubSeqProperties
  <2>5. m \in Seq(Glyph) /\ Len(m) = Virtual + 1
    BY <2>1, <2>4, Sizes, ConcatProperties
  <2> HIDE DEF m
  <2>6. m \in [1 .. Virtual + 1 -> Glyph]
    BY <2>5, LenProperties
  <2>7. ClearToEnd(d) = e
    BY <1>3 DEF ClearToEnd, m, t, x
  <2>8. Goes(d, e) /\ e.sp.y = d.sp.y
    BY <1>1, <2>1, <2>6, DataIs
  <2> QED
    BY <1>1, <2>7, <2>8 DEF Edits
<1> QED
  BY <1>2, <1>3

LEMMA MoveToIs ==
  ASSUME NEW d \in StateType, Copied(d), NEW row \in Nat, NEW col \in Nat
  PROVE  Edits(d, MoveTo(d, row, col))
<1> DEFINE line == 1 + UnsignedChar(row - 1)
           lowest == IF line > 2 * Height + 1 THEN 2 * Height + 1 ELSE line
           x == IF col > 0 THEN UnsignedChar(col - 1) ELSE d.sp.x
           y == IF row > 0 THEN lowest ELSE d.sp.y
           a == [d EXCEPT !.sp.x = x]
           b == [a EXCEPT !.sp.y = y]
           fit(e) == IF e.sp.y > Height + 1 THEN ScrollUp(e) ELSE e
<1>1. d \in TallType /\ d.sp.y \in 1 .. Height + 1 /\ d.sp.x \in 0 .. 2 * CharMax + 1
  BY Sizes, TallIs DEF StateType, SpType
<1>2. x \in 0 .. 2 * CharMax + 1
  BY <1>1, UnsignedTyped
<1>3. y \in 1 .. 2 * Height + 1
  <2>1. UnsignedChar(row - 1) \in 0 .. 2 * CharMax + 1
    BY UnsignedTyped
  <2> QED
    BY <1>1, <2>1, Sizes
<1>4. MoveTo(d, row, col) = fit(fit(b))
  BY DEF MoveTo, TallType
<1> HIDE DEF x, y
<1>5. Goes(d, a)
  BY <1>1, <1>2, PlaceX
<1> HIDE DEF a
<1>6. Goes(a, b) /\ b.sp.y = y
  BY <1>3, <1>5, PlaceY DEF Goes
<1> HIDE DEF b
<1>7. ASSUME NEW e, Goes(d, e), e.sp.y \in 1 .. 2 * Height + 1
      PROVE  /\ Goes(d, fit(e))
             /\ fit(e).sp.y = IF e.sp.y > Height + 1 THEN e.sp.y - 1 ELSE e.sp.y
  <2>1. CASE e.sp.y > Height + 1
    <3>1. e \in TallType /\ Copied(e) /\ e.sp.y >= 2
      BY <1>7, <2>1, Sizes DEF Goes
    <3>2. Goes(e, ScrollUp(e)) /\ ScrollUp(e).sp.y = e.sp.y - 1
      BY <3>1, ScrollUpIs
    <3> QED
      BY <1>7, <2>1, <3>2, GoesOn
  <2>2. CASE ~(e.sp.y > Height + 1)
    BY <1>7, <2>2
  <2> QED
    BY <2>1, <2>2
<1>8. Goes(d, b)
  BY <1>5, <1>6, GoesOn
<1>9. Goes(d, fit(b)) /\ fit(b).sp.y = IF y > Height + 1 THEN y - 1 ELSE y
  BY <1>3, <1>6, <1>7, <1>8
<1>10. Goes(d, fit(fit(b))) /\ fit(fit(b)).sp.y <= Height + 1
  <2> DEFINE f == fit(b)
  <2>1. f.sp.y \in 1 .. 2 * Height + 1 /\ f.sp.y <= Height + 2
    BY <1>3, <1>9, Sizes
  <2> HIDE DEF f
  <2>2. Goes(d, fit(f)) /\ fit(f).sp.y = IF f.sp.y > Height + 1 THEN f.sp.y - 1 ELSE f.sp.y
    BY <1>7, <1>9, <2>1 DEF f
  <2> QED
    BY <2>1, <2>2, Sizes DEF f
<1> HIDE DEF fit
<1> QED
  BY <1>4, <1>10 DEF Edits

LEMMA ClearScreenIs ==
  ASSUME NEW d \in StateType, Copied(d)
  PROVE  Edits(d, ClearScreen(d))
<1> DEFINE cleared == [d.panel EXCEPT !.ac = 0, !.ram = BlankRam]
           c == Command(d, cleared)
           l1 == [BlankLine EXCEPT !.speed = d.sp.line[1].speed]
           l2 == [BlankLine EXCEPT !.speed = d.sp.line[2].speed]
           n == [d.sp.line EXCEPT ![1] = l1, ![2] = l2]
           e == ClearScreen(d)
<1>1. /\ d.sp \in SpType /\ d.panel \in PanelType /\ d.sp.broken \in BOOLEAN
      /\ d.panel.unplugged \in BOOLEAN /\ d.sp.line \in [Rows -> LineType]
  BY DEF StateType, SpType, PanelType
<1>2. cleared \in PanelType /\ cleared.ac = 0 /\ cleared.ram = BlankRam
      /\ cleared.unplugged = d.panel.unplugged /\ \A b \in Ram : BlankRam[b] = Blank
  <2>1. 0 \in 0 .. CharMax + 64
    BY Sizes
  <2>2. BlankRam \in [Ram -> Glyph] /\ \A b \in Ram : BlankRam[b] = Blank
    BY DEF BlankRam, Ram, Glyph
  <2> HIDE DEF Ram
  <2> QED
    BY <1>1, <2>1, <2>2 DEF PanelType
<1>3. l1 \in LineType /\ l2 \in LineType /\ l1.visible = BlankShown /\ l2.visible = BlankShown
  <2>1. d.sp.line[1].speed \in 0 .. 128 /\ d.sp.line[2].speed \in 0 .. 128
    <3>1. d.sp.line[1] \in LineType /\ d.sp.line[2] \in LineType
      BY <1>1, Sizes
    <3> QED
      BY <3>1 DEF LineType
  <2> QED
    BY <2>1, BlankTyped DEF BlankLine, LineType
<1> HIDE DEF l1, l2
<1>4. n \in [Rows -> LineType] /\ \A q \in Rows : n[q].visible = BlankShown
  BY <1>1, <1>3, Sizes
<1>5. /\ \/ c.sp = d.sp /\ c.panel = d.panel /\ d.sp.broken
         \/ c.sp = [d.sp EXCEPT !.broken = TRUE] /\ c.panel = d.panel /\ d.panel.unplugged
         \/ c.sp = d.sp /\ c.panel = cleared /\ ~d.panel.unplugged
      /\ c = [sp |-> c.sp, panel |-> c.panel]
  <2>1. CASE d.sp.broken
    BY <2>1, CommandIs DEF StateType
  <2>2. CASE ~d.sp.broken /\ d.panel.unplugged
    <3>1. c = [sp |-> [d.sp EXCEPT !.broken = TRUE], panel |-> d.panel]
      BY <2>2, CommandIs
    <3> HIDE DEF c
    <3> QED
      BY <2>2, <3>1
  <2>3. CASE ~d.sp.broken /\ ~d.panel.unplugged
    <3>1. c = [sp |-> d.sp, panel |-> cleared]
      BY <2>3, CommandIs
    <3> HIDE DEF c
    <3> QED
      BY <2>3, <3>1
  <2> QED
    BY <1>1, <2>1, <2>2, <2>3
<1>6. c.sp \in SpType /\ c.sp.line = d.sp.line
  <2> HIDE DEF c
  <2> QED
    BY <1>1, <1>5 DEF SpType
<1>7. e = [sp |-> [c.sp EXCEPT !.x = 0, !.y = 1, !.address = 0, !.line = n], panel |-> c.panel]
  <2>1. e = [c EXCEPT !.sp.x = 0, !.sp.y = 1, !.sp.address = 0, !.sp.line[1] = l1, !.sp.line[2] = l2]
    BY DEF ClearScreen, l1, l2
  <2> HIDE DEF e, c
  <2> DEFINE a1 == [c EXCEPT !.sp.x = 0]         s1 == [c.sp EXCEPT !.x = 0]
             a2 == [a1 EXCEPT !.sp.y = 1]        s2 == [s1 EXCEPT !.y = 1]
             a3 == [a2 EXCEPT !.sp.address = 0]  s3 == [s2 EXCEPT !.address = 0]
             a4 == [a3 EXCEPT !.sp.line[1] = l1] s4 == [s3 EXCEPT !.line[1] = l1]
             a5 == [a4 EXCEPT !.sp.line[2] = l2] s5 == [s4 EXCEPT !.line[2] = l2]
  <2>2. a5 = [c EXCEPT !.sp.x = 0, !.sp.y = 1, !.sp.address = 0, !.sp.line[1] = l1, !.sp.line[2] = l2]
    OBVIOUS
  <2>3. s5 = [c.sp EXCEPT !.x = 0, !.y = 1, !.address = 0, !.line = n]
    BY <1>6, Sizes DEF SpType
  <2> HIDE DEF s5
  <2>4. a1 = [sp |-> s1, panel |-> c.panel]
    BY <1>5
  <2> HIDE DEF a1, s1
  <2>5. a2 = [sp |-> s2, panel |-> c.panel]
    BY <2>4
  <2> HIDE DEF a2, s2
  <2>6. a3 = [sp |-> s3, panel |-> c.panel]
    BY <2>5
  <2> HIDE DEF a3, s3
  <2>7. a4 = [sp |-> s4, panel |-> c.panel]
    BY <2>6
  <2> HIDE DEF a4, s4
  <2>8. a5 = [sp |-> s5, panel |-> c.panel]
    BY <2>7 DEF s5
  <2> HIDE DEF a5
  <2> QED
    BY <2>1, <2>2, <2>3, <2>8
<1> HIDE DEF e, c, n, cleared
<1>8. e \in TallType /\ e.sp.y = 1
  <2>1. 0 \in 0 .. CharMax + 64 /\ 0 \in 0 .. 2 * CharMax + 1 /\ 1 \in 1 .. 2 * Height + 1
    BY Sizes
  <2>2. c.panel \in PanelType
    BY <1>1, <1>2, <1>5
  <2> QED
    BY <1>4, <1>6, <1>7, <2>1, <2>2 DEF SpType, TallType
<1>9. /\ e.sp.active = d.sp.active /\ e.sp.scrollpos = d.sp.scrollpos /\ e.sp.scrollmax = d.sp.scrollmax
      /\ e.sp.address = 0 /\ e.sp.line = n /\ e.panel = c.panel /\ e.sp.broken = c.sp.broken
  BY <1>1, <1>5, <1>6, <1>7 DEF SpType
<1>10. Copied(e)
  <2> SUFFICES ASSUME ~e.panel.unplugged
               PROVE  /\ ~e.sp.broken /\ e.panel.ac = e.sp.address
                      /\ \A q \in Rows, j \in Columns :
                           e.panel.ram[ColStart[q] + j - 1] = e.sp.line[q].visible[j]
    BY DEF Copied
  <2>1. ~d.panel.unplugged
    BY <1>2, <1>5, <1>9
  <2>2. ~d.sp.broken
    BY <2>1 DEF Copied
  <2>3. c.sp = d.sp /\ c.panel = cleared
    BY <1>5, <2>1, <2>2
  <2>4. ASSUME NEW q \in Rows, NEW j \in Columns
        PROVE  e.panel.ram[ColStart[q] + j - 1] = e.sp.line[q].visible[j]
    <3>1. BlankShown[j] = Blank
      BY DEF BlankShown
    <3> QED
      BY <1>2, <1>4, <1>9, <2>3, <3>1, Addresses
  <2> QED
    BY <1>2, <1>9, <2>2, <2>3, <2>4
<1> QED
  BY <1>8, <1>9, <1>10, Sizes DEF Edits, Goes, e

LEMMA ApplyIs ==
  ASSUME NEW d \in StateType, Copied(d), NEW t \in Items
  PROVE  Edits(d, Apply(d, t)) /\ Apply(d, t) \in StateType
<1>1. t.op \in Operations /\ (t.op = "H" => t.row \in Nat /\ t.col \in Nat)
  BY TextsAssumption
<1>2. d \in TallType /\ d.sp.y \in 1 .. Height + 1 /\ d.sp.x \in 0 .. 2 * CharMax + 1
  BY Sizes, TallIs DEF StateType, SpType
<1>3. ASSUME NEW x \in 0 .. 2 * CharMax + 1 PROVE Edits(d, [d EXCEPT !.sp.x = x])
  <2> DEFINE e == [d EXCEPT !.sp.x = x]
  <2>1. Goes(d, e) /\ e.sp.y = d.sp.y
    BY <1>2, PlaceX
  <2> HIDE DEF e
  <2>2. Edits(d, e)
    BY <1>2, <2>1 DEF Edits
  <2> QED
    BY <2>2 DEF e
<1>4. Edits(d, Apply(d, t))
  <2>1. CASE t.op = "print"
    <3>1. t.c \in Glyph
      BY <2>1 DEF Letters, Glyph
    <3> QED
      BY <2>1, <3>1, PutCharIs DEF Apply
  <2>2. CASE t.op = "CR"
    <3>1. 0 \in 0 .. 2 * CharMax + 1
      BY Sizes
    <3>2. Apply(d, t) = [d EXCEPT !.sp.x = 0]
      BY <2>2 DEF Apply
    <3> QED
      BY <1>3, <3>1, <3>2
  <2>3. CASE t.op = "LF"
    BY <2>3, LineFeedIs DEF Apply
  <2>4. CASE t.op = "BS"
    <3> DEFINE x == IF d.sp.x > 0 THEN d.sp.x - 1 ELSE 0
    <3>1. x \in 0 .. 2 * CharMax + 1
      BY <1>2, Sizes
    <3>2. Apply(d, t) = [d EXCEPT !.sp.x = x]
      BY <2>4 DEF Apply
    <3> HIDE DEF x
    <3> QED
      BY <1>3, <3>1, <3>2
  <2>5. CASE t.op = "H"
    <3>1. Apply(d, t) = MoveTo(d, t.row, t.col)
      BY <2>5 DEF Apply
    <3> QED
      BY <1>1, <2>5, <3>1, MoveToIs
  <2>6. CASE t.op = "J"
    BY <2>6, ClearScreenIs DEF Apply
  <2>7. CASE t.op = "K"
    BY <2>7, ClearToEndIs DEF Apply
  <2> QED
    BY <1>1, <2>1, <2>2, <2>3, <2>4, <2>5, <2>6, <2>7 DEF Operations
<1> QED
  BY <1>4, TallIs DEF Edits, Goes

-----------------------------------------------------------------------------
(* The layout. *)

LEMMA SignedNonzero ==
  ASSUME NEW v \in 1 .. 2 * CharMax
  PROVE  SignedChar(v) \in -CharMax - 1 .. CharMax /\ SignedChar(v) # 0
<1> DEFINE M == 2 * (CharMax + 1)
           x == v + CharMax + 1
           m == x % M
           q == x \div M
<1>1. M \in Nat /\ M > 0 /\ M = 2 * CharMax + 2 /\ x \in 0 .. 2 * M - 1 /\ x # CharMax + 1 /\ CharMax \in Nat
      /\ x # M + CharMax + 1 /\ v \in Nat
  BY Sizes
<1>2. SignedChar(v) = m - CharMax - 1
  BY DEF SignedChar
<1> HIDE DEF M, x
<1>3. m \in 0 .. M - 1 /\ q \in Int /\ x = M * q + m
  BY <1>1
<1> HIDE DEF m, q
<1>4. q \in {0, 1}
  <2>1. CASE q >= 2
    <3>1. q - 2 \in Nat /\ M * (q - 2) \in Nat
      BY <1>1, <1>3, <2>1
    <3>2. M * q = M * (q - 2) + 2 * M
      BY <1>1, <1>3
    <3> QED
      BY <1>1, <1>3, <3>1, <3>2
  <2>2. CASE q <= -1
    <3>1. -q - 1 \in Nat /\ M * (-q - 1) \in Nat
      BY <1>1, <1>3, <2>2
    <3>2. M * q = -(M * (-q - 1)) - M
      BY <1>1, <1>3
    <3> QED
      BY <1>1, <1>3, <3>1, <3>2
  <2> QED
    BY <1>3, <2>1, <2>2
<1>5. m # CharMax + 1
  BY <1>1, <1>3, <1>4
<1> QED
  BY <1>1, <1>2, <1>3, <1>5

LEMMA SpeedTyped ==
  ASSUME NEW w \in Nat, NEW m \in Nat, w <= m, m > 0
  PROVE  (256 * w) \div (2 * m) \in 0 .. 128
<1> DEFINE n == 2 * m  x == 256 * w  q == x \div n  k == x % n
<1>1. n \in Nat /\ n > 0 /\ x \in Nat /\ x <= 128 * n
  OBVIOUS
<1> HIDE DEF n, x
<1>2. q \in Int /\ k \in 0 .. n - 1 /\ x = n * q + k
  BY <1>1
<1> HIDE DEF q, k
<1>3. ~(q >= 129)
  <2> SUFFICES ASSUME q >= 129 PROVE FALSE
    OBVIOUS
  <2>1. q - 129 \in Nat /\ n * (q - 129) \in Nat
    BY <1>1, <1>2
  <2>2. n * q = n * (q - 129) + 129 * n
    BY <1>1, <1>2
  <2> QED
    BY <1>1, <1>2, <2>1, <2>2
<1>4. ~(q <= -1)
  <2> SUFFICES ASSUME q <= -1 PROVE FALSE
    OBVIOUS
  <2>1. -q - 1 \in Nat /\ n * (-q - 1) \in Nat
    BY <1>1, <1>2
  <2>2. n * q = -(n * (-q - 1)) - n
    BY <1>1, <1>2
  <2> QED
    BY <1>1, <1>2, <2>1, <2>2
<1>5. q \in 0 .. 128
  BY <1>2, <1>3, <1>4
<1> QED
  BY <1>5 DEF q, n, x

LEMMA LineWidthTyped ==
  ASSUME NEW l
  PROVE  LineWidth(l) \in Width .. Virtual + 1
<1> DEFINE S == {0} \cup {i \in 1 .. Virtual : l.data[i] # Blank}
           used == Maximum(S)
<1>1. S \in SUBSET (0 .. Virtual) /\ S # {} /\ Virtual \in Nat
  BY Sizes
<1> HIDE DEF S
<1>2. used \in 0 .. Virtual
  BY <1>1, MaximumIs
<1>3. LineWidth(l) = IF used <= Width THEN Width ELSE used + 1
  BY DEF LineWidth, S
<1> HIDE DEF used
<1> QED
  BY <1>2, <1>3, Sizes

LEMMA LayoutIs ==
  ASSUME NEW s \in SpType
  PROVE  LET t == Layout(s)
         IN  /\ t \in SpType /\ Wide(t) /\ Still(t)
             /\ t.active = s.active /\ t.scrollpos = s.scrollpos /\ t.broken = s.broken
             /\ t.address = s.address /\ \A r \in Rows : t.line[r].visible = s.line[r].visible
<1> DEFINE width == [r \in Rows |-> LineWidth(s.line[r])]
           S == {width[r] : r \in Rows}
           widest == Maximum(S)
           speed(r) == IF width[r] > Width THEN (256 * width[r]) \div (2 * widest) ELSE 0
           max == IF widest <= Width THEN 0 ELSE SignedChar(2 * widest)
           l(r) == [s.line[r] EXCEPT !.width = width[r], !.speed = speed(r)]
           line == [r \in Rows |-> l(r)]
           t == Layout(s)
<1>1. \A r \in Rows : width[r] \in Width .. Virtual + 1
  BY LineWidthTyped
<1> HIDE DEF width
<1>2. widest \in S /\ \A k \in S : k <= widest
  <2>1. S \in SUBSET (0 .. Virtual + 1) /\ Virtual + 1 \in Nat
    BY <1>1, Sizes
  <2>2. S # {}
    BY Sizes
  <2> HIDE DEF S
  <2> QED
    BY <2>1, <2>2, MaximumIs
<1>3. widest \in Width .. Virtual + 1 /\ \A r \in Rows : width[r] <= widest
  BY <1>1, <1>2
<1> HIDE DEF widest
<1>4. \A r \in Rows : speed(r) \in 0 .. 128
  <2> SUFFICES ASSUME NEW r \in Rows PROVE speed(r) \in 0 .. 128
    OBVIOUS
  <2>1. width[r] \in Nat /\ widest \in Nat /\ width[r] <= widest /\ widest > 0
    BY <1>1, <1>3, Sizes
  <2>2. (256 * width[r]) \div (2 * widest) \in 0 .. 128
    BY <2>1, SpeedTyped
  <2> QED
    BY <2>2
<1>5. /\ max \in -CharMax - 1 .. CharMax
      /\ max = 0 => \A r \in Rows : speed(r) = 0
  <2>1. CASE widest <= Width
    <3>1. \A r \in Rows : ~(width[r] > Width)
      BY <1>1, <1>3, <2>1, Sizes
    <3> QED
      BY <2>1, <3>1, Sizes
  <2>2. CASE ~(widest <= Width)
    <3>1. 2 * widest \in 1 .. 2 * CharMax
      BY <1>3, <2>2, Sizes
    <3> QED
      BY <2>2, <3>1, SignedNonzero
  <2> QED
    BY <2>1, <2>2
<1>6. t = [s EXCEPT !.scrollmax = max, !.line = line]
  BY DEF Layout, widest, width
<1> HIDE DEF t, max, speed
<1>7. \A r \in Rows : /\ l(r) \in LineType /\ l(r).visible = s.line[r].visible
                      /\ l(r).width = width[r] /\ l(r).speed = speed(r)
  <2> SUFFICES ASSUME NEW r \in Rows
               PROVE  /\ l(r) \in LineType /\ l(r).visible = s.line[r].visible
                      /\ l(r).width = width[r] /\ l(r).speed = speed(r)
    OBVIOUS
  <2>1. s.line[r] \in LineType
    BY DEF SpType
  <2>2. width[r] \in {0} \cup (Width .. Virtual + 1) /\ speed(r) \in 0 .. 128
    BY <1>1, <1>4
  <2> QED
    BY <2>1, <2>2 DEF LineType
<1> HIDE DEF l
<1>8. line \in [Rows -> LineType] /\ \A r \in Rows : line[r] = l(r)
  BY <1>7
<1> HIDE DEF line
<1>9. t \in SpType /\ t.line = line /\ t.scrollmax = max
      /\ t.active = s.active /\ t.scrollpos = s.scrollpos /\ t.broken = s.broken /\ t.address = s.address
  BY <1>5, <1>6, <1>8 DEF SpType
<1>10. Wide(t) /\ Still(t)
  BY <1>1, <1>5, <1>7, <1>8, <1>9 DEF Wide, Still
<1> QED
  BY <1>7, <1>8, <1>9, <1>10 DEF t

-----------------------------------------------------------------------------
(* The steps. *)

\* The steps of write and of the timer routine preserve the invariant.
LEMMA Typed ==
  State \in StateType <=> sp \in SpType /\ panel \in PanelType
  BY DEF State, StateType

LEMMA CallWriteIs ==
  ASSUME IInv, CallWrite PROVE IInv'
<1>1. sp \in SpType /\ panel \in PanelType
  BY Typed DEF IInv, TypeInv
<1>2. /\ sp' \in SpType /\ sp'.line = sp.line /\ sp'.address = sp.address /\ sp'.broken = sp.broken
      /\ sp'.active = TRUE /\ panel' = panel
  BY <1>1 DEF CallWrite, SpType
<1>3. rest' \in Seq(Items)
  BY TextsAssumption DEF CallWrite
<1>4. (State \in StateType)'
  BY <1>1, <1>2 DEF State, StateType
<1>5. CallType'
  BY <1>3 DEF CallWrite, Step, IInv, TypeInv, CallType
<1>6. Copied(State)'
  BY <1>2 DEF Copied, State, IInv
<1>7. PhaseInv'
  BY <1>2 DEF CallWrite, Step, IInv, PhaseInv
<1>8. ScrollInv'
  BY DEF CallWrite, Step, ScrollInv
<1> QED
  BY <1>4, <1>5, <1>6, <1>7, <1>8 DEF IInv, TypeInv

LEMMA CharacterIs ==
  ASSUME IInv, Character PROVE IInv'
<1>1. State \in StateType /\ Copied(State) /\ rest \in Seq(Items) /\ rest # <<>>
  BY DEF IInv, TypeInv, CallType, Character
<1>2. Head(rest) \in Items /\ Tail(rest) \in Seq(Items)
  BY <1>1
<1> DEFINE e == Apply(State, Head(rest))
<1>3. Edits(State, e) /\ e \in StateType
  BY <1>1, <1>2, ApplyIs
<1>4. sp' = e.sp /\ panel' = e.panel
  BY DEF Character, Become
<1> HIDE DEF e
<1>5. State' = e
  BY <1>3, <1>4 DEF State, StateType
<1>6. Copied(State)' /\ sp'.active = sp.active /\ sp'.scrollpos = sp.scrollpos
  BY <1>3, <1>4, <1>5 DEF Edits, Goes, State
<1>7. CallType'
  BY <1>2 DEF Character, Step, IInv, TypeInv, CallType
<1>8. PhaseInv'
  BY <1>6 DEF Character, Step, IInv, PhaseInv
<1>9. ScrollInv'
  BY DEF Character, Step, ScrollInv
<1> QED
  BY <1>3, <1>5, <1>6, <1>7, <1>8, <1>9 DEF IInv, TypeInv

LEMMA SetLayoutIs ==
  ASSUME IInv, SetLayout PROVE IInv'
<1>1. sp \in SpType /\ panel \in PanelType
  BY Typed DEF IInv, TypeInv
<1>2. sp' = Layout(sp) /\ panel' = panel
  BY DEF SetLayout
<1>3. /\ sp' \in SpType /\ Wide(sp') /\ Still(sp')
      /\ sp'.active = sp.active /\ sp'.scrollpos = sp.scrollpos /\ sp'.broken = sp.broken
      /\ sp'.address = sp.address /\ \A r \in Rows : sp'.line[r].visible = sp.line[r].visible
  BY <1>1, <1>2, LayoutIs
<1>4. (State \in StateType)'
  BY <1>1, <1>2, <1>3 DEF State, StateType
<1>5. CallType'
  BY DEF SetLayout, Step, IInv, TypeInv, CallType
<1>6. Copied(State)'
  BY <1>2, <1>3 DEF Copied, State, IInv
<1>7. PhaseInv'
  BY <1>3 DEF SetLayout, Step, IInv, PhaseInv, Wide, Still
<1>8. ScrollInv'
  BY DEF SetLayout, Step, ScrollInv
<1> QED
  BY <1>4, <1>5, <1>6, <1>7, <1>8 DEF IInv, TypeInv

LEMMA LookIs ==
  ASSUME IInv, Look PROVE IInv'
<1>1. UNCHANGED <<sp, panel, cell, isr>> /\ pc = "look" /\ pc' = "repaint" /\ ~isr /\ old' = sp.scrollpos
  BY DEF Look, Step
<1>2. (State \in StateType)' /\ Copied(State)'
  BY <1>1 DEF State, Copied, IInv, TypeInv
<1>3. old' \in 0 .. CharMax
  BY <1>1, Typed DEF IInv, TypeInv, SpType
<1>4. CallType'
  BY <1>3 DEF Look, Step, IInv, TypeInv, CallType
<1>5. PhaseInv'
  BY <1>1 DEF IInv, PhaseInv, Wide, Still
<1>6. ScrollInv'
  BY <1>1 DEF ScrollInv
<1> QED
  BY <1>2, <1>4, <1>5, <1>6 DEF IInv, TypeInv

LEMMA RepaintIs ==
  ASSUME IInv, Repaint PROVE IInv'
<1>1. /\ UNCHANGED <<sp, panel, old, isr>> /\ pc = "repaint" /\ pc' = "painting" /\ ~isr
      /\ cell' = 1 /\ pos' = sp.scrollpos
  BY DEF Repaint, Step
<1>2. (State \in StateType)' /\ Copied(State)'
  BY <1>1 DEF State, Copied, IInv, TypeInv
<1>3. pos' \in 0 .. CharMax /\ cell' \in 1 .. Height * Width + 1
  BY <1>1, Typed, Sizes DEF IInv, TypeInv, SpType
<1>4. CallType'
  BY <1>3 DEF Repaint, Step, IInv, TypeInv, CallType
<1>5. PhaseInv'
  BY <1>1 DEF IInv, PhaseInv, Wide, Still
<1>6. Painted(sp, pos)'
  BY <1>1 DEF Painted
<1>7. ScrollInv'
  BY <1>1, <1>6 DEF IInv, ScrollInv
<1> QED
  BY <1>2, <1>4, <1>5, <1>7 DEF IInv, TypeInv

LEMMA ReleaseIs ==
  ASSUME IInv, Release PROVE IInv'
<1>1. sp \in SpType /\ panel \in PanelType
  BY Typed DEF IInv, TypeInv
<1>2. /\ sp' \in SpType /\ sp'.line = sp.line /\ sp'.address = sp.address /\ sp'.broken = sp.broken
      /\ sp'.scrollpos = sp.scrollpos /\ sp'.scrollmax = sp.scrollmax /\ sp'.active = FALSE
  BY <1>1 DEF Release, SpType
<1>3. UNCHANGED <<panel, rest, old, cell, pos, isr>> /\ pc = "release" /\ pc' = "check" /\ ~isr
  BY DEF Release, Step
<1>4. (State \in StateType)' /\ Copied(State)'
  BY <1>1, <1>2, <1>3 DEF State, StateType, Copied, IInv
<1>5. CallType'
  BY <1>3 DEF IInv, TypeInv, CallType
<1>6. PhaseInv'
  BY <1>2, <1>3 DEF IInv, PhaseInv, Wide, Still
<1>7. Shown(sp, sp.scrollpos) => Shown(sp, sp.scrollpos)'
  BY <1>2 DEF Shown, Visible, Offset
<1>8. ScrollInv'
  BY <1>2, <1>3, <1>7 DEF IInv, ScrollInv
<1> QED
  BY <1>4, <1>5, <1>6, <1>8 DEF IInv, TypeInv

LEMMA FinishIs ==
  ASSUME IInv, Finish PROVE IInv'
<1>1. /\ UNCHANGED <<sp, panel, rest, cell, pos, isr>> /\ pc = "check" /\ pc' = "idle" /\ ~isr
      /\ sp.scrollpos = old /\ old' = 0
  BY DEF Finish, Step
<1>2. (State \in StateType)' /\ Copied(State)'
  BY <1>1 DEF State, Copied, IInv, TypeInv
<1>3. CallType'
  <2>1. old' \in 0 .. CharMax
    BY <1>1, Sizes
  <2> QED
    BY <1>1, <2>1 DEF IInv, TypeInv, CallType
<1>4. PhaseInv'
  BY <1>1 DEF IInv, PhaseInv, Wide, Still
<1>5. Shown(sp, sp.scrollpos) => Shown(sp, sp.scrollpos)'
  BY <1>1 DEF Shown, Visible, Offset
<1>6. ScrollInv'
  BY <1>1, <1>5 DEF IInv, ScrollInv
<1> QED
  BY <1>2, <1>3, <1>4, <1>6 DEF IInv, TypeInv

LEMMA AgainIs ==
  ASSUME IInv, Again PROVE IInv'
<1>1. /\ UNCHANGED <<sp, panel, rest, old, cell, pos, isr>> /\ pc = "check" /\ pc' = "again"
      /\ ~isr /\ sp.scrollpos # old
  BY DEF Again, Step
<1>2. (State \in StateType)' /\ Copied(State)'
  BY <1>1 DEF State, Copied, IInv, TypeInv
<1>3. CallType'
  BY <1>1 DEF IInv, TypeInv, CallType
<1>4. PhaseInv'
  BY <1>1 DEF IInv, PhaseInv, Wide, Still
<1>5. ScrollInv'
  BY <1>1 DEF IInv, ScrollInv
<1> QED
  BY <1>2, <1>3, <1>4, <1>5 DEF IInv, TypeInv

LEMMA ReactivateIs ==
  ASSUME IInv, Reactivate PROVE IInv'
<1>1. sp \in SpType /\ panel \in PanelType
  BY Typed DEF IInv, TypeInv
<1>2. /\ sp' \in SpType /\ sp'.line = sp.line /\ sp'.address = sp.address /\ sp'.broken = sp.broken
      /\ sp'.scrollpos = sp.scrollpos /\ sp'.scrollmax = sp.scrollmax /\ sp'.active = TRUE
  BY <1>1 DEF Reactivate, SpType
<1>3. UNCHANGED <<panel, rest, old, cell, pos, isr>> /\ pc = "again" /\ pc' = "look" /\ ~isr
  BY DEF Reactivate, Step
<1>4. (State \in StateType)' /\ Copied(State)'
  BY <1>1, <1>2, <1>3 DEF State, StateType, Copied, IInv
<1>5. CallType'
  BY <1>3 DEF IInv, TypeInv, CallType
<1>6. PhaseInv'
  BY <1>2, <1>3 DEF IInv, PhaseInv, Wide, Still
<1>7. ScrollInv'
  BY <1>3 DEF ScrollInv
<1> QED
  BY <1>4, <1>5, <1>6, <1>7 DEF IInv, TypeInv

\* One more cell is painted, and those before it stay so.
LEMMA PaintCellIs ==
  ASSUME IInv, PaintCell PROVE IInv'
<1>1. /\ UNCHANGED <<pc, rest, old, isr, pos>> /\ cell <= Height * Width /\ cell' = cell + 1
      /\ isr \/ pc = "painting"
  BY DEF PaintCell
<1>2. State \in StateType /\ Copied(State) /\ cell \in 1 .. Height * Width /\ pos \in Nat
  BY <1>1, Sizes DEF IInv, TypeInv, CallType
<1>3. Wide(sp)
  BY <1>1 DEF IInv, PhaseInv, Fresh
<1> DEFINE e == Paint(State, cell)
           r == RowOf(cell)
           i == ColOf(cell)
<1>4. State.sp = sp /\ State.panel = panel
  BY DEF State
<1>5. /\ e \in StateType /\ Copied(e) /\ SameText(sp, e.sp)
      /\ e.sp.line[r].visible[i] = Visible(sp, r, i, pos)
      /\ \A q \in Rows, j \in Columns :
           q # r \/ j # i => e.sp.line[q].visible[j] = sp.line[q].visible[j]
  BY <1>2, <1>3, <1>4, PaintIs
<1>6. sp' = e.sp /\ panel' = e.panel
  BY DEF PaintCell, Become
<1> HIDE DEF e
<1>7. State' = e
  BY <1>5, <1>6 DEF State, StateType
<1>8. (State \in StateType)' /\ Copied(State)'
  BY <1>5, <1>7 DEF Copied
<1>9. cell' \in 1 .. Height * Width + 1
  BY <1>1, <1>2, Sizes
<1>10. CallType'
  BY <1>1, <1>9 DEF IInv, TypeInv, CallType
<1>11. /\ sp'.scrollpos = sp.scrollpos /\ sp'.scrollmax = sp.scrollmax /\ sp'.active = sp.active
       /\ \A q \in Rows : sp'.line[q].width = sp.line[q].width /\ sp'.line[q].speed = sp.line[q].speed
  BY <1>5, <1>6 DEF SameText
<1>12. PhaseInv'
  BY <1>1, <1>3, <1>11 DEF IInv, PhaseInv, Wide, Still
<1>13. \A k \in 1 .. cell : RowOf(k) \in Rows /\ ColOf(k) \in Columns
                            /\ k = Width * (RowOf(k) - 1) + ColOf(k)
  BY <1>2, Cells, Sizes
<1>14. \A k \in 1 .. cell' - 1 : k = cell \/ k \in 1 .. cell - 1
  BY <1>1, <1>2
<1>15. Painted(sp, pos) => Painted(sp, pos)'
  <2> SUFFICES ASSUME Painted(sp, pos), NEW k \in 1 .. cell' - 1
               PROVE  sp'.line[RowOf(k)].visible[ColOf(k)] = Visible(sp', RowOf(k), ColOf(k), pos)
    BY <1>1 DEF Painted
  <2>1. k \in 1 .. cell
    BY <1>1, <1>2
  <2>2. RowOf(k) \in Rows /\ ColOf(k) \in Columns
    BY <1>13, <2>1
  <2>3. Visible(sp', RowOf(k), ColOf(k), pos) = Visible(sp, RowOf(k), ColOf(k), pos)
    BY <1>5, <1>6, <2>2, SameVisible
  <2>4. CASE k = cell
    BY <1>5, <1>6, <2>3, <2>4
  <2>5. CASE k \in 1 .. cell - 1
    <3>1. RowOf(k) # r \/ ColOf(k) # i
      BY <1>2, <1>13, <2>1, <2>5
    <3>2. sp'.line[RowOf(k)].visible[ColOf(k)] = sp.line[RowOf(k)].visible[ColOf(k)]
      BY <1>5, <1>6, <2>2, <3>1
    <3> QED
      BY <2>3, <2>5, <3>2 DEF Painted
  <2> QED
    BY <1>14, <2>4, <2>5
<1>16. ScrollInv'
  BY <1>1, <1>11, <1>15 DEF IInv, PhaseInv, ScrollInv
<1> QED
  BY <1>8, <1>10, <1>12, <1>16 DEF IInv, TypeInv

\* The last cell is painted: so is the panel.
LEMMA PaintEndIs ==
  ASSUME IInv, PaintEnd PROVE IInv'
<1>1. /\ UNCHANGED <<sp, panel, rest, old>> /\ cell' = 1 /\ pos' = 0 /\ isr' = FALSE
      /\ (isr \/ pc = "painting") /\ cell > Height * Width
      /\ pc' = IF isr THEN pc ELSE "release"
  BY DEF PaintEnd
<1>2. (State \in StateType)' /\ Copied(State)'
  BY <1>1 DEF State, Copied, IInv, TypeInv
<1>3. pos' \in 0 .. CharMax /\ cell' \in 1 .. Height * Width + 1
  BY <1>1, Sizes
<1>4. CallType'
  BY <1>1, <1>3 DEF IInv, TypeInv, CallType
<1>5. sp.active /\ ~isr => pc = "painting"
  BY <1>1
<1>6. PhaseInv'
  BY <1>1 DEF IInv, PhaseInv, Wide, Still
<1>7. Painted(sp, pos)
  BY <1>1 DEF IInv, ScrollInv
<1>8. Shown(sp, pos)
  <2> SUFFICES ASSUME NEW r \in Rows, NEW i \in Columns
               PROVE  sp.line[r].visible[i] = Visible(sp, r, i, pos)
    BY DEF Shown
  <2>1. PICK k \in 1 .. Height * Width : RowOf(k) = r /\ ColOf(k) = i
    BY CellOf
  <2>2. k \in 1 .. cell - 1
    BY PaintEnd, Sizes DEF PaintEnd, IInv, TypeInv, CallType
  <2> QED
    BY <1>7, <2>1, <2>2 DEF Painted
<1>9. pos = sp.scrollpos => Shown(sp, sp.scrollpos)'
  BY <1>1, <1>8 DEF Shown, Visible, Offset
<1>10. ScrollInv'
  BY <1>1, <1>9 DEF IInv, PhaseInv, ScrollInv
<1> QED
  BY <1>2, <1>4, <1>6, <1>10 DEF IInv, TypeInv

\* The timer.  A line without speed is shown at any position.
LEMMA ScrollTickIs ==
  ASSUME IInv, ScrollTick PROVE IInv'
<1> DEFINE next == IF sp.scrollpos + 1 >= sp.scrollmax THEN 0 ELSE sp.scrollpos + 1
<1>1. sp \in SpType /\ panel \in PanelType
  BY Typed DEF IInv, TypeInv
<1>2. next \in 0 .. CharMax
  BY <1>1, Sizes DEF SpType
<1>3. /\ UNCHANGED <<panel, pc, rest, old, cell>> /\ ~isr
      /\ sp' = [sp EXCEPT !.scrollpos = next]
      /\ isr' = (sp.scrollmax > 0 /\ ~sp.active)
      /\ pos' = IF isr' THEN next ELSE pos
  BY DEF ScrollTick
<1>4. sp.scrollpos \in Nat /\ sp.scrollmax \in Int /\ sp.active \in BOOLEAN
  BY <1>1, Sizes DEF SpType
<1> HIDE DEF next
<1>5. /\ sp' \in SpType /\ sp'.line = sp.line /\ sp'.address = sp.address /\ sp'.broken = sp.broken
      /\ sp'.scrollpos = next /\ sp'.scrollmax = sp.scrollmax /\ sp'.active = sp.active
  BY <1>1, <1>2, <1>3 DEF SpType
<1>6. (State \in StateType)' /\ Copied(State)'
  BY <1>1, <1>3, <1>5 DEF State, StateType, Copied, IInv
<1>7. pos' \in 0 .. CharMax /\ isr' \in BOOLEAN
  BY <1>2, <1>3 DEF IInv, TypeInv, CallType
<1>8. CallType'
  BY <1>3, <1>7 DEF IInv, TypeInv, CallType
<1>9. isr' => sp.scrollmax > 0 /\ pc \in {"idle", "check", "again"}
  BY <1>3 DEF IInv, PhaseInv, TypeInv, CallType
<1>10. isr \/ pc \in {"painting", "release"} \/ cell = 1
  BY DEF IInv, PhaseInv
<1>11. PhaseInv'
  BY <1>3, <1>5, <1>9 DEF IInv, PhaseInv, Wide, Still, Fresh
<1>12. Painted(sp, pos) /\ pos' = pos => Painted(sp, pos)'
  <2>1. sp'.line = sp.line /\ cell' = cell
    BY <1>3, <1>5
  <2> QED
    BY <2>1 DEF Painted, Visible, Offset
<1>13. isr' => Painted(sp, pos)'
  BY <1>3, <1>9 DEF IInv, PhaseInv, Painted
<1>14. Shown(sp, sp.scrollpos) /\ (sp.scrollpos = next \/ (sp.scrollmax = 0 /\ pc # "chars"))
         => Shown(sp, sp.scrollpos)'
  <2> SUFFICES ASSUME Shown(sp, sp.scrollpos),
                      sp.scrollpos = next \/ (sp.scrollmax = 0 /\ pc # "chars"),
                      NEW r \in Rows, NEW i \in Columns
               PROVE  sp'.line[r].visible[i] = Visible(sp', r, i, next)
    BY <1>5 DEF Shown
  <2>1. Visible(sp', r, i, next) = Visible(sp, r, i, next)
    BY <1>5 DEF Visible, Offset
  <2>2. Visible(sp, r, i, next) = Visible(sp, r, i, sp.scrollpos)
    <3>1. CASE sp.scrollpos = next
      BY <3>1
    <3>2. CASE sp.scrollmax = 0 /\ pc # "chars"
      <4>1. sp.line[r].speed = 0 /\ next \in Nat /\ sp.scrollpos \in Nat
        BY <1>2, <1>4, <3>2 DEF IInv, PhaseInv, Still
      <4> QED
        BY <4>1, StillLine
    <3> QED
      BY <3>1, <3>2
  <2> QED
    BY <1>5, <2>1, <2>2 DEF Shown
<1>15. pc = "painting" => pos' = pos /\ Painted(sp, pos)'
  BY <1>3, <1>9, <1>12 DEF IInv, ScrollInv, Painted
<1>16. pc \in Pass => next # old \/ next = sp.scrollpos
  BY DEF ScrollTick, NoRound, next
<1>17. ~isr' /\ sp'.scrollmax >= 0 /\ pc \in {"idle", "check", "again"} => sp.scrollmax = 0
  <2>1. pc \in {"idle", "check", "again"} => ~sp.active
    BY DEF IInv, PhaseInv
  <2>2. ~isr' /\ ~sp.active => ~(sp.scrollmax > 0)
    BY <1>3
  <2>3. sp'.scrollmax >= 0 /\ ~(sp.scrollmax > 0) => sp.scrollmax = 0
    BY <1>4, <1>5
  <2> QED
    BY <2>1, <2>2, <2>3
<1>18. Fresh(sp) => Fresh(sp)'
  BY <1>5 DEF Fresh
<1>19. pc = "idle" /\ ~isr' /\ sp'.scrollmax >= 0 => Fresh(sp)' \/ Shown(sp, sp.scrollpos)'
  BY <1>3, <1>5, <1>14, <1>17, <1>18 DEF IInv, ScrollInv
<1>20. pc = "release" /\ sp'.scrollpos = old => Shown(sp, sp.scrollpos)'
  BY <1>5, <1>14, <1>16 DEF IInv, ScrollInv, Pass
<1>21. pc = "check" /\ ~isr' /\ sp'.scrollmax >= 0 /\ sp'.scrollpos = old => Shown(sp, sp.scrollpos)'
  BY <1>3, <1>5, <1>14, <1>16, <1>17 DEF IInv, ScrollInv, Pass
<1>22. isr' => pos' = sp'.scrollpos
  BY <1>3, <1>5
<1>23. pc = "again" => sp'.scrollpos # old
  BY <1>5, <1>16 DEF IInv, ScrollInv, Pass
<1>24. pc = "painting" /\ sp'.scrollpos = old => pos' = sp'.scrollpos
  BY <1>5, <1>15, <1>16 DEF IInv, ScrollInv, Pass
<1>25. ScrollInv'
  BY <1>3, <1>5, <1>13, <1>15, <1>19, <1>20, <1>21, <1>22, <1>23, <1>24 DEF ScrollInv
<1> QED
  BY <1>6, <1>8, <1>11, <1>25 DEF IInv, TypeInv

LEMMA SameScroll ==
  ASSUME ScrollInv, UNCHANGED <<sp, pc, old, isr, cell, pos>> PROVE ScrollInv'
<1>1. /\ Fresh(sp) => Fresh(sp)'
      /\ Painted(sp, pos) => Painted(sp, pos)'
      /\ Shown(sp, sp.scrollpos) => Shown(sp, sp.scrollpos)'
  <2>1. Fresh(sp) => Fresh(sp)'
    BY DEF Fresh
  <2>2. Painted(sp, pos) => Painted(sp, pos)'
    BY DEF Painted, Visible, Offset
  <2>3. Shown(sp, sp.scrollpos) => Shown(sp, sp.scrollpos)'
    BY DEF Shown, Visible, Offset
  <2> QED
    BY <2>1, <2>2, <2>3
<1> QED
  BY <1>1 DEF ScrollInv

LEMMA UnplugIs ==
  ASSUME IInv, Unplug PROVE IInv'
<1>1. UNCHANGED <<sp, pc, rest, old, isr, cell, pos>>
      /\ panel' = [ram |-> BlankRam, ac |-> 0, unplugged |-> TRUE]
  BY DEF Unplug
<1>2. panel' \in PanelType
  BY <1>1, Sizes DEF PanelType, BlankRam, Ram, Glyph
<1>3. (State \in StateType)' /\ Copied(State)'
  BY <1>1, <1>2, Typed DEF State, StateType, Copied, IInv, TypeInv
<1>4. CallType'
  BY <1>1 DEF IInv, TypeInv, CallType
<1>5. PhaseInv'
  BY <1>1 DEF IInv, PhaseInv, Wide, Still, Fresh
<1>6. ScrollInv'
  BY <1>1, SameScroll DEF IInv
<1> QED
  BY <1>3, <1>4, <1>5, <1>6 DEF IInv, TypeInv

-----------------------------------------------------------------------------
(* The invariant of every run. *)

LEMMA Initially == DriverInit => IInv
<1> SUFFICES ASSUME DriverInit PROVE IInv
  OBVIOUS
<1> DEFINE line == [r \in Rows |-> BlankLine]
<1>1. BlankShown \in [Columns -> Glyph] /\ BlankText \in [1 .. Virtual + 1 -> Glyph]
      /\ BlankRam \in [Ram -> Glyph]
  BY DEF BlankShown, BlankText, BlankRam, Ram, Glyph
<1>2. BlankLine \in LineType
  BY <1>1 DEF BlankLine, LineType
<1>3. line \in [Rows -> LineType] /\ \A r \in Rows : line[r] = BlankLine
  BY <1>2
<1> HIDE DEF line
<1>4. /\ sp = [x |-> 0, y |-> 1, address |-> 0, broken |-> FALSE, scrollpos |-> 0,
               scrollmax |-> 0, active |-> FALSE, line |-> line]
      /\ panel = [ram |-> BlankRam, ac |-> 0, unplugged |-> FALSE]
      /\ pc = "idle" /\ rest = <<>> /\ old = 0
      /\ isr = FALSE /\ cell = 1 /\ pos = 0
  BY DEF DriverInit, line
<1>5. sp \in SpType
  BY <1>3, <1>4, Sizes DEF SpType
<1>6. panel \in PanelType
  BY <1>1, <1>4, Sizes DEF PanelType
<1>7. CallType
  <2>1. old \in 0 .. CharMax /\ pos \in 0 .. CharMax /\ cell \in 1 .. Height * Width + 1
    BY <1>4, Sizes
  <2>2. CallType
    <3>1. rest \in Seq(Items)
      <4>1. rest = <<>>
        BY <1>4
      <4>2. <<>> \in Seq(Items)
        OBVIOUS
      <4> QED
        BY <4>1, <4>2
    <3>3. isr \in BOOLEAN
      BY <1>4
    <3>2. pc \in {"idle", "chars", "look", "repaint", "painting", "release", "check", "again"}
      BY <1>4
    <3> QED
      BY <2>1, <3>1, <3>2, <3>3 DEF CallType
  <2> QED
    BY <2>2
<1>8. \A r \in Rows, i \in Columns : BlankRam[ColStart[r] + i - 1] = Blank /\ BlankShown[i] = Blank
  BY Addresses DEF BlankRam, Ram, BlankShown
<1>9. Copied(State)
  BY <1>3, <1>4, <1>8 DEF Copied, State, BlankLine
<1>10. Fresh(sp) /\ Still(sp)
  BY <1>3, <1>4 DEF Fresh, Still, BlankLine
<1>11. PhaseInv
  BY <1>4, <1>10 DEF PhaseInv
<1>12. ScrollInv
  BY <1>4, <1>10 DEF ScrollInv
<1> QED
  BY <1>5, <1>6, <1>7, <1>9, <1>11, <1>12, Typed DEF IInv, TypeInv

LEMMA Inductive == IInv /\ [DriverNext]_driverVars => IInv'
<1> SUFFICES ASSUME IInv, [DriverNext]_driverVars PROVE IInv'
  OBVIOUS
<1>1. CASE CallWrite
  BY <1>1, CallWriteIs
<1>2. CASE WriteStep
  BY <1>2, CharacterIs, SetLayoutIs, LookIs, RepaintIs, ReleaseIs, FinishIs, AgainIs, ReactivateIs
     DEF WriteStep
<1>3. CASE PaintCell
  BY <1>3, PaintCellIs
<1>4. CASE PaintEnd
  BY <1>4, PaintEndIs
<1>5. CASE ScrollTick
  BY <1>5, ScrollTickIs
<1>6. CASE Unplug
  BY <1>6, UnplugIs
<1>7. CASE UNCHANGED driverVars
  <2>1. UNCHANGED driverVars
    BY <1>7
  <2>2. ScrollInv'
    BY <2>1, SameScroll DEF driverVars, IInv
  <2>3. TypeInv' /\ Copied(State)'
    BY <2>1 DEF driverVars, IInv, TypeInv, CallType, State, Copied
  <2>4. PhaseInv'
    BY <2>1 DEF driverVars, IInv, PhaseInv, Wide, Still, Fresh
  <2> QED
    BY <2>2, <2>3, <2>4 DEF IInv
<1> QED
  BY <1>1, <1>2, <1>3, <1>4, <1>5, <1>6, <1>7 DEF DriverNext

LEMMA Invariance == DriverSpec => []IInv
<1>1. DriverInit => IInv
  BY Initially
<1>2. IInv /\ [DriverNext]_driverVars => IInv'
  BY Inductive
<1> QED
  BY <1>1, <1>2, PTL DEF DriverSpec

-----------------------------------------------------------------------------
(* What the invariant says. *)

\* No sequence of texts, ticks and failures takes a field out of its C type or
\* the cursor off the display and the line below it.
THEOREM TypeCorrect == DriverSpec => []DriverTypeOK
<1>1. IInv => DriverTypeOK
  <2> SUFFICES ASSUME IInv PROVE DriverTypeOK
    OBVIOUS
  <2>1. sp \in SpType /\ panel \in PanelType /\ CallType
    BY Typed DEF IInv, TypeInv
  <2>2. \A r \in Rows : sp.line[r] \in LineType
    BY <2>1 DEF SpType
  <2> QED
    BY <2>1, <2>2 DEF SpType, PanelType, LineType, CallType, DriverTypeOK
<1> QED
  BY <1>1, Invariance, PTL

\* The copy of the panel that lets the driver write only what has changed is
\* never wrong while the panel answers.
THEOREM CopyCorrect == DriverSpec => []CopyMatchesPanel
<1>1. IInv => CopyMatchesPanel
  BY DEF IInv, Copied, State, CopyMatchesPanel
<1> QED
  BY <1>1, Invariance, PTL

\* However the timer interrupts a call of write, no scrolling position is left
\* unpainted when the foreground lets go.
THEOREM ShownCorrect == DriverSpec => []ShowsText
<1>1. IInv => ShowsText
  <2> SUFFICES ASSUME IInv, ~sp.active, ~isr PROVE ShowsText
    BY DEF ShowsText
  <2>1. sp \in SpType /\ CallType /\ pc \in {"idle", "check", "again"}
    BY Typed DEF IInv, TypeInv, PhaseInv, CallType
  <2>2. sp.scrollmax > 0 => \A r \in Rows : sp.line[r].width >= Width
    BY <2>1 DEF IInv, PhaseInv, Wide, Fresh
  <2>3. \A r \in Rows : sp.line[r].visible \in [Columns -> Glyph]
    BY <2>1 DEF SpType, LineType
  <2>4. ASSUME NEW r \in Rows, Fresh(sp) \/ (Wide(sp) /\ Shown(sp, sp.scrollpos))
        PROVE  sp.line[r].visible = IF sp.line[r].width = 0 THEN BlankShown
                                    ELSE [i \in Columns |-> Visible(sp, r, i, sp.scrollpos)]
    <3>1. CASE Fresh(sp)
      BY <3>1 DEF Fresh
    <3>2. CASE Wide(sp) /\ Shown(sp, sp.scrollpos)
      <4>1. sp.line[r].width # 0
        BY <3>2, Sizes DEF Wide
      <4>2. \A i \in Columns : sp.line[r].visible[i] = Visible(sp, r, i, sp.scrollpos)
        BY <3>2 DEF Shown
      <4> QED
        BY <2>3, <4>1, <4>2
    <3> QED
      BY <2>4, <3>1, <3>2
  <2>5. \/ sp.scrollmax < 0
        \/ pc \in {"check", "again"} /\ sp.scrollpos # old
        \/ Fresh(sp) \/ (Wide(sp) /\ Shown(sp, sp.scrollpos))
    <3>1. sp.scrollmax < 0 \/ sp.scrollmax >= 0
      BY <2>1, Sizes DEF SpType
    <3>2. CASE sp.scrollmax >= 0 /\ pc = "idle"
      <4>1. Fresh(sp) \/ Shown(sp, sp.scrollpos)
        BY <3>2 DEF IInv, ScrollInv
      <4>2. Fresh(sp) \/ Wide(sp)
        BY <3>2 DEF IInv, PhaseInv
      <4> QED
        BY <4>1, <4>2
    <3>3. CASE sp.scrollmax >= 0 /\ pc = "check"
      BY <3>3 DEF IInv, PhaseInv, ScrollInv
    <3>4. CASE pc = "again"
      BY <3>4 DEF IInv, ScrollInv
    <3> QED
      BY <2>1, <3>1, <3>2, <3>3, <3>4
  <2> QED
    BY <2>2, <2>4, <2>5 DEF ShowsText
<1> QED
  BY <1>1, Invariance, PTL

=============================================================================
