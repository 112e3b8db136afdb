----------------------------- MODULE UartProofs -----------------------------
(***************************************************************************)
(* The serial port driver sends every character once and in order, loses   *)
(* no character that it has not reported as overwritten, and loses no      *)
(* wake-up: for every size of the rings, blocks of any length and any      *)
(* traffic on the line.                                                    *)
(***************************************************************************)
EXTENDS Uart, Integers, TLAPS

\* The sending side between two accesses: a place found in the ring stays free,
\* and the port stays ready for the character the routine is about to give it.
Sending ==
  /\ place \in {"wPut", "wPublish"} => After(tx_end) # tx_start
  /\ place \in {"wEnable", "wSpin", "wPut", "wPublish"} => slot = After(tx_end)
  /\ place = "wPublish" => txbuf[tx_end] = accepted
  /\ irq = "tx" => trdy
  /\ irq \in {"clear", "rx"} /\ status.trdy => trdy

\* The receiving side: the character the routine is about to take is there, and
\* its error flag is the one the routine has read, unless the port overran; the
\* character read is about to release is the one it has copied.
Receiving ==
  /\ irq = "rx" => rrdy
  /\ irq = "clear" /\ status.rrdy => rrdy
  /\ ~overrun => /\ fe => rrdy
                 /\ irq = "rx" => ~fe
                 /\ irq = "clear" /\ status.rrdy => (status.fe <=> fe)
  /\ ~spilled => /\ place \in {"rCopy", "rRelease"} => rx_start # rx_end
                 /\ place = "rRelease" => Len(returned) > 0 /\ returned[Len(returned)] = rxbuf[rx_start]

UartInv ==
  /\ UartTypeOK /\ Sending /\ Receiving
  /\ UartTransmits /\ UartReceives /\ UartNoLostWakeup

-----------------------------------------------------------------------------
(* Sequences. *)

LEMMA Equal ==
  ASSUME NEW s \in Seq(Nat), NEW t \in Seq(Nat), Len(s) = Len(t),
         \A i \in 1 .. Len(s) : s[i] = t[i]
  PROVE  s = t
  OBVIOUS

LEMMA AppendIs ==
  ASSUME NEW s \in Seq(Nat), NEW t \in Seq(Nat), NEW v \in Nat, Len(t) = Len(s) + 1,
         \A i \in 1 .. Len(s) : t[i] = s[i], t[Len(t)] = v
  PROVE  t = Append(s, v)
<1> DEFINE u == Append(s, v)
<1>1. u \in Seq(Nat) /\ Len(u) = Len(s) + 1 /\ Len(s) \in Nat
  OBVIOUS
<1>2. \A i \in 1 .. Len(s) : u[i] = s[i]
  OBVIOUS
<1>3. u[Len(s) + 1] = v
  OBVIOUS
<1> HIDE DEF u
<1>4. \A i \in 1 .. Len(t) : t[i] = u[i]
  <2> SUFFICES ASSUME NEW i \in 1 .. Len(t) PROVE t[i] = u[i]
    OBVIOUS
  <2>1. i \in 1 .. Len(s) \/ i = Len(s) + 1
    BY <1>1
  <2>2. CASE i \in 1 .. Len(s)
    BY <1>2, <2>2
  <2>3. CASE i = Len(s) + 1
    BY <1>3, <2>3
  <2> QED
    BY <2>1, <2>2, <2>3
<1>5. t = u
  BY <1>1, <1>4, Equal
<1> QED
  BY <1>5 DEF u

LEMMA PrependIs ==
  ASSUME NEW s \in Seq(Nat), NEW t \in Seq(Nat), NEW v \in Nat, Len(s) = Len(t) + 1,
         s[1] = v, \A i \in 1 .. Len(t) : s[i + 1] = t[i]
  PROVE  s = <<v>> \o t
<1> DEFINE u == <<v>> \o t
<1>1. u \in Seq(Nat) /\ Len(u) = Len(t) + 1 /\ Len(t) \in Nat
  OBVIOUS
<1>2. u[1] = v
  OBVIOUS
<1>3. \A i \in 2 .. Len(t) + 1 : u[i] = t[i - 1]
  OBVIOUS
<1>4. \A i \in 2 .. Len(t) + 1 : s[i] = t[i - 1]
  <2> SUFFICES ASSUME NEW i \in 2 .. Len(t) + 1 PROVE s[i] = t[i - 1]
    OBVIOUS
  <2>1. i - 1 \in 1 .. Len(t) /\ (i - 1) + 1 = i
    BY <1>1
  <2> QED
    BY <2>1
<1> HIDE DEF u
<1>5. \A i \in 1 .. Len(s) : s[i] = u[i]
  <2> SUFFICES ASSUME NEW i \in 1 .. Len(s) PROVE s[i] = u[i]
    OBVIOUS
  <2>1. i = 1 \/ i \in 2 .. Len(t) + 1
    BY <1>1
  <2>2. CASE i = 1
    BY <1>2, <2>2
  <2>3. CASE i \in 2 .. Len(t) + 1
    BY <1>3, <1>4, <2>3
  <2> QED
    BY <2>1, <2>2, <2>3
<1>6. s = u
  BY <1>1, <1>5, Equal
<1> QED
  BY <1>6 DEF u

LEMMA Associative ==
  ASSUME NEW s \in Seq(Nat), NEW t \in Seq(Nat), NEW u \in Seq(Nat)
  PROVE  /\ s \o t \in Seq(Nat)
         /\ (s \o t) \o u = s \o (t \o u)
  BY SMTT(30)

LEMMA NumbersGrow ==
  ASSUME NEW k \in Nat
  PROVE  Numbers(k) \in Seq(Nat) /\ Numbers(k + 1) = Append(Numbers(k), k + 1)
<1> DEFINE s == Numbers(k)  t == Numbers(k + 1)
<1>1. s \in Seq(Nat) /\ Len(s) = k /\ \A i \in 1 .. k : s[i] = i
  BY DEF Numbers
<1>2. t \in Seq(Nat) /\ Len(t) = k + 1 /\ \A i \in 1 .. k + 1 : t[i] = i
  BY DEF Numbers
<1> HIDE DEF s, t
<1>3. \A i \in 1 .. k : t[i] = s[i]
  BY <1>1, <1>2
<1>4. t = Append(s, k + 1)
  BY <1>1, <1>2, <1>3, AppendIs
<1> QED
  BY <1>1, <1>4 DEF s, t

LEMMA AppendConcat ==
  ASSUME NEW s \in Seq(Nat), NEW t \in Seq(Nat), NEW v \in Nat
  PROVE  /\ <<v>> \in Seq(Nat) /\ <<>> \in Seq(Nat) /\ Append(t, v) \in Seq(Nat)
         /\ Append(s, v) = s \o <<v>>
         /\ s \o <<>> = s /\ <<>> \o s = s
         /\ s \o Append(t, v) = Append(s \o t, v)
<1>1. /\ Append(s, v) = s \o <<v>>
      /\ s \o <<>> = s /\ <<>> \o s = s
  OBVIOUS
<1>2. <<v>> \in Seq(Nat) /\ <<>> \in Seq(Nat) /\ Append(t, v) \in Seq(Nat) /\ s \o t \in Seq(Nat)
  OBVIOUS
<1>3. Append(t, v) = t \o <<v>>
  OBVIOUS
<1>4. Append(s \o t, v) = (s \o t) \o <<v>>
  BY <1>2
<1>5. (s \o t) \o <<v>> = s \o (t \o <<v>>)
  BY <1>2, Associative
<1> QED
  BY <1>1, <1>2, <1>3, <1>4, <1>5

\* A character appended to the second part is appended to the whole.
LEMMA AppendLast ==
  ASSUME NEW s \in Seq(Nat), NEW t \in Seq(Nat), NEW v \in Nat
  PROVE  Append(s \o t, v) = s \o Append(t, v)
  BY AppendConcat, ZenonT(30)

-----------------------------------------------------------------------------
(* The rings. *)

\* What the code computes by remainders, by cases.
Distance(a, b) == IF b >= a THEN b - a ELSE b + RingLen - a

LEMMA Remainder ==
  /\ \A k \in 0 .. RingLen - 1 : k % RingLen = k
  /\ \A k \in RingLen .. 2 * RingLen - 1 : k % RingLen = k - RingLen
  BY RingAssumption

LEMMA AfterIs ==
  ASSUME NEW a \in Ring
  PROVE  /\ After(a) \in Ring /\ After(a) # a
         /\ After(a) = IF a = RingLen - 1 THEN 0 ELSE a + 1
<1>1. CASE a = RingLen - 1
  BY <1>1, Remainder, RingAssumption DEF After, Ring
<1>2. CASE a < RingLen - 1
  BY <1>2, Remainder, RingAssumption DEF After, Ring
<1> QED
  BY <1>1, <1>2, RingAssumption DEF Ring

LEMMA DistanceIs ==
  ASSUME NEW a \in Ring, NEW b \in Ring
  PROVE  /\ (b + RingLen - a) % RingLen = Distance(a, b)
         /\ Distance(a, b) \in 0 .. RingLen - 1
         /\ Distance(a, b) = 0 <=> a = b
<1>1. CASE b >= a
  BY <1>1, Remainder, RingAssumption DEF Distance, Ring
<1>2. CASE b < a
  BY <1>2, Remainder, RingAssumption DEF Distance, Ring
<1> QED
  BY <1>1, <1>2, RingAssumption DEF Ring

LEMMA DistanceAfter ==
  ASSUME NEW a \in Ring, NEW b \in Ring
  PROVE  /\ After(b) # a => Distance(a, After(b)) = Distance(a, b) + 1
         /\ a # b => Distance(After(a), b) = Distance(a, b) - 1
  BY AfterIs, RingAssumption DEF Distance, Ring

\* The slot i characters behind a.
Place(a, i) == (a + i - 1) % RingLen

LEMMA PlaceIs ==
  ASSUME NEW a \in Ring, NEW i \in 1 .. RingLen
  PROVE  /\ Place(a, i) \in Ring
         /\ Place(a, i) = IF a + i - 1 < RingLen THEN a + i - 1 ELSE a + i - 1 - RingLen
<1>1. CASE a + i - 1 < RingLen
  BY <1>1, Remainder, RingAssumption DEF Place, Ring
<1>2. CASE a + i - 1 >= RingLen
  BY <1>2, Remainder, RingAssumption DEF Place, Ring
<1> QED
  BY <1>1, <1>2, RingAssumption DEF Ring

LEMMA BetweenIs ==
  ASSUME NEW ring \in [Ring -> Nat], NEW a \in Ring, NEW b \in Ring
  PROVE  /\ Between(ring, a, b) = [i \in 1 .. Distance(a, b) |-> ring[Place(a, i)]]
         /\ Between(ring, a, b) \in Seq(Nat)
         /\ Len(Between(ring, a, b)) = Distance(a, b)
         /\ \A i \in 1 .. Distance(a, b) : Between(ring, a, b)[i] = ring[Place(a, i)]
<1>1. Between(ring, a, b) = [i \in 1 .. Distance(a, b) |-> ring[Place(a, i)]]
  BY DistanceIs DEF Between, Place
<1>2. Distance(a, b) \in Nat /\ \A i \in 1 .. Distance(a, b) : ring[Place(a, i)] \in Nat
  <2>1. Distance(a, b) \in Nat /\ 1 .. Distance(a, b) \subseteq 1 .. RingLen
    BY DistanceIs, RingAssumption
  <2> QED
    BY <2>1, PlaceIs
<1> QED
  BY <1>1, <1>2

\* The empty ring.
LEMMA BetweenEmpty ==
  ASSUME NEW ring \in [Ring -> Nat], NEW a \in Ring
  PROVE  Between(ring, a, a) = <<>>
  BY BetweenIs, DistanceIs

\* A character written at the end is not in the ring yet.
LEMMA BetweenWrite ==
  ASSUME NEW ring \in [Ring -> Nat], NEW a \in Ring, NEW b \in Ring, NEW v \in Nat
  PROVE  Between([ring EXCEPT ![b] = v], a, b) = Between(ring, a, b)
<1> DEFINE new == [ring EXCEPT ![b] = v]
<1>1. new \in [Ring -> Nat]
  OBVIOUS
<1>2. \A i \in 1 .. Distance(a, b) : Place(a, i) \in Ring /\ Place(a, i) # b
  <2> SUFFICES ASSUME NEW i \in 1 .. Distance(a, b)
               PROVE  Place(a, i) \in Ring /\ Place(a, i) # b
    OBVIOUS
  <2>1. i \in 1 .. RingLen /\ i <= Distance(a, b)
    BY DistanceIs, RingAssumption
  <2>2. /\ Place(a, i) \in Ring
        /\ Place(a, i) = IF a + i - 1 < RingLen THEN a + i - 1 ELSE a + i - 1 - RingLen
    BY <2>1, PlaceIs
  <2> QED
    BY <2>1, <2>2, RingAssumption DEF Ring, Distance
<1>3. \A i \in 1 .. Distance(a, b) : new[Place(a, i)] = ring[Place(a, i)]
  BY <1>2
<1> HIDE DEF new
<1>4. Between(new, a, b) = [i \in 1 .. Distance(a, b) |-> new[Place(a, i)]]
  BY <1>1, BetweenIs
<1>5. Between(ring, a, b) = [i \in 1 .. Distance(a, b) |-> ring[Place(a, i)]]
  BY BetweenIs
<1> QED
  BY <1>3, <1>4, <1>5 DEF new

\* Moving the end publishes the character there.
LEMMA BetweenGrow ==
  ASSUME NEW ring \in [Ring -> Nat], NEW a \in Ring, NEW b \in Ring, After(b) # a
  PROVE  Between(ring, a, After(b)) = Append(Between(ring, a, b), ring[b])
<1> DEFINE s == Between(ring, a, b)  t == Between(ring, a, After(b))  d == Distance(a, b)
<1>1. /\ After(b) \in Ring /\ Distance(a, After(b)) = d + 1 /\ d \in Nat /\ d < RingLen
  BY AfterIs, DistanceAfter, DistanceIs, RingAssumption
<1>2. s \in Seq(Nat) /\ Len(s) = d /\ \A i \in 1 .. d : s[i] = ring[Place(a, i)]
  BY BetweenIs
<1>3. t \in Seq(Nat) /\ Len(t) = d + 1 /\ \A i \in 1 .. d + 1 : t[i] = ring[Place(a, i)]
  <2> DEFINE c == After(b)
  <2>1. c \in Ring /\ Distance(a, c) = d + 1
    BY <1>1
  <2> HIDE DEF c
  <2>2. /\ Between(ring, a, c) \in Seq(Nat) /\ Len(Between(ring, a, c)) = Distance(a, c)
        /\ \A i \in 1 .. Distance(a, c) : Between(ring, a, c)[i] = ring[Place(a, i)]
    BY <2>1, BetweenIs
  <2> QED
    BY <2>1, <2>2 DEF c
<1>4. Place(a, d + 1) = b
  BY <1>1, PlaceIs, RingAssumption, SMTT(30) DEF Distance, Ring
<1>5. ring[b] \in Nat
  OBVIOUS
<1> HIDE DEF s, t, d
<1>6. ASSUME NEW i \in 1 .. d PROVE t[i] = s[i]
  <2>1. i \in 1 .. d + 1
    BY <1>1
  <2> QED
    BY <1>2, <1>3, <2>1
<1>7. t[d + 1] = ring[b]
  BY <1>1, <1>3, <1>4
<1>8. t = Append(s, ring[b])
  BY <1>2, <1>3, <1>5, <1>6, <1>7, AppendIs
<1> QED
  BY <1>8 DEF s, t

\* Moving the start releases the character there.
LEMMA BetweenShrink ==
  ASSUME NEW ring \in [Ring -> Nat], NEW a \in Ring, NEW b \in Ring, a # b
  PROVE  Between(ring, a, b) = <<ring[a]>> \o Between(ring, After(a), b)
<1> DEFINE s == Between(ring, a, b)  t == Between(ring, After(a), b)  d == Distance(a, b)
<1>1. /\ After(a) \in Ring /\ Distance(After(a), b) = d - 1 /\ d \in Nat /\ d < RingLen /\ d > 0
  BY AfterIs, DistanceAfter, DistanceIs, RingAssumption
<1>2. s \in Seq(Nat) /\ Len(s) = d /\ \A i \in 1 .. d : s[i] = ring[Place(a, i)]
  BY BetweenIs
<1>3. t \in Seq(Nat) /\ Len(t) = d - 1 /\ \A i \in 1 .. d - 1 : t[i] = ring[Place(After(a), i)]
  <2> DEFINE c == After(a)
  <2>1. c \in Ring /\ Distance(c, b) = d - 1
    BY <1>1
  <2> HIDE DEF c
  <2>2. /\ Between(ring, c, b) \in Seq(Nat) /\ Len(Between(ring, c, b)) = Distance(c, b)
        /\ \A i \in 1 .. Distance(c, b) : Between(ring, c, b)[i] = ring[Place(c, i)]
    BY <2>1, BetweenIs
  <2> QED
    BY <2>1, <2>2 DEF c
<1>4. Place(a, 1) = a /\ \A i \in 1 .. d - 1 : Place(After(a), i) = Place(a, i + 1)
  <2>1. Place(a, 1) = a
    BY PlaceIs, RingAssumption DEF Ring
  <2>2. ASSUME NEW i \in 1 .. d - 1 PROVE Place(After(a), i) = Place(a, i + 1)
    <3>1. i \in 1 .. RingLen /\ i + 1 \in 1 .. RingLen
      BY <1>1, RingAssumption
    <3> DEFINE c == After(a)  j == i + 1
    <3>2. c \in Ring /\ c = (IF a = RingLen - 1 THEN 0 ELSE a + 1) /\ j \in 1 .. RingLen
      BY <3>1, AfterIs
    <3> HIDE DEF c, j
    <3>3. /\ Place(c, i) = IF c + i - 1 < RingLen THEN c + i - 1 ELSE c + i - 1 - RingLen
          /\ Place(a, j) = IF a + j - 1 < RingLen THEN a + j - 1 ELSE a + j - 1 - RingLen
      BY <3>1, <3>2, PlaceIs
    <3>4. j = i + 1
      BY DEF j
    <3>5. Place(c, i) = Place(a, j)
      <4>1. /\ a \in 0 .. RingLen - 1 /\ RingLen \in Nat /\ RingLen > 1
            /\ i \in 1 .. RingLen - 1 /\ j - 1 = i
        BY <1>1, <3>1, <3>4, RingAssumption DEF Ring
      <4>2. a + j - 1 = a + i
        BY <3>4, <4>1
      <4>3. CASE a = RingLen - 1
        <5>1. c + i - 1 = i - 1 /\ i - 1 < RingLen
          BY <3>2, <4>1, <4>3
        <5>2. ~(a + j - 1 < RingLen) /\ a + j - 1 - RingLen = i - 1
          BY <4>1, <4>2, <4>3
        <5> QED
          BY <3>3, <5>1, <5>2
      <4>4. CASE a < RingLen - 1
        <5>1. c + i - 1 = a + i
          BY <3>2, <4>1, <4>4
        <5> QED
          BY <3>2, <3>3, <4>1, <4>2, <4>4, <5>1
      <4> QED
        BY <4>1, <4>3, <4>4
    <3> QED
      BY <3>5 DEF c, j
  <2> QED
    BY <2>1, <2>2
<1>5. ring[a] \in Nat
  OBVIOUS
<1> HIDE DEF s, t, d
<1>6. s[1] = ring[a]
  BY <1>1, <1>2, <1>4
<1>7. ASSUME NEW i \in 1 .. d - 1 PROVE s[i + 1] = t[i]
  <2>1. i + 1 \in 1 .. d
    BY <1>1
  <2>2. s[i + 1] = ring[Place(a, i + 1)]
    BY <1>2, <2>1
  <2>3. t[i] = ring[Place(After(a), i)]
    BY <1>3
  <2>4. Place(After(a), i) = Place(a, i + 1)
    BY <1>4
  <2> QED
    BY <2>2, <2>3, <2>4
<1>8. s = <<ring[a]>> \o t
  <2>1. Len(s) = Len(t) + 1 /\ \A i \in 1 .. Len(t) : s[i + 1] = t[i]
    BY <1>1, <1>2, <1>3, <1>7
  <2> QED
    BY <1>2, <1>3, <1>5, <1>6, <2>1, PrependIs
<1> QED
  BY <1>8 DEF s, t

-----------------------------------------------------------------------------
(* Types. *)

LEMMA UartTypeStep ==
  ASSUME UartTypeOK, [UartNext]_uartVars
  PROVE  UartTypeOK'
<1>1. ASSUME NEW bad \in BOOLEAN, LineIn(bad) PROVE UartTypeOK'
  <2>1. line_in' \in Nat /\ rxdata' \in Nat
    BY <1>1 DEF LineIn, UartTypeOK
  <2>2. rrdy' \in BOOLEAN /\ fe' \in BOOLEAN /\ overrun' \in BOOLEAN
    BY <1>1 DEF LineIn
  <2>3. good' \in Seq(Nat)
    <3>1. CASE bad
      BY <1>1, <3>1 DEF LineIn, UartTypeOK
    <3>2. CASE ~bad
      BY <1>1, <2>1, <3>2 DEF LineIn, UartTypeOK
    <3> QED
      BY <3>1, <3>2
  <2>4. UNCHANGED <<txdata, trdy, enabled, line_out, ctrl, rxRing, txRing, routine, call, spilled>>
    BY <1>1 DEF LineIn
  <2> QED
    BY <2>1, <2>2, <2>3, <2>4, SMTT(30) DEF UartTypeOK, UartPlaces, rxRing, txRing, routine, call
<1>2. CASE LineOut
  <2>1. line_out' \in Seq(Nat) /\ trdy' \in BOOLEAN
    BY <1>2 DEF LineOut, UartTypeOK
  <2> QED
    BY <1>2, <2>1, SMTT(30) DEF LineOut, UartTypeOK, UartPlaces, rxRing, txRing, routine, call
<1>3. CASE IrqEnter
  BY <1>3 DEF IrqEnter, Routine, UartTypeOK, UartPlaces, port, rxRing, txRing, call
<1>4. CASE IrqStatus
  BY <1>4 DEF IrqStatus, Routine, UartTypeOK, UartPlaces, port, rxRing, txRing, call
<1>5. CASE IrqClear
  <2>1. good' \in Seq(Nat)
    BY <1>5 DEF IrqClear, UartTypeOK
  <2>2. fe' \in BOOLEAN
    BY <1>5 DEF IrqClear
  <2>3. irq' \in {"off", "rx", "tx"}
    BY <1>5 DEF IrqClear
  <2> QED
    BY <1>5, <2>1, <2>2, <2>3 DEF IrqClear, Routine, UartTypeOK, UartPlaces, port, rxRing, txRing, call
<1>6. CASE IrqRx
  <2>1. rxbuf' \in [Ring -> Nat] /\ rrdy' \in BOOLEAN
    BY <1>6 DEF IrqRx, UartTypeOK
  <2>2. rx_end' \in Ring /\ spilled' \in BOOLEAN
    <3>1. CASE status.fe
      BY <1>6, <3>1 DEF IrqRx, UartTypeOK
    <3>2. CASE ~status.fe
      BY <1>6, <3>2, AfterIs DEF IrqRx, UartTypeOK
    <3> QED
      BY <3>1, <3>2
  <2>3. ctrl' \subseteq {"RRDY", "TRDY"} /\ enabled' \subseteq {"RRDY", "TRDY"}
    BY <1>6 DEF IrqRx, UartTypeOK
  <2>4. irq' \in {"tx", "off"} /\ status' \in [rrdy : BOOLEAN, trdy : BOOLEAN, fe : BOOLEAN]
    BY <1>6 DEF IrqRx, UartTypeOK, NoStatus
  <2>5. UNCHANGED <<line_out, line_in, overrun, call, good, rxdata, fe, txdata, trdy, rx_start, txRing>>
    BY <1>6 DEF IrqRx, Routine
  <2> QED
    <3>1. /\ txdata' \in Nat /\ rxdata' \in Nat /\ accepted' \in Nat /\ line_in' \in Nat
          /\ len' \in Nat /\ count' \in Nat /\ block' \in BOOLEAN /\ place' \in UartPlaces
          /\ fe' \in BOOLEAN /\ trdy' \in BOOLEAN /\ overrun' \in BOOLEAN
      BY <2>5 DEF UartTypeOK, call, UartPlaces
    <3>2. /\ rx_start' \in Ring /\ tx_start' \in Ring /\ tx_end' \in Ring /\ slot' \in Ring
          /\ txbuf' \in [Ring -> Nat]
          /\ line_out' \in Seq(Nat) /\ good' \in Seq(Nat) /\ returned' \in Seq(Nat)
      BY <2>5 DEF UartTypeOK, txRing, call
    <3> QED
      BY <2>1, <2>2, <2>3, <2>4, <3>1, <3>2 DEF UartTypeOK
<1>7. CASE IrqTx
  <2>1. txdata' \in Nat /\ tx_start' \in Ring /\ trdy' \in BOOLEAN
    <3>1. CASE tx_start = tx_end
      BY <1>7, <3>1 DEF IrqTx, UartTypeOK
    <3>2. CASE tx_start # tx_end
      <4>1. txdata' = txbuf[tx_start] /\ trdy' = FALSE /\ tx_start' = After(tx_start)
        BY <1>7, <3>2 DEF IrqTx
      <4> QED
        BY <4>1, AfterIs DEF UartTypeOK
    <3> QED
      BY <3>1, <3>2
  <2>2. ctrl' \subseteq {"RRDY", "TRDY"} /\ enabled' \subseteq {"RRDY", "TRDY"}
    BY <1>7 DEF IrqTx, UartTypeOK
  <2> QED
    BY <1>7, <2>1, <2>2 DEF IrqTx, Routine, UartTypeOK, UartPlaces, NoStatus, rxRing, call
<1>8. CASE Write \/ Read
  <2>1. len' \in Nat /\ place' \in UartPlaces
    BY <1>8, RingAssumption DEF Write, Read, Enter, At, UartPlaces
  <2> QED
    BY <1>8, <2>1 DEF Write, Read, Enter, At, NoEnable, UartTypeOK, UartPlaces, rxRing, txRing, line, routine
<1>9. CASE Close \/ CloseWait
  <2>1. 0 \in Ring
    BY RingAssumption DEF Ring
  <2>2. block' \in BOOLEAN
    BY <1>9 DEF Close, CloseWait, Return
  <2>3. len' \in Nat /\ count' \in Nat /\ slot' \in Ring
    <3>1. CASE Close
      BY <3>1 DEF Close, UartTypeOK
    <3>2. CASE CloseWait
      BY <2>1, <3>2 DEF CloseWait, Return
    <3> QED
      BY <1>9, <3>1, <3>2
  <2> QED
    BY <1>9, <2>2, <2>3 DEF Close, CloseWait, At, NoEnable, UartTypeOK, UartPlaces, rxRing, txRing, line, routine
<1>10. CASE WriteNext
  <2>1. place' \in UartPlaces /\ UNCHANGED <<rxdata, rrdy, fe, txdata, trdy, line, routine, spilled>>
    BY <1>10 DEF WriteNext, At, UartPlaces
  <2>2. slot' \in Ring
    BY <1>10, AfterIs DEF WriteNext, UartTypeOK
  <2>3. UNCHANGED <<ctrl, enabled, rxRing, txRing, len, count, block, accepted, returned>>
    BY <1>10 DEF WriteNext, NoEnable
  <2> QED
    BY <2>1, <2>2, <2>3, SMTT(30) DEF UartTypeOK, line, routine, rxRing, txRing
<1>11. CASE WriteDone \/ WriteSpin
  <2>1. place' \in UartPlaces
    BY <1>11 DEF WriteDone, WriteSpin, At, UartPlaces
  <2>2. UNCHANGED <<rxdata, rrdy, fe, txdata, trdy, line, routine, spilled>>
    BY <1>11 DEF WriteDone, WriteSpin, At
  <2>3. UNCHANGED <<len, count, slot, block, rxRing, txRing, accepted, returned>>
    BY <1>11 DEF WriteDone, WriteSpin, Locals
  <2>4. ctrl' \subseteq {"RRDY", "TRDY"} /\ enabled' \subseteq {"RRDY", "TRDY"}
    BY <1>11 DEF WriteDone, WriteSpin, NoEnable, UartTypeOK
  <2> QED
    BY <2>1, <2>2, <2>3, <2>4, SMTT(30) DEF UartTypeOK, line, routine, rxRing, txRing
<1>12. CASE WriteEnable \/ ReadEnable
  <2>1. place' \in UartPlaces
    BY <1>12 DEF WriteEnable, ReadEnable, At, UartPlaces
  <2>2. UNCHANGED <<rxdata, rrdy, fe, txdata, trdy, line, routine, spilled>>
    BY <1>12 DEF WriteEnable, ReadEnable, At
  <2>3. UNCHANGED <<len, count, slot, block, rxRing, txRing, accepted, returned>>
    BY <1>12 DEF WriteEnable, ReadEnable, Locals, Enable
  <2>4. ctrl' \subseteq {"RRDY", "TRDY"} /\ enabled' \subseteq {"RRDY", "TRDY"}
    BY <1>12 DEF WriteEnable, ReadEnable, Enable, UartTypeOK
  <2> QED
    BY <2>1, <2>2, <2>3, <2>4, SMTT(30) DEF UartTypeOK, line, routine, rxRing, txRing
<1>13. CASE WritePut
  BY <1>13, SMTT(30) DEF WritePut, At, NoEnable, UartTypeOK, UartPlaces, rxRing, line, routine
<1>14. CASE WritePublish
  BY <1>14 DEF WritePublish, At, NoEnable, Locals, UartTypeOK, UartPlaces, rxRing, line, routine
<1>15. CASE WriteKick \/ ReadKick
  <2>1. 0 \in Ring
    BY RingAssumption DEF Ring
  <2>2. block' \in BOOLEAN
    BY <1>15 DEF WriteKick, ReadKick, Return
  <2>3. len' \in Nat /\ count' \in Nat /\ slot' \in Ring
    BY <1>15, <2>1 DEF WriteKick, ReadKick, Return
  <2> QED
    BY <1>15, <2>2, <2>3 DEF WriteKick, ReadKick, Enable, At, UartTypeOK, UartPlaces, rxRing, txRing, line, routine
<1>16. CASE ReadNext \/ ReadStop \/ ReadEmpty
  <2>1. place' \in UartPlaces
    BY <1>16 DEF ReadNext, ReadStop, ReadEmpty, At, UartPlaces
  <2>2. UNCHANGED <<rxdata, rrdy, fe, txdata, trdy, line, routine, spilled>>
    BY <1>16 DEF ReadNext, ReadStop, ReadEmpty, At
  <2>3. UNCHANGED <<len, count, slot, block, rxRing, txRing, accepted, returned>>
    BY <1>16 DEF ReadNext, ReadStop, ReadEmpty, Locals
  <2>4. ctrl' \subseteq {"RRDY", "TRDY"} /\ enabled' \subseteq {"RRDY", "TRDY"}
    BY <1>16 DEF ReadNext, ReadStop, ReadEmpty, NoEnable, UartTypeOK
  <2> QED
    BY <2>1, <2>2, <2>3, <2>4, SMTT(30) DEF UartTypeOK, line, routine, rxRing, txRing
<1>17. CASE ReadCopy
  BY <1>17, SMTT(30) DEF ReadCopy, At, NoEnable, UartTypeOK, UartPlaces, rxRing, txRing, line, routine
<1>18. CASE ReadRelease
  <2>1. place' \in UartPlaces /\ UNCHANGED <<rxdata, rrdy, fe, txdata, trdy, line, routine, spilled>>
    BY <1>18 DEF ReadRelease, At, UartPlaces
  <2>2. rx_start' \in Ring
    BY <1>18, AfterIs DEF ReadRelease, UartTypeOK
  <2>3. UNCHANGED <<ctrl, enabled, rx_end, rxbuf, txRing, len, count, slot, block, accepted, returned>>
    BY <1>18 DEF ReadRelease, NoEnable, Locals
  <2> QED
    BY <2>1, <2>2, <2>3, SMTT(30) DEF UartTypeOK, line, routine, txRing
<1>19. CASE UNCHANGED uartVars
  BY <1>19 DEF uartVars, UartTypeOK, UartPlaces, port, line, rxRing, txRing, routine, call
<1> QED
  BY <1>1, <1>2, <1>3, <1>4, <1>5, <1>6, <1>7, <1>8, <1>9, <1>10, <1>11, <1>12, <1>13, <1>14, <1>15,
     <1>16, <1>17, <1>18, <1>19 DEF UartNext, UartIrq, UartCall

-----------------------------------------------------------------------------
(* Wake-ups. *)

LEMMA UartWakeupStep ==
  ASSUME UartInv, [UartNext]_uartVars
  PROVE  UartNoLostWakeup' /\ ctrl' = enabled'
<1> USE DEF UartNoLostWakeup
<1>1. UartTypeOK /\ UartNoLostWakeup /\ ctrl = enabled /\ (place = "wPublish" => After(tx_end) # tx_start)
  BY DEF UartInv, UartTransmits, Sending
<1>2. rx_start \in Ring /\ rx_end \in Ring /\ tx_start \in Ring /\ tx_end \in Ring /\ slot \in Ring
  BY <1>1 DEF UartTypeOK
<1>3. ASSUME NEW bad \in BOOLEAN, LineIn(bad) PROVE UartNoLostWakeup' /\ ctrl' = enabled'
  BY <1>1, <1>3 DEF LineIn, rxRing, txRing, routine, call
<1>4. CASE LineOut
  BY <1>1, <1>4 DEF LineOut, rxRing, txRing, routine, call
<1>5. CASE IrqEnter \/ IrqStatus \/ IrqClear
  BY <1>1, <1>5 DEF IrqEnter, IrqStatus, IrqClear, Routine, port, rxRing, txRing, call
<1>6. CASE IrqRx
  <2>1. UNCHANGED <<place, rx_start, tx_start, tx_end>>
    BY <1>6 DEF IrqRx, Routine, call, txRing
  <2>2. CASE status.fe
    BY <1>1, <1>6, <2>1, <2>2 DEF IrqRx
  <2>3. CASE ~status.fe
    <3>1. rx_end' = After(rx_end) /\ spilled' = (spilled \/ After(rx_end) = rx_start)
      BY <1>6, <2>3 DEF IrqRx
    <3>2. ctrl' = enabled' /\ ("TRDY" \in enabled' <=> "TRDY" \in enabled)
      BY <1>1, <1>6, <2>3 DEF IrqRx
    <3>3. spilled' \/ rx_start' # rx_end'
      BY <2>1, <3>1
    <3> QED
      BY <1>1, <2>1, <3>2, <3>3
  <2> QED
    BY <2>2, <2>3
<1>7. CASE IrqTx
  <2>1. ctrl' = enabled' /\ ("RRDY" \in enabled' <=> "RRDY" \in enabled)
    BY <1>1, <1>7 DEF IrqTx
  <2>2. tx_start' # tx_end' => "TRDY" \in enabled'
    BY <1>7 DEF IrqTx
  <2>3. UNCHANGED <<place, rx_start, rx_end, spilled>>
    BY <1>7 DEF IrqTx, Routine, call, rxRing
  <2> QED
    BY <1>1, <2>1, <2>2, <2>3
<1>8. CASE Write \/ Read \/ Close \/ CloseWait
  BY <1>1, <1>8 DEF Write, Read, Close, CloseWait, Enter, At, NoEnable, rxRing, txRing
<1>9. CASE WriteNext \/ WriteDone \/ WriteSpin \/ WritePut \/ WritePublish
  BY <1>1, <1>9 DEF WriteNext, WriteDone, WriteSpin, WritePut, WritePublish, At, NoEnable, rxRing, txRing
<1>10. CASE WriteEnable \/ ReadEnable \/ WriteKick \/ ReadKick
  BY <1>1, <1>10 DEF WriteEnable, ReadEnable, WriteKick, ReadKick, Enable, At, rxRing, txRing
<1>11. CASE ReadNext \/ ReadStop \/ ReadEmpty \/ ReadCopy \/ ReadRelease
  BY <1>1, <1>11 DEF ReadNext, ReadStop, ReadEmpty, ReadCopy, ReadRelease, At, NoEnable, rxRing, txRing
<1>12. CASE UNCHANGED uartVars
  BY <1>1, <1>12 DEF uartVars, port, rxRing, txRing, call
<1> QED
  BY <1>3, <1>4, <1>5, <1>6, <1>7, <1>8, <1>9, <1>10, <1>11, <1>12 DEF UartNext, UartIrq, UartCall

-----------------------------------------------------------------------------
(* Sending. *)

\* Steps that leave the way of a character to the line as it is.
SendsNothing ==
  /\ UNCHANGED <<line_out, txdata, trdy, tx_start, tx_end, txbuf, accepted>>
  /\ (place # "wPublish" /\ place' # "wPublish") \/ place' = place

LEMMA OtherSteps ==
  ASSUME [UartNext]_uartVars, ~LineOut, ~IrqTx, ~WritePut, ~WritePublish
  PROVE  SendsNothing
<1> USE DEF SendsNothing
<1>1. ASSUME NEW bad \in BOOLEAN, LineIn(bad) PROVE SendsNothing
  BY <1>1 DEF LineIn, txRing, call
<1>2. CASE IrqEnter \/ IrqStatus \/ IrqClear \/ IrqRx
  BY <1>2 DEF IrqEnter, IrqStatus, IrqClear, IrqRx, Routine, port, txRing, call
<1>3. CASE Write \/ Read \/ Close \/ CloseWait
  BY <1>3 DEF Write, Read, Close, CloseWait, Enter, At, txRing, line
<1>4. CASE WriteNext \/ WriteDone \/ WriteSpin \/ WriteEnable \/ WriteKick
  BY <1>4 DEF WriteNext, WriteDone, WriteSpin, WriteEnable, WriteKick, Enable, At, txRing, line
<1>5. CASE ReadNext \/ ReadStop \/ ReadEmpty \/ ReadCopy \/ ReadRelease \/ ReadEnable \/ ReadKick
  BY <1>5 DEF ReadNext, ReadStop, ReadEmpty, ReadCopy, ReadRelease, ReadEnable, ReadKick, Enable, At, txRing, line
<1>6. CASE UNCHANGED uartVars
  BY <1>6 DEF uartVars, port, txRing, call, line
<1> QED
  BY <1>1, <1>2, <1>3, <1>4, <1>5, <1>6 DEF UartNext, UartIrq, UartCall

LEMMA UartTransmitStep ==
  ASSUME UartInv, UartTypeOK', ctrl' = enabled', [UartNext]_uartVars
  PROVE  UartTransmits'
<1> DEFINE sentBy == line_out \o Holding
           ring == Between(txbuf, tx_start, tx_end)
<1>1. /\ line_out \in Seq(Nat) /\ txdata \in Nat /\ accepted \in Nat
      /\ txbuf \in [Ring -> Nat] /\ tx_start \in Ring /\ tx_end \in Ring
  BY DEF UartInv, UartTypeOK
<1>2. (sentBy \o ring) \o UnderWay = Numbers(accepted)
  BY DEF UartInv, UartTransmits
<1>3. ring \in Seq(Nat) /\ Holding \in Seq(Nat) /\ sentBy \in Seq(Nat)
  BY <1>1, BetweenIs, AppendConcat DEF Holding
<1>4. SUFFICES ((line_out' \o Holding') \o ring') \o UnderWay' = Numbers(accepted')
  BY DEF UartTransmits
<1>5. CASE LineOut
  <2>1. /\ ~trdy /\ trdy' /\ line_out' = Append(line_out, txdata)
        /\ UNCHANGED <<tx_start, tx_end, txbuf, place, accepted>>
    BY <1>5 DEF LineOut, txRing, call
  <2>2. Holding = <<txdata>> /\ Holding' = <<>>
    BY <2>1 DEF Holding
  <2>3. line_out' \o Holding' = sentBy
    BY <1>1, <2>1, <2>2, AppendConcat
  <2>4. ring' = ring /\ UnderWay' = UnderWay /\ Numbers(accepted') = Numbers(accepted)
    BY <2>1 DEF Between, UnderWay
  <2> QED
    BY <1>2, <2>3, <2>4
<1>6. CASE IrqTx
  <2>1. UNCHANGED <<line_out, tx_end, txbuf, place, accepted>> /\ trdy
    BY <1>6 DEF IrqTx, Routine, call, UartInv, Sending
  <2>2. Holding = <<>> /\ UnderWay' = UnderWay /\ Numbers(accepted') = Numbers(accepted)
    BY <2>1 DEF Holding, UnderWay
  <2>3. CASE tx_start = tx_end
    <3>1. UNCHANGED <<txdata, trdy, tx_start>>
      BY <1>6, <2>3 DEF IrqTx
    <3>2. Holding' = Holding /\ ring' = ring
      BY <2>1, <3>1 DEF Holding, Between
    <3> QED
      BY <1>2, <2>1, <2>2, <3>2
  <2>4. CASE tx_start # tx_end
    <3> DEFINE v == txbuf[tx_start]  left == Between(txbuf, After(tx_start), tx_end)
    <3>1. txdata' = v /\ ~trdy' /\ tx_start' = After(tx_start)
      BY <1>6, <2>4 DEF IrqTx
    <3>2. Holding' = <<v>> /\ ring' = left
      BY <2>1, <3>1 DEF Holding, Between
    <3>3. ring = <<v>> \o left
      BY <1>1, <2>4, BetweenShrink
    <3>4. v \in Nat /\ After(tx_start) \in Ring /\ <<v>> \in Seq(Nat)
      BY <1>1, AfterIs
    <3>5. left \in Seq(Nat)
      BY <1>1, <3>4, BetweenIs
    <3> HIDE DEF v, left, ring
    <3>6. line_out \o (<<v>> \o left) = (line_out \o <<v>>) \o left
      BY <1>1, <3>4, <3>5, Associative
    <3>7. sentBy = line_out
      BY <1>1, <2>2, AppendConcat
    <3> QED
      BY <1>2, <2>1, <2>2, <3>2, <3>3, <3>6, <3>7
  <2> QED
    BY <2>3, <2>4
<1>7. CASE WritePut
  <2>1. /\ place = "wPut" /\ place' = "wPublish" /\ accepted' = accepted + 1
        /\ txbuf' = [txbuf EXCEPT ![tx_end] = accepted + 1]
        /\ UNCHANGED <<line_out, txdata, trdy, tx_start, tx_end>>
    BY <1>7 DEF WritePut, At, line
  <2>2. UnderWay = <<>> /\ UnderWay' = <<accepted + 1>> /\ Holding' = Holding
    BY <2>1 DEF UnderWay, Holding
  <2>3. accepted + 1 \in Nat
    BY <1>1
  <2>4. Between([txbuf EXCEPT ![tx_end] = accepted + 1], tx_start, tx_end) = ring
    BY <1>1, <2>3, BetweenWrite
  <2>5. ring' = ring
    BY <2>1, <2>4 DEF Between
  <2> HIDE DEF ring, sentBy
  <2>6. sentBy \o ring = Numbers(accepted) /\ sentBy \o ring \in Seq(Nat)
    BY <1>2, <1>3, <2>2, AppendConcat, Associative
  <2>7. Numbers(accepted + 1) = Append(Numbers(accepted), accepted + 1)
    BY <1>1, NumbersGrow
  <2>8. (sentBy \o ring) \o <<accepted + 1>> = Append(sentBy \o ring, accepted + 1)
    BY <2>3, <2>6, AppendConcat
  <2> QED
    BY <2>1, <2>2, <2>5, <2>6, <2>7, <2>8 DEF sentBy
<1>8. CASE WritePublish
  <2>1. /\ place = "wPublish" /\ place' = "wNext" /\ tx_end' = slot
        /\ UNCHANGED <<line_out, txdata, trdy, tx_start, txbuf, accepted>>
    BY <1>8 DEF WritePublish, At, line
  <2>2. slot = After(tx_end) /\ After(tx_end) # tx_start /\ txbuf[tx_end] = accepted
    BY <2>1 DEF UartInv, Sending
  <2>3. UnderWay = <<accepted>> /\ UnderWay' = <<>> /\ Holding' = Holding
    BY <2>1 DEF UnderWay, Holding
  <2>4. ring' = Between(txbuf, tx_start, After(tx_end))
    BY <2>1, <2>2 DEF Between
  <2>5. ring' = Append(ring, accepted)
    BY <1>1, <2>2, <2>4, BetweenGrow
  <2> HIDE DEF ring, sentBy
  <2>6. sentBy \o ring \in Seq(Nat)
    BY <1>3, Associative
  <2>7. (sentBy \o ring) \o <<accepted>> = sentBy \o Append(ring, accepted)
    <3>1. sentBy \in Seq(Nat) /\ ring \in Seq(Nat) /\ accepted \in Nat
      BY <1>1, <1>3
    <3>2. Append(sentBy \o ring, accepted) = sentBy \o Append(ring, accepted)
      BY <3>1, AppendLast
    <3>3. Append(sentBy \o ring, accepted) = (sentBy \o ring) \o <<accepted>>
      BY <2>6, <3>1, AppendConcat
    <3> QED
      BY <3>2, <3>3
  <2>8. Append(ring, accepted) \in Seq(Nat) /\ sentBy \o Append(ring, accepted) \in Seq(Nat)
    BY <1>1, <1>3, AppendConcat, Associative
  <2>9. (sentBy \o Append(ring, accepted)) \o <<>> = sentBy \o Append(ring, accepted)
    BY <2>8, AppendConcat
  <2> QED
    BY <1>2, <2>1, <2>3, <2>5, <2>7, <2>9 DEF sentBy
<1>9. CASE ~LineOut /\ ~IrqTx /\ ~WritePut /\ ~WritePublish
  <2>1. SendsNothing
    BY <1>9, OtherSteps
  <2>2. Holding' = Holding /\ ring' = ring /\ UnderWay' = UnderWay
    BY <2>1 DEF SendsNothing, Holding, Between, UnderWay
  <2> QED
    BY <1>2, <2>1, <2>2 DEF SendsNothing
<1> QED
  BY <1>5, <1>6, <1>7, <1>8, <1>9

LEMMA SendingStep ==
  ASSUME UartInv, UartTypeOK', [UartNext]_uartVars
  PROVE  Sending'
<1> USE DEF Sending
<1>1. /\ tx_start \in Ring /\ tx_end \in Ring /\ slot \in Ring /\ txbuf \in [Ring -> Nat]
      /\ Sending /\ accepted \in Nat
  BY DEF UartInv, UartTypeOK
<1>2. ASSUME NEW bad \in BOOLEAN, LineIn(bad) PROVE Sending'
  BY <1>1, <1>2 DEF LineIn, txRing, routine, call
<1>3. CASE LineOut
  BY <1>1, <1>3 DEF LineOut, txRing, routine, call
<1>4. CASE IrqEnter
  BY <1>1, <1>4 DEF IrqEnter, Routine, port, txRing, call
<1>5. CASE IrqStatus
  <2>1. status'.trdy = trdy /\ irq' = "clear"
    BY <1>5 DEF IrqStatus
  <2>2. UNCHANGED <<trdy, tx_start, tx_end, txbuf, place, slot, accepted>>
    BY <1>5 DEF IrqStatus, Routine, port, txRing, call
  <2> QED
    BY <1>1, <2>1, <2>2
<1>6. CASE IrqClear
  BY <1>1, <1>6 DEF IrqClear, Routine, txRing, call
<1>7. CASE IrqRx
  <2>1. irq' = (IF status.trdy THEN "tx" ELSE "off") /\ (irq' = "tx" => trdy)
    BY <1>1, <1>7 DEF IrqRx, Routine
  <2>2. UNCHANGED <<trdy, tx_start, tx_end, txbuf, place, slot, accepted>>
    BY <1>7 DEF IrqRx, Routine, txRing, call
  <2> QED
    BY <1>1, <2>1, <2>2
<1>8. CASE IrqTx
  <2>1. irq' = "off" /\ UNCHANGED <<tx_end, txbuf, place, slot, accepted>>
    BY <1>8 DEF IrqTx, Routine, call
  <2>2. tx_start' = tx_start \/ (tx_start # tx_end /\ tx_start' = After(tx_start))
    BY <1>8 DEF IrqTx
  <2>3. After(tx_end) # tx_start => After(tx_end) # tx_start'
    <3>1. /\ After(tx_start) = IF tx_start = RingLen - 1 THEN 0 ELSE tx_start + 1
          /\ After(tx_end) = IF tx_end = RingLen - 1 THEN 0 ELSE tx_end + 1
      BY <1>1, AfterIs
    <3>2. tx_start # tx_end => After(tx_start) # After(tx_end)
      BY <1>1, <3>1, RingAssumption DEF Ring
    <3> QED
      BY <2>2, <3>2
  <2> QED
    BY <1>1, <2>1, <2>3
<1>9. CASE Write \/ Read \/ Close \/ CloseWait
  BY <1>1, <1>9 DEF Write, Read, Close, CloseWait, Enter, At, routine
<1>10. CASE WriteNext
  BY <1>1, <1>10 DEF WriteNext, At, txRing, routine
<1>11. CASE WriteDone \/ WriteSpin
  BY <1>1, <1>11 DEF WriteDone, WriteSpin, At, Locals, txRing, routine
<1>12. CASE WriteEnable
  BY <1>1, <1>12 DEF WriteEnable, Enable, At, Locals, txRing, routine
<1>13. CASE WritePut
  BY <1>1, <1>13 DEF WritePut, At, routine
<1>14. CASE WritePublish \/ WriteKick
  BY <1>1, <1>14 DEF WritePublish, WriteKick, At, routine
<1>15. CASE ReadNext \/ ReadStop \/ ReadEmpty \/ ReadCopy \/ ReadRelease \/ ReadEnable \/ ReadKick
  BY <1>1, <1>15 DEF ReadNext, ReadStop, ReadEmpty, ReadCopy, ReadRelease, ReadEnable, ReadKick, At, routine
<1>16. CASE UNCHANGED uartVars
  BY <1>1, <1>16 DEF uartVars, port, txRing, routine, call
<1> QED
  BY <1>2, <1>3, <1>4, <1>5, <1>6, <1>7, <1>8, <1>9, <1>10, <1>11, <1>12, <1>13, <1>14, <1>15, <1>16
  DEF UartNext, UartIrq, UartCall

-----------------------------------------------------------------------------
(* Receiving. *)

LEMMA ReceivingStep ==
  ASSUME UartInv, UartTypeOK', [UartNext]_uartVars
  PROVE  Receiving'
<1> USE DEF Receiving
<1>1. /\ rx_start \in Ring /\ rx_end \in Ring /\ rxbuf \in [Ring -> Nat] /\ returned \in Seq(Nat)
      /\ Receiving
  BY DEF UartInv, UartTypeOK
<1>2. ASSUME NEW bad \in BOOLEAN, LineIn(bad) PROVE Receiving'
  BY <1>1, <1>2 DEF LineIn, rxRing, routine, call
<1>3. CASE LineOut
  BY <1>1, <1>3 DEF LineOut, rxRing, routine, call
<1>4. CASE IrqEnter
  BY <1>1, <1>4 DEF IrqEnter, Routine, port, rxRing, call
<1>5. CASE IrqStatus
  <2>1. status'.rrdy = rrdy /\ status'.fe = fe /\ irq' = "clear"
    BY <1>5 DEF IrqStatus
  <2>2. UNCHANGED <<rrdy, fe, rx_start, rx_end, rxbuf, place, returned, overrun, spilled>>
    BY <1>5 DEF IrqStatus, Routine, port, rxRing, call
  <2> QED
    BY <1>1, <2>1, <2>2
<1>6. CASE IrqClear
  BY <1>1, <1>6 DEF IrqClear, Routine, rxRing, call
<1>7. CASE IrqRx
  <2>1. /\ irq = "rx" /\ irq' \in {"tx", "off"} /\ ~rrdy' /\ fe' = fe
        /\ UNCHANGED <<rx_start, place, returned, overrun>>
        /\ rxbuf' = [rxbuf EXCEPT ![rx_end] = rxdata]
    BY <1>7 DEF IrqRx, Routine, call
  <2>2. ~spilled' => ~spilled /\ (rx_end' = rx_end \/ (rx_end' = After(rx_end) /\ After(rx_end) # rx_start))
    <3>1. CASE status.fe
      <4>1. rx_end' = rx_end /\ (~spilled' => ~spilled)
        BY <1>7, <3>1 DEF IrqRx
      <4> QED
        BY <4>1
    <3>2. CASE ~status.fe
      <4>1. rx_end' = After(rx_end) /\ spilled' = (spilled \/ After(rx_end) = rx_start)
        BY <1>7, <3>2 DEF IrqRx
      <4> QED
        BY <4>1
    <3> QED
      BY <3>1, <3>2
  <2>3. ~spilled' /\ place' \in {"rCopy", "rRelease"} => rx_start' # rx_end' /\ rxbuf'[rx_start'] = rxbuf[rx_start]
    BY <1>1, <2>1, <2>2
  <2> QED
    BY <1>1, <2>1, <2>2, <2>3
<1>8. CASE IrqTx
  BY <1>1, <1>8 DEF IrqTx, Routine, rxRing, call
<1>9. CASE Write \/ Read \/ Close \/ CloseWait
  BY <1>1, <1>9 DEF Write, Read, Close, CloseWait, Enter, At, routine, line
<1>10. CASE WriteNext \/ WriteDone \/ WriteSpin \/ WriteEnable \/ WritePut \/ WritePublish \/ WriteKick
  BY <1>1, <1>10 DEF WriteNext, WriteDone, WriteSpin, WriteEnable, WritePut, WritePublish, WriteKick, At, routine, line
<1>11. CASE ReadNext \/ ReadStop \/ ReadEmpty \/ ReadEnable \/ ReadKick \/ ReadRelease
  BY <1>1, <1>11 DEF ReadNext, ReadStop, ReadEmpty, ReadEnable, ReadKick, ReadRelease, Enable, At, routine, line, rxRing
<1>12. CASE ReadCopy
  <2>1. /\ place = "rCopy" /\ place' = "rRelease" /\ returned' = Append(returned, rxbuf[rx_start])
        /\ UNCHANGED <<rrdy, fe, rx_start, rx_end, rxbuf, irq, status, overrun, spilled>>
    BY <1>12 DEF ReadCopy, At, routine, line, rxRing
  <2>2. rxbuf[rx_start] \in Nat
    BY <1>1
  <2>3. Len(returned') > 0 /\ returned'[Len(returned')] = rxbuf[rx_start]
    BY <1>1, <2>1, <2>2
  <2> QED
    BY <1>1, <2>1, <2>3
<1>13. CASE UNCHANGED uartVars
  BY <1>1, <1>13 DEF uartVars, port, rxRing, routine, call, line
<1> QED
  BY <1>2, <1>3, <1>4, <1>5, <1>6, <1>7, <1>8, <1>9, <1>10, <1>11, <1>12, <1>13
  DEF UartNext, UartIrq, UartCall

\* The characters read has finished with, those in the ring, the one in the port.
Done == SubSeq(returned, 1, Len(returned) - InHand)
Stored == Between(rxbuf, rx_start, rx_end)
Waiting == IF rrdy /\ ~fe /\ ~(irq = "rx" /\ status.fe) THEN <<rxdata>> ELSE <<>>

LEMMA KeptIs ==
  /\ UartReceives <=> (~overrun /\ ~spilled => (Done \o Stored) \o Waiting = good)
  /\ UartReceives' <=> (~overrun' /\ ~spilled' => (Done' \o Stored') \o Waiting' = good')
  BY DEF UartReceives, Kept, Done, Stored, Waiting

\* Steps that leave the way of a character from the line as it is.
TakesNothing ==
  /\ UNCHANGED <<rxdata, rrdy, rx_start, rx_end, rxbuf, returned, spilled, overrun>>
  /\ (place # "rRelease" /\ place' # "rRelease") \/ place' = place

LEMMA QuietSteps ==
  ASSUME [UartNext]_uartVars, ~IrqRx, ~ReadCopy, ~ReadRelease, ~\E bad \in BOOLEAN : LineIn(bad)
  PROVE  /\ TakesNothing
         /\ ~IrqClear => UNCHANGED <<fe, good>>
         /\ ~IrqClear => (irq' # "rx" /\ irq # "rx") \/ UNCHANGED <<irq, status>>
<1> USE DEF TakesNothing
<1>1. CASE LineOut
  BY <1>1 DEF LineOut, rxRing, routine, call
<1>2. CASE IrqEnter \/ IrqStatus \/ IrqClear
  BY <1>2 DEF IrqEnter, IrqStatus, IrqClear, Routine, port, rxRing, call
<1>3. CASE IrqTx
  BY <1>3 DEF IrqTx, Routine, rxRing, call
<1>4. CASE Write \/ Read \/ Close \/ CloseWait
  BY <1>4 DEF Write, Read, Close, CloseWait, Enter, At, rxRing, line, routine
<1>5. CASE WriteNext \/ WriteDone \/ WriteSpin \/ WriteEnable \/ WritePut \/ WritePublish \/ WriteKick
  BY <1>5 DEF WriteNext, WriteDone, WriteSpin, WriteEnable, WritePut, WritePublish, WriteKick, Enable, At, rxRing, line, routine
<1>6. CASE ReadNext \/ ReadStop \/ ReadEmpty \/ ReadEnable \/ ReadKick
  BY <1>6 DEF ReadNext, ReadStop, ReadEmpty, ReadEnable, ReadKick, Enable, At, rxRing, line, routine
<1>7. CASE UNCHANGED uartVars
  BY <1>7 DEF uartVars, port, rxRing, call, line, routine
<1> QED
  BY <1>1, <1>2, <1>3, <1>4, <1>5, <1>6, <1>7 DEF UartNext, UartIrq, UartCall

LEMMA SubSequences ==
  ASSUME NEW s \in Seq(Nat)
  PROVE  /\ SubSeq(s, 1, Len(s) - 0) = s
         /\ \A v \in Nat : SubSeq(Append(s, v), 1, Len(Append(s, v)) - 1) = s
         /\ Len(s) > 0 => /\ SubSeq(s, 1, Len(s) - 1) \in Seq(Nat)
                          /\ s = SubSeq(s, 1, Len(s) - 1) \o <<s[Len(s)]>>
<1>1. SubSeq(s, 1, Len(s) - 0) = s
  <2>1. Len(s) - 0 = Len(s) /\ Len(s) \in Nat
    OBVIOUS
  <2>2. /\ SubSeq(s, 1, Len(s)) \in Seq(Nat) /\ Len(SubSeq(s, 1, Len(s))) = Len(s)
        /\ \A i \in 1 .. Len(s) : SubSeq(s, 1, Len(s))[i] = s[i]
    OBVIOUS
  <2> QED
    BY <2>1, <2>2, Equal
<1>2. ASSUME NEW v \in Nat PROVE SubSeq(Append(s, v), 1, Len(Append(s, v)) - 1) = s
  <2> DEFINE t == Append(s, v)  u == SubSeq(t, 1, Len(s))
  <2>1. t \in Seq(Nat) /\ Len(t) = Len(s) + 1 /\ Len(s) \in Nat /\ \A i \in 1 .. Len(s) : t[i] = s[i]
    OBVIOUS
  <2>2. u \in Seq(Nat) /\ Len(u) = Len(s) /\ \A i \in 1 .. Len(s) : u[i] = t[i]
    BY <2>1
  <2>3. Len(t) - 1 = Len(s)
    BY <2>1
  <2> HIDE DEF t
  <2>4. u = s
    <3> HIDE DEF u
    <3> QED
      BY <2>1, <2>2, Equal
  <2> QED
    BY <2>3, <2>4 DEF t
<1>3. ASSUME Len(s) > 0
      PROVE  /\ SubSeq(s, 1, Len(s) - 1) \in Seq(Nat)
             /\ s = SubSeq(s, 1, Len(s) - 1) \o <<s[Len(s)]>>
  <2> DEFINE k == Len(s) - 1  u == SubSeq(s, 1, k)
  <2>1. k \in Nat /\ Len(s) = k + 1 /\ s[Len(s)] \in Nat
    BY <1>3
  <2>2. u \in Seq(Nat) /\ Len(u) = k /\ \A i \in 1 .. k : s[i] = u[i]
    BY <2>1
  <2> HIDE DEF u, k
  <2>3. s = Append(u, s[Len(s)])
    <3>1. Len(s) = Len(u) + 1 /\ \A i \in 1 .. Len(u) : s[i] = u[i]
      BY <2>1, <2>2
    <3> QED
      BY <2>1, <2>2, <3>1, AppendIs
  <2>4. Append(u, s[Len(s)]) = u \o <<s[Len(s)]>>
    BY <2>1, <2>2, AppendConcat
  <2> QED
    BY <2>2, <2>3, <2>4 DEF u, k
<1> QED
  BY <1>1, <1>2, <1>3

LEMMA UartReceiveStep ==
  ASSUME UartInv, UartTypeOK', [UartNext]_uartVars
  PROVE  UartReceives'
<1>1. /\ returned \in Seq(Nat) /\ good \in Seq(Nat) /\ rxdata \in Nat /\ line_in \in Nat
      /\ rxbuf \in [Ring -> Nat] /\ rx_start \in Ring /\ rx_end \in Ring
      /\ Receiving
  BY DEF UartInv, UartTypeOK
<1>2. Stored \in Seq(Nat) /\ Waiting \in Seq(Nat)
  BY <1>1, BetweenIs, AppendConcat DEF Stored, Waiting
<1>3. ~overrun /\ ~spilled => Done \in Seq(Nat)
  <2>1. SubSeq(returned, 1, Len(returned) - 0) \in Seq(Nat)
    BY <1>1, SubSequences
  <2>2. Len(returned) > 0 => SubSeq(returned, 1, Len(returned) - 1) \in Seq(Nat)
    BY <1>1, SubSequences
  <2> QED
    BY <1>1, <2>1, <2>2 DEF Done, InHand, Receiving
<1>4. ~overrun /\ ~spilled => (Done \o Stored) \o Waiting = good
  BY KeptIs DEF UartInv
<1>5. SUFFICES ASSUME ~overrun', ~spilled'
               PROVE  (Done' \o Stored') \o Waiting' = good'
  BY KeptIs
<1>6. ASSUME TakesNothing
      PROVE  /\ ~overrun /\ ~spilled /\ Done' = Done /\ Stored' = Stored
             /\ (Done \o Stored) \o Waiting = good
  <2>1. ~overrun /\ ~spilled /\ Stored' = Stored
    BY <1>5, <1>6 DEF TakesNothing, Stored, Between
  <2>2. InHand' = InHand /\ returned' = returned
    BY <1>6 DEF TakesNothing, InHand
  <2>3. Done' = Done
    BY <2>2 DEF Done
  <2> QED
    BY <1>4, <2>1, <2>3
<1>7. ASSUME NEW bad \in BOOLEAN, LineIn(bad)
      PROVE  (Done' \o Stored') \o Waiting' = good'
  <2>1. /\ rxdata' = line_in' /\ line_in' = line_in + 1 /\ rrdy' /\ fe' = (fe \/ bad)
        /\ good' = (IF bad THEN good ELSE Append(good, line_in'))
        /\ overrun' = (overrun \/ rrdy)
        /\ UNCHANGED <<rx_start, rx_end, rxbuf, returned, place, irq, status, spilled>>
    BY <1>7 DEF LineIn, rxRing, routine, call
  <2>2. ~overrun /\ ~rrdy /\ ~spilled
    BY <1>5, <2>1
  <2>3. ~fe /\ irq # "rx"
    BY <1>1, <2>2 DEF Receiving
  <2>4. Waiting = <<>> /\ Waiting' = IF bad THEN <<>> ELSE <<line_in'>>
    BY <2>1, <2>2, <2>3 DEF Waiting
  <2>5. Done' = Done /\ Stored' = Stored
    BY <2>1 DEF Done, Stored, Between, InHand
  <2>6. Done \in Seq(Nat) /\ Done \o Stored \in Seq(Nat)
    BY <1>2, <1>3, <2>2, Associative
  <2>7. Done \o Stored = good
    BY <1>4, <2>2, <2>4, <2>6, AppendConcat
  <2>8. line_in' \in Nat /\ good \o <<line_in'>> = Append(good, line_in') /\ good \o <<>> = good
    BY <1>1, <2>1, AppendConcat
  <2> QED
    BY <2>1, <2>4, <2>5, <2>7, <2>8
<1>8. CASE IrqClear
  <2>1. TakesNothing /\ irq = "clear" /\ ~fe' /\ rrdy' = rrdy /\ status' = status
        /\ irq' = (IF status.rrdy THEN "rx" ELSE IF status.trdy THEN "tx" ELSE "off")
        /\ good' = (IF rrdy /\ fe /\ ~status.rrdy THEN Append(good, rxdata) ELSE good)
    BY <1>8 DEF IrqClear, Routine, TakesNothing, call, rxRing
  <2>2. ~overrun /\ rxdata' = rxdata
    BY <1>6, <2>1 DEF TakesNothing
  <2>3. (fe => rrdy) /\ (status.rrdy => rrdy /\ (status.fe <=> fe))
    BY <1>1, <2>1, <2>2 DEF Receiving
  <2>4. CASE rrdy /\ fe /\ ~status.rrdy
    <3>1. Waiting = <<>> /\ Waiting' = <<rxdata>> /\ good' = Append(good, rxdata)
      BY <2>1, <2>2, <2>4 DEF Waiting
    <3>2. Done \o Stored \in Seq(Nat)
      BY <1>2, <1>3, <1>6, <2>1, Associative
    <3>3. Done \o Stored = good
      BY <1>6, <2>1, <3>1, <3>2, AppendConcat
    <3>4. good \o <<rxdata>> = Append(good, rxdata)
      BY <1>1, AppendConcat
    <3> QED
      BY <1>6, <2>1, <3>1, <3>3, <3>4
  <2>5. CASE ~(rrdy /\ fe /\ ~status.rrdy)
    <3>1. Waiting' = Waiting /\ good' = good
      BY <2>1, <2>2, <2>3, <2>5 DEF Waiting
    <3> QED
      BY <1>6, <2>1, <3>1
  <2> QED
    BY <2>4, <2>5
<1>9. CASE IrqRx
  <2>1. /\ irq = "rx" /\ rrdy /\ ~rrdy' /\ irq' # "rx"
        /\ rxbuf' = [rxbuf EXCEPT ![rx_end] = rxdata]
        /\ UNCHANGED <<good, rx_start, returned, place, overrun>>
    BY <1>1, <1>9 DEF IrqRx, Routine, call, Receiving
  <2>2. ~overrun /\ ~fe
    BY <1>1, <1>5, <2>1 DEF Receiving
  <2>3. Done' = Done /\ Waiting' = <<>>
    BY <2>1 DEF Done, InHand, Waiting
  <2>4. Between(rxbuf', rx_start, rx_end) = Stored /\ rxbuf' \in [Ring -> Nat]
    BY <1>1, <2>1, BetweenWrite DEF Stored
  <2>5. CASE status.fe
    <3>1. rx_end' = rx_end /\ spilled' = spilled
      BY <1>9, <2>5 DEF IrqRx
    <3>2. Waiting = <<>> /\ Stored' = Stored
      BY <2>1, <2>4, <2>5, <3>1 DEF Waiting, Stored
    <3> QED
      BY <1>4, <1>5, <2>1, <2>2, <2>3, <3>1, <3>2
  <2>6. CASE ~status.fe
    <3>1. rx_end' = After(rx_end) /\ spilled' = (spilled \/ After(rx_end) = rx_start)
      BY <1>9, <2>6 DEF IrqRx
    <3>2. ~spilled /\ After(rx_end) # rx_start
      BY <1>5, <3>1
    <3>3. Waiting = <<rxdata>> /\ rxbuf'[rx_end] = rxdata
      BY <1>1, <2>1, <2>2, <2>6 DEF Waiting
    <3>4. Between(rxbuf', rx_start, After(rx_end)) = Append(Between(rxbuf', rx_start, rx_end), rxbuf'[rx_end])
      BY <1>1, <2>4, <3>2, BetweenGrow
    <3>5. Stored' = Append(Stored, rxdata)
      BY <2>1, <2>4, <3>1, <3>3, <3>4 DEF Stored
    <3>6. Done \in Seq(Nat) /\ (Done \o Stored) \o <<rxdata>> = good
      BY <1>3, <1>4, <2>2, <3>2, <3>3
    <3>7. Done \o Append(Stored, rxdata) = (Done \o Stored) \o <<rxdata>>
      <4>0. Done \in Seq(Nat) /\ Stored \in Seq(Nat) /\ rxdata \in Nat
        BY <1>1, <1>2, <3>6
      <4>1. Done \o Append(Stored, rxdata) = Append(Done \o Stored, rxdata)
        BY <4>0, AppendLast
      <4>2. Done \o Stored \in Seq(Nat)
        BY <1>2, <3>6, Associative
      <4>3. Append(Done \o Stored, rxdata) = (Done \o Stored) \o <<rxdata>>
        BY <1>1, <4>2, AppendConcat
      <4> QED
        BY <4>1, <4>3
    <3>8. good \o <<>> = good
      BY <1>1, AppendConcat
    <3> QED
      BY <2>1, <2>3, <3>5, <3>6, <3>7, <3>8
  <2> QED
    BY <2>5, <2>6
<1>10. CASE ReadCopy
  <2>1. /\ place = "rCopy" /\ place' = "rRelease" /\ returned' = Append(returned, rxbuf[rx_start])
        /\ UNCHANGED <<rx_start, rx_end, rxbuf, irq, status, rxdata, rrdy, fe, good, overrun, spilled>>
    BY <1>10 DEF ReadCopy, At, routine, line, rxRing
  <2>2. rxbuf[rx_start] \in Nat
    BY <1>1
  <2>3. Done = returned /\ Done' = returned
    BY <1>1, <2>1, <2>2, SubSequences DEF Done, InHand
  <2>4. Stored' = Stored /\ Waiting' = Waiting
    BY <2>1 DEF Stored, Between, Waiting
  <2> QED
    BY <1>4, <1>5, <2>1, <2>3, <2>4
<1>11. CASE ReadRelease
  <2>1. /\ place = "rRelease" /\ place' = "rNext" /\ rx_start' = After(rx_start)
        /\ UNCHANGED <<rx_end, rxbuf, irq, status, rxdata, rrdy, fe, good, overrun, spilled, returned>>
    BY <1>11 DEF ReadRelease, At, routine, line
  <2>2. ~overrun /\ ~spilled
    BY <1>5, <2>1
  <2>3. rx_start # rx_end /\ Len(returned) > 0 /\ returned[Len(returned)] = rxbuf[rx_start]
    BY <1>1, <2>1, <2>2 DEF Receiving
  <2>4. Waiting' = Waiting
    BY <2>1 DEF Waiting
  <2> DEFINE v == rxbuf[rx_start]  left == Between(rxbuf, After(rx_start), rx_end)
  <2>5. Stored = <<v>> \o left /\ Stored' = left
    BY <1>1, <2>1, <2>3, BetweenShrink DEF Stored
  <2>6. v \in Nat /\ After(rx_start) \in Ring /\ <<v>> \in Seq(Nat)
    BY <1>1, AfterIs
  <2>7. left \in Seq(Nat)
    BY <1>1, <2>6, BetweenIs
  <2>8. returned = Done \o <<v>>
    BY <1>1, <2>1, <2>3, SubSequences DEF Done, InHand
  <2>9. Done' = returned
    BY <1>1, <2>1, SubSequences DEF Done, InHand
  <2> HIDE DEF v, left
  <2>10. Done \o (<<v>> \o left) = (Done \o <<v>>) \o left
    BY <1>3, <2>2, <2>6, <2>7, Associative, SMTT(30)
  <2> QED
    BY <1>4, <2>1, <2>2, <2>4, <2>5, <2>8, <2>9, <2>10
<1>12. CASE ~IrqRx /\ ~ReadCopy /\ ~ReadRelease /\ ~IrqClear /\ ~\E bad \in BOOLEAN : LineIn(bad)
  <2>1. TakesNothing /\ UNCHANGED <<fe, good>> /\ ((irq' # "rx" /\ irq # "rx") \/ UNCHANGED <<irq, status>>)
    BY <1>12, QuietSteps
  <2>2. Waiting' = Waiting
    BY <2>1 DEF TakesNothing, Waiting
  <2> QED
    BY <1>6, <2>1, <2>2
<1> QED
  BY <1>7, <1>8, <1>9, <1>10, <1>11, <1>12

-----------------------------------------------------------------------------
(* The theorems. *)

LEMMA UartInitially == UartInit => UartInv
<1> SUFFICES ASSUME UartInit PROVE UartInv
  OBVIOUS
<1> USE DEF UartInit
<1>1. 0 \in Ring
  BY RingAssumption DEF Ring
<1>2. UartTypeOK
  BY <1>1 DEF UartTypeOK, UartPlaces, NoStatus
<1>3. Sending /\ Receiving /\ UartNoLostWakeup
  BY DEF Sending, Receiving, UartNoLostWakeup
<1>4. rxbuf \in [Ring -> Nat] /\ txbuf \in [Ring -> Nat]
  BY <1>2 DEF UartTypeOK
<1>5. Between(txbuf, tx_start, tx_end) = <<>> /\ Between(rxbuf, rx_start, rx_end) = <<>>
  BY <1>1, <1>4, BetweenEmpty
<1>6. <<>> \in Seq(Nat) /\ <<>> \o <<>> = <<>> /\ Numbers(0) = <<>> /\ SubSeq(<<>>, 1, Len(<<>>) - 0) = <<>>
  <2>1. Numbers(0) \in Seq(Nat) /\ Len(Numbers(0)) = 0
    BY DEF Numbers
  <2> QED
    BY <2>1, AppendConcat, SubSequences
<1>7. UartTransmits
  BY <1>5, <1>6 DEF UartTransmits, Holding, UnderWay
<1>8. UartReceives
  BY <1>5, <1>6 DEF UartReceives, Kept, InHand
<1> QED
  BY <1>2, <1>3, <1>7, <1>8 DEF UartInv

LEMMA UartInvStep == UartInv /\ [UartNext]_uartVars => UartInv'
<1> SUFFICES ASSUME UartInv, [UartNext]_uartVars PROVE UartInv'
  OBVIOUS
<1>1. UartTypeOK'
  BY UartTypeStep DEF UartInv
<1>2. UartNoLostWakeup' /\ ctrl' = enabled'
  BY UartWakeupStep
<1>3. UartTransmits' /\ UartReceives'
  BY <1>1, <1>2, UartTransmitStep, UartReceiveStep
<1>4. Sending' /\ Receiving'
  BY <1>1, SendingStep, ReceivingStep
<1> QED
  BY <1>1, <1>2, <1>3, <1>4 DEF UartInv

LEMMA UartInvariance == UartSpec => []UartInv
  BY UartInitially, UartInvStep, PTL DEF UartSpec

\* Indices, registers and control state of the driver keep their types.
THEOREM UartTypeCorrect == UartSpec => []UartTypeOK
<1>1. UartInv => UartTypeOK
  BY DEF UartInv
<1> QED
  BY <1>1, UartInvariance, PTL

\* altera_avalon_uart_write.c and the transmit half of the interrupt routine:
\* what write has accepted is on the line, in the port or in the ring, in order
\* and once.
THEOREM UartTransmitCorrect == UartSpec => []UartTransmits
<1>1. UartInv => UartTransmits
  BY DEF UartInv
<1> QED
  BY <1>1, UartInvariance, PTL

\* altera_avalon_uart_read.c and the receive half: what came in without error
\* is returned, in the ring or in the port, unless the port overran or the
\* driver wrote into a full ring.
THEOREM UartReceiveCorrect == UartSpec => []UartReceives
<1>1. UartInv => UartReceives
  BY DEF UartInv
<1> QED
  BY <1>1, UartInvariance, PTL

\* The enables of altera_avalon_uart_write.c:206 and read.c:201 and the disables
\* of the interrupt routine never leave a character waiting with its interrupt off.
THEOREM UartWakeupCorrect == UartSpec => []UartNoLostWakeup
<1>1. UartInv => UartNoLostWakeup
  BY DEF UartInv
<1> QED
  BY <1>1, UartInvariance, PTL

=============================================================================
