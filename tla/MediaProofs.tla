---------------------------- MODULE MediaProofs ----------------------------
(***************************************************************************)
(* The displays' half of the media demo: byte1..byte3 are the last three   *)
(* bytes of the port and every mouse is enabled once, and the main loop    *)
(* refreshes at most once per timer interrupt, whatever bytes arrive and   *)
(* however many.  With MediaAudioProofs, both halves together.             *)
(***************************************************************************)
EXTENDS MCMedia, MediaAudioProofs, FiniteSetTheorems, TLAPS

-----------------------------------------------------------------------------
(* The invariant. *)

\* The FIFO holds what came last of the stream.
QueueInv ==
  /\ Len(fifo) <= Len(stream)
  /\ \A i \in 1 .. Len(fifo) : fifo[i] = stream[Len(stream) - Len(fifo) + i]

\* Each byte taken enables one mouse at most.
CommandsInv == commands <= Len(stream) - Len(fifo)

\* HEX_PS2 gets three bytes.
ArgsRead == pc \in {"hex_low", "hex_high"} => args \in [1 .. 3 -> Bytes]

PS2Inv == TypeOK /\ ArgsRead /\ QueueInv /\ CommandsInv /\ LastThreeBytes

\* Only the timer routine sets timeout, and the main loop gives up the tick
\* it is using by clearing timeout before it looks again.
TickPending == pc = "wait" /\ timeout = 1 => ticked

-----------------------------------------------------------------------------
(* The digits. *)

LEMMA SegmentsTyped ==
  ASSUME NEW d \in 0 .. 15
  PROVE  Segments(d) \in 0 .. 255
  BY DEF Segments, seven_seg_decode_table

LEMMA ShownTyped ==
  ASSUME NEW b \in [1 .. 3 -> 0 .. 255]
  PROVE  Shown(b) \in [0 .. 5 -> 0 .. 255]
<1> SUFFICES ASSUME NEW i \in 0 .. 5
             PROVE  Segments(IF i % 2 = 0 THEN b[3 - i \div 2] % 16 ELSE b[3 - i \div 2] \div 16)
                      \in 0 .. 255
  BY DEF Shown
<1>1. 3 - i \div 2 \in 1 .. 3
  OBVIOUS
<1>2. b[3 - i \div 2] \in 0 .. 255
  BY <1>1
<1>3. b[3 - i \div 2] % 16 \in 0 .. 15 /\ b[3 - i \div 2] \div 16 \in 0 .. 15
  BY <1>2
<1> QED
  BY <1>3, SegmentsTyped

LEMMA HexSegsTyped ==
  ASSUME NEW b \in [1 .. 3 -> Bytes]
  PROVE  hex_segs(b) \in [0 .. 5 -> 0 .. 255]
<1>1. shift_buffer(b) \in [1 .. 3 -> 0 .. 255]
  <2>1. \A i \in 1 .. 3 : b[i] \in 0 .. 255
    BY BytesAssumption
  <2> DEFINE Negative(i) == \E j \in i + 1 .. 3 : b[j] >= 128
  <2>2. shift_buffer(b) = [i \in 1 .. 3 |-> IF Negative(i) THEN 255 ELSE b[i]]
    BY DEF shift_buffer
  <2> HIDE DEF Negative
  <2> QED
    BY <2>1, <2>2
<1> QED
  BY <1>1, ShownTyped DEF hex_segs

-----------------------------------------------------------------------------
(* The bytes taken. *)

\* taken, byte by byte.
LEMMA TakenIs ==
  ASSUME NEW s \in Seq(Bytes), NEW f \in Seq(Bytes), Len(f) <= Len(s)
  PROVE  LET t == <<0, 0, 0>> \o SubSeq(s, 1, Len(s) - Len(f))
         IN  /\ t \in Seq(Bytes) /\ Len(t) = 3 + Len(s) - Len(f)
             /\ \A i \in 1 .. Len(t) : t[i] = IF i <= 3 THEN 0 ELSE s[i - 3]
<1> DEFINE k == Len(s) - Len(f)
           before == SubSeq(s, 1, k)
           t == <<0, 0, 0>> \o before
<1>1. k \in 0 .. Len(s) /\ Len(s) \in Nat /\ Len(f) \in Nat
  BY LenProperties
<1> HIDE DEF k
<1>2. /\ before \in Seq(Bytes) /\ Len(before) = k
      /\ \A i \in 1 .. k : before[i] = s[i]
  <2>1. \A i \in 1 .. k : s[i] \in Bytes
    BY <1>1
  <2>2. /\ before \in Seq(Bytes) /\ Len(before) = IF 1 <= k THEN k - 1 + 1 ELSE 0
        /\ \A i \in 1 .. k - 1 + 1 : before[i] = s[1 + i - 1]
    BY <1>1, <2>1, SubSeqProperties
  <2>3. Len(before) = k
    BY <1>1, <2>2
  <2>4. \A i \in 1 .. k : before[i] = s[i]
    BY <1>1, <2>2
  <2> QED
    BY <2>2, <2>3, <2>4
<1> HIDE DEF before
<1>3. <<0, 0, 0>> \in Seq(Bytes) /\ Len(<<0, 0, 0>>) = 3 /\ \A i \in 1 .. 3 : <<0, 0, 0>>[i] = 0
  BY BytesAssumption
<1> HIDE DEF t
<1>4. /\ t \in Seq(Bytes) /\ Len(t) = 3 + k
      /\ \A i \in 1 .. 3 + k : t[i] = IF i <= 3 THEN <<0, 0, 0>>[i] ELSE before[i - 3]
  BY <1>2, <1>3, ConcatProperties DEF t
<1>5. \A i \in 1 .. 3 + k : t[i] = IF i <= 3 THEN 0 ELSE s[i - 3]
  BY <1>1, <1>2, <1>3, <1>4
<1>6. Len(t) = 3 + Len(s) - Len(f)
  BY <1>1, <1>4 DEF k
<1> QED
  BY <1>4, <1>5, <1>6 DEF t, before, k

\* Two sequences of the same bytes are the same.
LEMMA SameBytes ==
  ASSUME NEW s \in Seq(Bytes), NEW t \in Seq(Bytes), Len(s) = Len(t),
         \A i \in 1 .. Len(s) : s[i] = t[i]
  PROVE  s = t
  BY LenProperties

\* LastThreeBytes, byte by byte.
LEMMA LastThree ==
  ASSUME NEW s \in Seq(Bytes), Len(s) >= 3
  PROVE  SubSeq(s, Len(s) - 2, Len(s)) = <<s[Len(s) - 2], s[Len(s) - 1], s[Len(s)]>>
<1> DEFINE n == Len(s)  three == SubSeq(s, n - 2, n)
<1>1. n \in Nat /\ n >= 3
  BY LenProperties
<1> HIDE DEF n
<1>2. \A i \in n - 2 .. n : s[i] \in Bytes
  BY <1>1 DEF n
<1>3. /\ three \in Seq(Bytes) /\ Len(three) = IF n - 2 <= n THEN n - (n - 2) + 1 ELSE 0
      /\ \A i \in 1 .. n - (n - 2) + 1 : three[i] = s[n - 2 + i - 1]
  BY <1>1, <1>2, SubSeqProperties
<1>4. Len(three) = 3 /\ three[1] = s[n - 2] /\ three[2] = s[n - 1] /\ three[3] = s[n]
  BY <1>1, <1>3
<1> HIDE DEF three
<1>5. three = <<three[1], three[2], three[3]>>
  <2>1. three[1] \in Bytes /\ three[2] \in Bytes /\ three[3] \in Bytes
    BY <1>1, <1>2, <1>4
  <2> DEFINE t == <<three[1], three[2], three[3]>>
  <2>2. t \in Seq(Bytes) /\ Len(t) = 3 /\ t[1] = three[1] /\ t[2] = three[2] /\ t[3] = three[3]
    BY <2>1
  <2> HIDE DEF t
  <2>3. three = t
    <3>1. \A i \in 1 .. Len(three) : three[i] = t[i]
      BY <1>4, <2>2
    <3> QED
      BY <1>3, <1>4, <2>2, <3>1, SameBytes
  <2> QED
    BY <2>3 DEF t
<1> QED
  BY <1>4, <1>5 DEF n, three

\* The answers among the bytes taken can be counted.
LEMMA EnablesFinite ==
  ASSUME NEW n \in Nat
  PROVE  LET E == {i \in 2 .. n : taken[i - 1] = 170 /\ taken[i] = 0}
         IN  IsFiniteSet(E) /\ Cardinality(E) \in Nat
<1> DEFINE E == {i \in 2 .. n : taken[i - 1] = 170 /\ taken[i] = 0}
<1>1. IsFiniteSet(2 .. n)
  BY FS_Interval
<1>2. E \in SUBSET (2 .. n)
  OBVIOUS
<1> HIDE DEF E
<1>3. IsFiniteSet(E)
  BY <1>1, <1>2, FS_Subset
<1>4. Cardinality(E) \in Nat
  BY <1>3, FS_CardinalityType
<1> QED
  BY <1>3, <1>4 DEF E

-----------------------------------------------------------------------------
(* The steps. *)

\* Steps that take no byte leave the bytes taken as they were.
LEMMA SameTaken ==
  ASSUME TypeOK, QueueInv, TypeOK', QueueInv',
         Len(stream') - Len(fifo') = Len(stream) - Len(fifo),
         \A i \in 1 .. Len(stream) - Len(fifo) : stream'[i] = stream[i]
  PROVE  taken' = taken
<1>1. /\ taken \in Seq(Bytes) /\ Len(taken) = 3 + Len(stream) - Len(fifo)
      /\ \A i \in 1 .. Len(taken) : taken[i] = IF i <= 3 THEN 0 ELSE stream[i - 3]
  BY TakenIs DEF TypeOK, QueueInv, taken
<1>2. /\ taken' \in Seq(Bytes) /\ Len(taken') = 3 + Len(stream') - Len(fifo')
      /\ \A i \in 1 .. Len(taken') : taken'[i] = IF i <= 3 THEN 0 ELSE stream'[i - 3]
  BY TakenIs DEF TypeOK, QueueInv, taken
<1>3. Len(stream) \in Nat /\ Len(fifo) \in Nat /\ Len(stream') \in Nat /\ Len(fifo') \in Nat
  BY LenProperties DEF TypeOK
<1> DEFINE k == Len(stream) - Len(fifo)
<1>4. k \in Nat /\ Len(stream') - Len(fifo') = k /\ \A i \in 1 .. k : stream'[i] = stream[i]
  BY <1>3 DEF QueueInv
<1>5. Len(taken) = 3 + k /\ Len(taken') = 3 + k
  BY <1>1, <1>2, <1>3, <1>4
<1> HIDE DEF k
<1>6. \A i \in 1 .. Len(taken) : taken'[i] = taken[i]
  <2> SUFFICES ASSUME NEW i \in 1 .. 3 + k PROVE taken'[i] = taken[i]
    BY <1>5
  <2>1. CASE i <= 3
    <3>1. i \in 1 .. Len(taken) /\ i \in 1 .. Len(taken')
      BY <1>5
    <3>2. taken[i] = 0
      BY <1>1, <2>1, <3>1
    <3>3. taken'[i] = 0
      BY <1>2, <2>1, <3>1
    <3> QED
      BY <3>2, <3>3
  <2>2. CASE ~(i <= 3)
    <3>1. i - 3 \in 1 .. k
      BY <1>4, <2>2
    <3> QED
      BY <1>1, <1>2, <1>5, <1>4, <2>2, <3>1
  <2> QED
    BY <2>1, <2>2
<1> QED
  BY <1>1, <1>2, <1>5, <1>6, SameBytes

\* A step that moves no byte.
LEMMA NoByte ==
  ASSUME QueueInv, CommandsInv, LastThreeBytes, UNCHANGED <<port, byte, commands>>
  PROVE  (QueueInv /\ CommandsInv /\ LastThreeBytes)'
  BY DEF QueueInv, CommandsInv, LastThreeBytes, taken, Enables, port

LEMMA SendByteIs ==
  ASSUME PS2Inv, NEW x \in Bytes, SendByte(x)
  PROVE  PS2Inv'
<1>1. /\ stream \in Seq(Bytes) /\ fifo \in Seq(Bytes) /\ Len(stream) \in Nat /\ Len(fifo) \in Nat
      /\ FifoSize \in Nat /\ MaxBytes \in Nat
  BY LenProperties, BytesAssumption DEF PS2Inv, TypeOK
<1>2. /\ fifo' = Append(fifo, x) /\ stream' = Append(stream, x)
      /\ Len(stream) < MaxBytes /\ Len(fifo) < FifoSize
      /\ UNCHANGED <<TO, timeout, byte, commands, pc, args, display, ticked>>
  BY DEF SendByte, main
<1>3. /\ stream' \in Seq(Bytes) /\ Len(stream') = Len(stream) + 1
      /\ \A i \in 1 .. Len(stream) : stream'[i] = stream[i]
      /\ stream'[Len(stream) + 1] = x
  BY <1>1, <1>2, AppendProperties
<1>4. /\ fifo' \in Seq(Bytes) /\ Len(fifo') = Len(fifo) + 1
      /\ \A i \in 1 .. Len(fifo) : fifo'[i] = fifo[i]
      /\ fifo'[Len(fifo) + 1] = x
  BY <1>1, <1>2, AppendProperties
<1>5. TypeOK'
  <2>1. Len(stream') <= MaxBytes /\ Len(fifo') <= FifoSize
    BY <1>1, <1>2, <1>3, <1>4
  <2> QED
    BY <1>2, <1>3, <1>4, <2>1 DEF PS2Inv, TypeOK
<1>6. QueueInv'
  <2>1. Len(fifo') <= Len(stream')
    BY <1>1, <1>3, <1>4 DEF PS2Inv, QueueInv
  <2>2. ASSUME NEW i \in 1 .. Len(fifo')
        PROVE  fifo'[i] = stream'[Len(stream') - Len(fifo') + i]
    <3>1. CASE i \in 1 .. Len(fifo)
      <4>1. Len(stream) - Len(fifo) + i \in 1 .. Len(stream)
        BY <1>1, <3>1 DEF PS2Inv, QueueInv
      <4>2. Len(stream') - Len(fifo') + i = Len(stream) - Len(fifo) + i
        BY <1>1, <1>3, <1>4, <3>1
      <4> QED
        BY <1>3, <1>4, <3>1, <4>1, <4>2 DEF PS2Inv, QueueInv
    <3>2. CASE i = Len(fifo) + 1
      <4>1. Len(stream') - Len(fifo') + i = Len(stream) + 1
        BY <1>1, <1>3, <1>4, <3>2
      <4> QED
        BY <1>3, <1>4, <3>2, <4>1
    <3> QED
      BY <1>1, <1>4, <3>1, <3>2
  <2> QED
    BY <2>1, <2>2 DEF QueueInv
<1>7. taken' = taken
  <2>1. Len(stream') - Len(fifo') = Len(stream) - Len(fifo)
    BY <1>1, <1>3, <1>4
  <2>2. \A i \in 1 .. Len(stream) - Len(fifo) : stream'[i] = stream[i]
    BY <1>1, <1>3
  <2> QED
    BY <1>5, <1>6, <2>1, <2>2, SameTaken DEF PS2Inv
<1>8. LastThreeBytes'
  BY <1>2, <1>7 DEF PS2Inv, LastThreeBytes, Enables
<1>9. CommandsInv'
  BY <1>1, <1>2, <1>3, <1>4 DEF PS2Inv, CommandsInv
<1>10. ArgsRead'
  BY <1>2 DEF PS2Inv, ArgsRead
<1> QED
  BY <1>5, <1>6, <1>8, <1>9, <1>10 DEF PS2Inv

\* The interrupt routine takes one byte more.
LEMMA PS2_ISR_Is ==
  ASSUME PS2Inv, PS2_ISR
  PROVE  PS2Inv'
<1> DEFINE x == Head(fifo)  n == Len(taken)
<1>1. /\ stream \in Seq(Bytes) /\ fifo \in Seq(Bytes) /\ Len(stream) \in Nat /\ Len(fifo) \in Nat
      /\ Len(fifo) <= Len(stream) /\ byte \in [1 .. 3 -> Bytes] /\ commands \in Nat
      /\ commands <= Len(stream) - Len(fifo) /\ Len(stream) <= MaxBytes /\ Len(fifo) <= FifoSize
      /\ FifoSize \in Nat /\ MaxBytes \in Nat
  BY LenProperties, BytesAssumption DEF PS2Inv, TypeOK, QueueInv, CommandsInv
<1>2. /\ fifo # <<>> /\ fifo' = Tail(fifo) /\ byte' = <<byte[2], byte[3], x>>
      /\ commands' = commands + (IF byte'[2] = 170 /\ byte'[3] = 0 THEN 1 ELSE 0)
      /\ UNCHANGED <<stream, TO, timeout, pc, args, display, ticked>>
  BY DEF PS2_ISR, main
<1>3. Len(fifo) >= 1 /\ x = fifo[1]
  BY <1>1, <1>2, EmptySeq
<1>4. /\ x \in Bytes /\ fifo' \in Seq(Bytes) /\ Len(fifo') = Len(fifo) - 1
      /\ \A i \in 1 .. Len(fifo') : fifo'[i] = fifo[i + 1]
  BY <1>1, <1>2, HeadTailProperties
<1>5. /\ n = 3 + Len(stream) - Len(fifo)
      /\ \A i \in 1 .. n : taken[i] = IF i <= 3 THEN 0 ELSE stream[i - 3]
      /\ taken \in Seq(Bytes)
  BY <1>1, TakenIs DEF taken
<1> HIDE DEF n, x
<1>6. byte'[1] = byte[2] /\ byte'[2] = byte[3] /\ byte'[3] = x /\ byte' \in [1 .. 3 -> Bytes]
  BY <1>1, <1>2, <1>4
<1>7. commands' \in Nat /\ commands' <= Len(stream) - Len(fifo')
  BY <1>1, <1>2, <1>3, <1>4
<1>8. TypeOK'
  <2>1. commands' \in 0 .. MaxBytes /\ Len(fifo') <= FifoSize
    BY <1>1, <1>4, <1>7
  <2> QED
    BY <1>2, <1>4, <1>6, <2>1 DEF PS2Inv, TypeOK
<1>9. QueueInv'
  <2>1. Len(fifo') <= Len(stream')
    BY <1>1, <1>2, <1>4
  <2>2. ASSUME NEW i \in 1 .. Len(fifo')
        PROVE  fifo'[i] = stream'[Len(stream') - Len(fifo') + i]
    <3>1. i + 1 \in 1 .. Len(fifo)
      BY <1>1, <1>4
    <3>2. fifo'[i] = stream[Len(stream) - Len(fifo) + (i + 1)]
      BY <1>4, <3>1 DEF PS2Inv, QueueInv
    <3>3. Len(stream) - Len(fifo) + (i + 1) = Len(stream') - Len(fifo') + i
      BY <1>1, <1>2, <1>4
    <3> QED
      BY <1>2, <3>2, <3>3
  <2> QED
    BY <2>1, <2>2 DEF QueueInv
<1>10. n \in Nat /\ n >= 3
  BY <1>1, <1>5
<1>11. /\ Len(taken') = n + 1 /\ taken' \in Seq(Bytes)
       /\ \A i \in 1 .. n : taken'[i] = taken[i]
       /\ taken'[n + 1] = x
  <2>1. /\ taken' \in Seq(Bytes) /\ Len(taken') = 3 + Len(stream') - Len(fifo')
        /\ \A i \in 1 .. Len(taken') : taken'[i] = IF i <= 3 THEN 0 ELSE stream'[i - 3]
    BY <1>8, <1>9, TakenIs DEF TypeOK, QueueInv, taken
  <2>2. Len(taken') = n + 1
    BY <1>1, <1>2, <1>4, <1>5, <2>1
  <2>3. \A i \in 1 .. n : taken'[i] = taken[i]
    <3> SUFFICES ASSUME NEW i \in 1 .. n PROVE taken'[i] = taken[i]
      OBVIOUS
    <3>1. i \in 1 .. Len(taken') /\ stream' = stream
      BY <1>2, <1>10, <2>2
    <3>2. taken'[i] = IF i <= 3 THEN 0 ELSE stream[i - 3]
      BY <2>1, <3>1
    <3>3. taken[i] = IF i <= 3 THEN 0 ELSE stream[i - 3]
      BY <1>5
    <3> QED
      BY <3>2, <3>3
  <2>4. x = stream[Len(stream) - Len(fifo) + 1]
    BY <1>1, <1>3 DEF PS2Inv, QueueInv
  <2>5. taken'[n + 1] = stream[n + 1 - 3]
    <3> DEFINE m == n + 1
    <3>1. m \in 1 .. Len(taken') /\ ~(m <= 3)
      BY <1>10, <2>2
    <3> HIDE DEF m
    <3>2. taken'[m] = IF m <= 3 THEN 0 ELSE stream'[m - 3]
      BY <2>1, <3>1
    <3>3. taken'[m] = stream[m - 3]
      BY <1>2, <3>1, <3>2
    <3> QED
      BY <1>10, <3>3 DEF m
  <2>6. n + 1 - 3 = Len(stream) - Len(fifo) + 1
    BY <1>1, <1>5
  <2> QED
    BY <2>1, <2>2, <2>3, <2>4, <2>5, <2>6
<1>12. byte[1] = taken[n - 2] /\ byte[2] = taken[n - 1] /\ byte[3] = taken[n]
  <2>1. byte = <<taken[n - 2], taken[n - 1], taken[n]>>
    BY <1>5, <1>10, LastThree DEF PS2Inv, LastThreeBytes, n
  <2> QED
    BY <2>1
<1>13. byte' = SubSeq(taken, Len(taken) - 2, Len(taken))'
  <2>1. SubSeq(taken', Len(taken') - 2, Len(taken')) =
          <<taken'[Len(taken') - 2], taken'[Len(taken') - 1], taken'[Len(taken')]>>
    BY <1>11, <1>10, LastThree
  <2>2. taken'[Len(taken') - 2] = byte[2] /\ taken'[Len(taken') - 1] = byte[3] /\ taken'[Len(taken')] = x
    BY <1>11, <1>10, <1>12
  <2> QED
    BY <1>2, <2>1, <2>2
<1>14. (commands = Cardinality(Enables))'
  <2> DEFINE E == {i \in 2 .. n : taken[i - 1] = 170 /\ taken[i] = 0}
             new == byte'[2] = 170 /\ byte'[3] = 0
  <2>1. IsFiniteSet(E) /\ Cardinality(E) \in Nat
    BY <1>10, EnablesFinite
  <2>2. commands = Cardinality(E)
    BY DEF PS2Inv, LastThreeBytes, Enables, n
  <2>3. Enables' = IF new THEN E \cup {n + 1} ELSE E
    <3>1. Enables' = {i \in 2 .. n + 1 : taken'[i - 1] = 170 /\ taken'[i] = 0}
      BY <1>11 DEF Enables
    <3>2. \A i \in 2 .. n : taken'[i - 1] = taken[i - 1] /\ taken'[i] = taken[i]
      BY <1>11, <1>10
    <3>3. new <=> taken'[n + 1 - 1] = 170 /\ taken'[n + 1] = 0
      BY <1>6, <1>11, <1>10, <1>12
    <3>4. 2 .. n + 1 = (2 .. n) \cup {n + 1}
      BY <1>10
    <3> HIDE DEF new
    <3> QED
      BY <3>1, <3>2, <3>3, <3>4, <1>10
  <2>4. n + 1 \notin E
    BY <1>10
  <2>5. commands' = commands + (IF new THEN 1 ELSE 0)
    BY <1>2
  <2> HIDE DEF E, new
  <2>6. Cardinality(E \cup {n + 1}) = Cardinality(E) + 1
    BY <2>1, <2>4, FS_AddElement
  <2> QED
    BY <2>1, <2>2, <2>3, <2>5, <2>6
<1>15. CommandsInv' /\ ArgsRead'
  BY <1>2, <1>7 DEF PS2Inv, CommandsInv, ArgsRead
<1> QED
  BY <1>8, <1>9, <1>13, <1>14, <1>15 DEF PS2Inv, LastThreeBytes

LEMMA PS2Initially == Init => PS2Inv /\ TickPending
<1> SUFFICES ASSUME Init PROVE PS2Inv /\ TickPending
  OBVIOUS
<1>1. /\ fifo = <<>> /\ stream = <<>> /\ TO = FALSE /\ timeout = 0 /\ ticked = FALSE
      /\ byte = <<0, 0, 0>> /\ commands = 0 /\ pc = "wait" /\ args = [i \in 1 .. 3 |-> NotRead]
      /\ display = [i \in 0 .. 5 |-> 0]
  BY DEF Init
<1>2. /\ fifo \in Seq(Bytes) /\ stream \in Seq(Bytes) /\ Len(fifo) = 0 /\ Len(stream) = 0
      /\ FifoSize \in Nat /\ MaxBytes \in Nat /\ byte \in [1 .. 3 -> Bytes]
  BY <1>1, BytesAssumption
<1>3. TypeOK
  <2>1. Len(fifo) <= FifoSize /\ Len(stream) <= MaxBytes /\ commands \in 0 .. MaxBytes /\ timeout \in 0 .. 1
    BY <1>1, <1>2
  <2>2. args \in [1 .. 3 -> Bytes \cup {NotRead}] /\ display \in [0 .. 5 -> 0 .. 255]
    BY <1>1
  <2>3. TO \in BOOLEAN /\ ticked \in BOOLEAN /\ pc \in {"wait", "read", "hex_low", "hex_high", "clear"}
    BY <1>1
  <2> QED
    BY <1>2, <2>1, <2>2, <2>3 DEF TypeOK
<1>4. QueueInv /\ CommandsInv /\ ArgsRead
  BY <1>1, <1>2 DEF QueueInv, CommandsInv, ArgsRead
<1>5. /\ taken \in Seq(Bytes) /\ Len(taken) = 3
      /\ \A i \in 1 .. Len(taken) : taken[i] = IF i <= 3 THEN 0 ELSE stream[i - 3]
  <2>1. /\ taken \in Seq(Bytes) /\ Len(taken) = 3 + Len(stream) - Len(fifo)
        /\ \A i \in 1 .. Len(taken) : taken[i] = IF i <= 3 THEN 0 ELSE stream[i - 3]
    <3>1. Len(fifo) <= Len(stream)
      BY <1>2
    <3> QED
      BY <1>2, <3>1, TakenIs DEF taken
  <2> QED
    BY <1>2, <2>1
<1>6. byte = SubSeq(taken, Len(taken) - 2, Len(taken))
  <2>1. SubSeq(taken, Len(taken) - 2, Len(taken)) =
          <<taken[Len(taken) - 2], taken[Len(taken) - 1], taken[Len(taken)]>>
    <3>1. Len(taken) >= 3
      BY <1>5
    <3> QED
      BY <1>5, <3>1, LastThree
  <2>2. taken[Len(taken) - 2] = 0 /\ taken[Len(taken) - 1] = 0 /\ taken[Len(taken)] = 0
    BY <1>5
  <2> QED
    BY <1>1, <2>1, <2>2
<1>7. Enables = {}
  BY <1>5 DEF Enables
<1>8. LastThreeBytes
  BY <1>1, <1>6, <1>7, FS_EmptySet DEF LastThreeBytes
<1> QED
  BY <1>1, <1>3, <1>4, <1>8 DEF PS2Inv, TickPending

\* The main loop reads three bytes and makes digits of them.
LEMMA MainIs ==
  ASSUME PS2Inv, Main
  PROVE  PS2Inv'
<1>1. UNCHANGED <<port, byte, commands>>
  BY DEF Main, Refresh, ReadByte, HexLow, HexHigh, ClearTimeout
<1>2. (QueueInv /\ CommandsInv /\ LastThreeBytes)'
  BY <1>1, NoByte DEF PS2Inv
<1>3. TypeOK /\ ArgsRead
  BY DEF PS2Inv
<1>4. CASE Refresh
  BY <1>2, <1>3, <1>4 DEF Refresh, TypeOK, ArgsRead, PS2Inv, port
<1>5. CASE \E i \in 1 .. 3 : ReadByte(i)
  <2>1. PICK i \in 1 .. 3 : ReadByte(i)
    BY <1>5
  <2>2. /\ args' = [args EXCEPT ![i] = byte[i]]
        /\ pc' = IF NotRead \in Range(args') THEN "read" ELSE "hex_low"
        /\ UNCHANGED <<fifo, stream, TO, timeout, byte, commands, display, ticked>>
    BY <2>1 DEF ReadByte, port
  <2>3. args' \in [1 .. 3 -> Bytes \cup {NotRead}]
    BY <1>3, <2>2 DEF TypeOK
  <2>4. pc' # "read" => args' \in [1 .. 3 -> Bytes]
    <3> SUFFICES ASSUME NotRead \notin Range(args') PROVE args' \in [1 .. 3 -> Bytes]
      BY <2>2
    <3>1. \A j \in 1 .. 3 : args'[j] \in Range(args')
      BY <2>3 DEF Range
    <3> QED
      BY <2>3, <3>1
  <2>5. TypeOK'
    BY <1>3, <2>2, <2>3 DEF TypeOK
  <2>6. ArgsRead'
    BY <2>2, <2>4 DEF ArgsRead
  <2> QED
    BY <1>2, <2>5, <2>6 DEF PS2Inv
<1>6. CASE HexLow \/ HexHigh
  <2>1. pc \in {"hex_low", "hex_high"}
    BY <1>6 DEF HexLow, HexHigh
  <2>2. hex_segs(args) \in [0 .. 5 -> 0 .. 255]
    BY <1>3, <2>1, HexSegsTyped DEF ArgsRead
  <2>3. display' \in [0 .. 5 -> 0 .. 255]
    <3>1. display \in [0 .. 5 -> 0 .. 255]
      BY <1>3 DEF TypeOK
    <3>2. CASE HexLow
      BY <2>2, <3>1, <3>2 DEF HexLow
    <3>3. CASE HexHigh
      BY <2>2, <3>1, <3>3 DEF HexHigh
    <3> QED
      BY <1>6, <3>2, <3>3
  <2>4. pc' \in {"hex_high", "clear"} /\ UNCHANGED <<fifo, stream, TO, timeout, byte, commands, args, ticked>>
    BY <1>6 DEF HexLow, HexHigh, port
  <2>5. TypeOK'
    BY <1>3, <2>3, <2>4 DEF TypeOK
  <2>6. ArgsRead'
    BY <1>3, <2>1, <2>4 DEF ArgsRead
  <2> QED
    BY <1>2, <2>5, <2>6 DEF PS2Inv
<1>7. CASE ClearTimeout
  BY <1>2, <1>3, <1>7 DEF ClearTimeout, TypeOK, ArgsRead, PS2Inv, port
<1> QED
  BY <1>4, <1>5, <1>6, <1>7 DEF Main

LEMMA PS2Step == PS2Inv /\ [Next]_vars => PS2Inv'
<1> SUFFICES ASSUME PS2Inv, [Next]_vars PROVE PS2Inv'
  OBVIOUS
<1>1. CASE Main
  BY <1>1, MainIs
<1>2. CASE PS2_ISR
  BY <1>2, PS2_ISR_Is
<1>3. CASE \E x \in Bytes : SendByte(x)
  BY <1>3, SendByteIs
<1>4. CASE interval_timer_ISR \/ Tick \/ UNCHANGED vars
  <2>1. UNCHANGED <<port, byte, commands, pc, args, display>>
    BY <1>4 DEF interval_timer_ISR, Tick, vars, main
  <2>2. TO' \in BOOLEAN /\ ticked' \in BOOLEAN /\ timeout' \in 0 .. 1
    <3>1. TO \in BOOLEAN /\ ticked \in BOOLEAN /\ timeout \in 0 .. 1
      BY DEF PS2Inv, TypeOK
    <3>2. CASE interval_timer_ISR
      <4>1. TO' = FALSE /\ ticked' = TRUE /\ timeout' = 1
        BY <3>2 DEF interval_timer_ISR
      <4>2. timeout' \in 0 .. 1
        BY <4>1
      <4> QED
        BY <4>1, <4>2
    <3>3. CASE Tick
      BY <3>1, <3>3 DEF Tick
    <3>4. CASE UNCHANGED vars
      BY <3>1, <3>4 DEF vars
    <3> QED
      BY <1>4, <3>2, <3>3, <3>4
  <2>3. (QueueInv /\ CommandsInv /\ LastThreeBytes)'
    BY <2>1, NoByte DEF PS2Inv
  <2>4. TypeOK'
    BY <2>1, <2>2 DEF PS2Inv, TypeOK, port
  <2>5. ArgsRead'
    BY <2>1 DEF PS2Inv, ArgsRead
  <2> QED
    BY <2>3, <2>4, <2>5 DEF PS2Inv
<1> QED
  BY <1>1, <1>2, <1>3, <1>4 DEF Next

LEMMA TickPendingStep == TickPending /\ [Next]_vars => TickPending'
<1> SUFFICES ASSUME TickPending, [Next]_vars PROVE TickPending'
  OBVIOUS
<1> USE DEF TickPending
<1>1. CASE Refresh
  BY <1>1 DEF Refresh
<1>2. ASSUME NEW i \in 1 .. 3, ReadByte(i) PROVE TickPending'
  BY <1>2 DEF ReadByte
<1>3. CASE HexLow
  BY <1>3 DEF HexLow
<1>4. CASE HexHigh
  BY <1>4 DEF HexHigh
<1>5. CASE ClearTimeout
  BY <1>5 DEF ClearTimeout
<1>6. CASE interval_timer_ISR
  BY <1>6 DEF interval_timer_ISR
<1>7. CASE PS2_ISR
  BY <1>7 DEF PS2_ISR, main
<1>8. CASE Tick
  BY <1>8 DEF Tick, main
<1>9. ASSUME NEW x \in Bytes, SendByte(x) PROVE TickPending'
  BY <1>9 DEF SendByte, main
<1>10. CASE UNCHANGED vars
  BY <1>10 DEF vars, main
<1> QED
  BY <1>1, <1>2, <1>3, <1>4, <1>5, <1>6, <1>7, <1>8, <1>9, <1>10 DEF Next, Main

-----------------------------------------------------------------------------
(* The displays. *)

LEMMA PS2Invariance == Spec => []PS2Inv
<1>1. Init => PS2Inv
  BY PS2Initially
<1> QED
  BY <1>1, PS2Step, PTL DEF Spec

\* byte1..byte3 are the last three bytes of the port, in order, and every AA 00
\* among them got its enable command, wherever the interrupts cut the main loop
\* and for a FIFO of any size.
THEOREM LastThreeCorrect == Spec => []LastThreeBytes
<1>1. PS2Inv => LastThreeBytes
  BY DEF PS2Inv
<1> QED
  BY <1>1, PS2Invariance, PTL

\* No refresh of the screen and the displays without a timer interrupt of its
\* own since the one before.
THEOREM OneRefreshPerTick == Spec => RefreshOnlyOnTick
<1>1. Init => TickPending
  BY PS2Initially
<1>2. TickPending => (Refresh => ticked)
  BY DEF TickPending, Refresh
<1> QED
  BY <1>1, <1>2, TickPendingStep, PTL DEF Spec, RefreshOnlyOnTick

-----------------------------------------------------------------------------
(* Both halves of the demo. *)

LEMMA EitherHalf == [MediaNext]_mediaVars => [Next]_vars /\ [AudioNext]_audioVars
  BY DEF MediaNext, Displays, Audio, mediaVars

\* Whichever half is followed, every variable stays within its C type and every
\* FIFO within its size.
THEOREM MediaTypeCorrect == MediaSpec => []MediaTypeOK
<1>1. MediaInit => PS2Inv /\ IInv
  BY PS2Initially, Initially DEF MediaInit
<1>2. PS2Inv /\ IInv /\ [MediaNext]_mediaVars => PS2Inv' /\ IInv'
  BY PS2Step, Inductive, EitherHalf
<1>3. PS2Inv /\ IInv => MediaTypeOK
  BY DEF PS2Inv, IInv, MediaTypeOK
<1> QED
  BY <1>1, <1>2, <1>3, PTL DEF MediaSpec

\* media_interrupt_C as a whole: a recording holds whole frames from the first
\* one on unless the port lost half of one, a playback is heard in order and
\* once, the lights tell what the port is doing, the byte variables follow the
\* keyboard, and no timer interrupt refreshes the screen twice - for bytes,
\* buffers and FIFOs of any number and size.
THEOREM MediaCorrect ==
  MediaSpec => /\ [](RecordedAligned /\ PlaybackInOrder /\ LedMode /\ LastThreeBytes)
               /\ RefreshOnlyOnTick
<1>1. MediaInit => PS2Inv /\ IInv /\ TickPending
  BY PS2Initially, Initially DEF MediaInit
<1>2. PS2Inv /\ IInv /\ TickPending /\ [MediaNext]_mediaVars
        => PS2Inv' /\ IInv' /\ TickPending'
  BY PS2Step, TickPendingStep, Inductive, EitherHalf
<1>3. PS2Inv /\ IInv => RecordedAligned /\ PlaybackInOrder /\ LedMode /\ LastThreeBytes
  BY RecordedMeans, PlaybackMeans, LedMeans DEF PS2Inv
<1>4. TickPending => (Refresh => ticked)
  BY DEF TickPending, Refresh
<1> QED
  BY <1>1, <1>2, <1>3, <1>4, EitherHalf, PTL DEF MediaSpec, RefreshOnlyOnTick

-----------------------------------------------------------------------------
(***************************************************************************)
(* The displays settle.  Once the keyboard is silent, the main loop may    *)
(* finish a refresh with bytes it read too early; it then waits for the    *)
(* timer, reads all three bytes again, and every later refresh writes the  *)
(* same digits.  The provers know nothing of ENABLED: that the actions are *)
(* enabled when their guards hold is a hypothesis.                         *)
(***************************************************************************)
NoneRead == \A i \in 1 .. 3 : args[i] = NotRead
OneRead  == \E i \in 1 .. 3 : \A j \in 1 .. 3 : args[j] # NotRead <=> j = i
TwoRead  == \E i \in 1 .. 3 : \A j \in 1 .. 3 : args[j] = NotRead <=> j = i

ReadInv ==
  /\ pc = "wait" => NoneRead
  /\ pc = "read" => NoneRead \/ OneRead \/ TwoRead

Waits   == pc = "wait"
Begins  == pc = "read" /\ NoneRead
Reads1  == pc = "read" /\ OneRead
Reads2  == pc = "read" /\ TwoRead
Low     == pc = "hex_low"
High    == pc = "hex_high"
Clears  == pc = "clear"

\* What has been read is still in byte1..byte3.
Agrees == \A i \in 1 .. 3 : args[i] \in {NotRead, byte[i]}
HalfShown == \A i \in 0 .. 3 : display[i] = hex_segs(byte)[i]
Settled == display = hex_segs(byte) /\ (pc \in {"wait", "clear"} \/ Agrees)

LEMMA SomeStage ==
  PS2Inv /\ ReadInv => Waits \/ Begins \/ Reads1 \/ Reads2 \/ Low \/ High \/ Clears
  BY DEF PS2Inv, TypeOK, ReadInv, Waits, Begins, Reads1, Reads2, Low, High, Clears

\* One more byte is read.
LEMMA ReadMoves ==
  ASSUME PS2Inv, NEW i \in 1 .. 3, ReadByte(i)
  PROVE  /\ NoneRead => OneRead' /\ pc' = "read"
         /\ OneRead => TwoRead' /\ pc' = "read"
         /\ TwoRead => pc' = "hex_low"
         /\ NoneRead \/ Agrees => Agrees'
         /\ UNCHANGED <<byte, display>>
<1>1. /\ args \in [1 .. 3 -> Bytes \cup {NotRead}] /\ byte \in [1 .. 3 -> Bytes]
      /\ args[i] = NotRead /\ args' = [args EXCEPT ![i] = byte[i]]
      /\ pc' = IF NotRead \in Range(args') THEN "read" ELSE "hex_low"
      /\ byte' = byte /\ display' = display
  BY DEF PS2Inv, TypeOK, ReadByte
<1>2. \A j \in 1 .. 3 : args'[j] = IF j = i THEN byte[i] ELSE args[j]
  BY <1>1
<1>3. byte[i] # NotRead
  BY <1>1, BytesAssumption DEF NotRead
<1>4. NotRead \in Range(args') <=> \E j \in 1 .. 3 : args'[j] = NotRead
  BY <1>1 DEF Range
<1>5. NoneRead => OneRead' /\ pc' = "read"
  <2> SUFFICES ASSUME NoneRead PROVE OneRead' /\ pc' = "read"
    OBVIOUS
  <2>1. \A j \in 1 .. 3 : args'[j] # NotRead <=> j = i
    BY <1>2, <1>3 DEF NoneRead
  <2>2. \E j \in 1 .. 3 : j # i
    <3>1. 1 \in 1 .. 3 /\ 2 \in 1 .. 3 /\ 1 # 2
      OBVIOUS
    <3> QED
      BY <3>1
  <2> QED
    BY <1>1, <1>4, <2>1, <2>2 DEF OneRead
<1>6. OneRead => TwoRead' /\ pc' = "read"
  <2> SUFFICES ASSUME OneRead PROVE TwoRead' /\ pc' = "read"
    OBVIOUS
  <2>1. PICK k \in 1 .. 3 : \A j \in 1 .. 3 : args[j] # NotRead <=> j = k
    BY DEF OneRead
  <2>2. k # i
    BY <1>1, <2>1
  <2>3. PICK m \in 1 .. 3 : \A j \in 1 .. 3 : j = m <=> j # i /\ j # k
    <3>1. 6 - i - k \in 1 .. 3 /\ \A j \in 1 .. 3 : j = 6 - i - k <=> j # i /\ j # k
      BY <2>2
    <3> QED
      BY <3>1
  <2>4. \A j \in 1 .. 3 : args'[j] = NotRead <=> j = m
    BY <1>2, <1>3, <2>1, <2>3
  <2> QED
    BY <1>1, <1>4, <2>4 DEF TwoRead
<1>7. TwoRead => pc' = "hex_low"
  <2> SUFFICES ASSUME TwoRead PROVE pc' = "hex_low"
    OBVIOUS
  <2>1. \A j \in 1 .. 3 : args[j] = NotRead <=> j = i
    BY <1>1 DEF TwoRead
  <2> QED
    BY <1>1, <1>2, <1>3, <1>4, <2>1
<1>8. NoneRead \/ Agrees => Agrees'
  <2> SUFFICES ASSUME NoneRead \/ Agrees, NEW j \in 1 .. 3
               PROVE  args'[j] \in {NotRead, byte'[j]}
    BY DEF Agrees
  <2>1. args[j] \in {NotRead, byte[j]}
    BY DEF NoneRead, Agrees
  <2> QED
    BY <1>1, <1>2, <2>1
<1> QED
  BY <1>1, <1>5, <1>6, <1>7, <1>8

\* A step of the main loop while the bytes stay.
LEMMA MainMoves ==
  ASSUME PS2Inv, ReadInv, Main
  PROVE  /\ Waits => Begins'
         /\ Begins => Reads1' /\ Agrees'
         /\ Reads1 => Reads2' /\ (Agrees => Agrees')
         /\ Reads2 => Low' /\ (Agrees => Agrees')
         /\ Low => High' /\ (Agrees => Agrees' /\ HalfShown')
         /\ High => Clears' /\ (Agrees /\ HalfShown => Settled')
         /\ Clears => Waits'
         /\ Settled => Settled'
         /\ ReadInv'
<1> USE DEF Waits, Begins, Reads1, Reads2, Low, High, Clears
<1>1. CASE Refresh
  BY <1>1 DEF Refresh, ReadInv, NoneRead, Settled, Agrees
<1>2. CASE \E i \in 1 .. 3 : ReadByte(i)
  <2>1. PICK i \in 1 .. 3 : ReadByte(i)
    BY <1>2
  <2>2. pc = "read"
    BY <2>1 DEF ReadByte
  <2>3. pc' \in {"read", "hex_low"} /\ (pc' = "read" => OneRead' \/ TwoRead')
    BY <2>1, <2>2, ReadMoves DEF ReadInv
  <2> QED
    BY <2>1, <2>2, <2>3, ReadMoves DEF ReadInv, Settled
<1>3. CASE HexLow \/ HexHigh
  <2>1. pc \in {"hex_low", "hex_high"} /\ args' = args /\ byte' = byte
    BY <1>3 DEF HexLow, HexHigh
  <2>2. Agrees <=> args = byte
    <3>1. args \in [1 .. 3 -> Bytes] /\ byte \in [1 .. 3 -> Bytes] /\ NotRead \notin Bytes
      BY <2>1, BytesAssumption DEF PS2Inv, ArgsRead, TypeOK, NotRead
    <3>2. Agrees => \A i \in 1 .. 3 : args[i] = byte[i]
      BY <3>1 DEF Agrees
    <3>3. args = byte => Agrees
      BY <3>1 DEF Agrees
    <3> QED
      BY <3>1, <3>2, <3>3
  <2>3. display \in [0 .. 5 -> 0 .. 255] /\ hex_segs(byte) \in [0 .. 5 -> 0 .. 255]
    BY HexSegsTyped DEF PS2Inv, TypeOK
  <2>4. Agrees => Agrees'
    BY <2>1 DEF Agrees
  <2>5. CASE HexLow
    <3>1. /\ pc = "hex_low" /\ pc' = "hex_high"
          /\ display' = [i \in 0 .. 5 |-> IF i < 4 THEN hex_segs(args)[i] ELSE display[i]]
      BY <2>5 DEF HexLow
    <3>2. Agrees => HalfShown'
      BY <2>1, <2>2, <3>1 DEF HalfShown
    <3>3. Agrees /\ display = hex_segs(byte) => display' = hex_segs(byte')
      BY <2>1, <2>2, <2>3, <3>1
    <3> QED
      BY <2>4, <3>1, <3>2, <3>3 DEF Settled, ReadInv
  <2>6. CASE HexHigh
    <3>1. /\ pc = "hex_high" /\ pc' = "clear"
          /\ display' = [i \in 0 .. 5 |-> IF i < 4 THEN display[i] ELSE hex_segs(args)[i]]
      BY <2>6 DEF HexHigh
    <3>2. HalfShown => \A i \in 0 .. 5 : i < 4 => display[i] = hex_segs(byte)[i]
      BY DEF HalfShown
    <3>3. display = hex_segs(byte) => HalfShown
      BY DEF HalfShown
    <3>4. Agrees /\ HalfShown => display' = hex_segs(byte')
      <4> SUFFICES ASSUME Agrees, HalfShown PROVE display' = hex_segs(byte)
        BY <2>1
      <4>1. \A i \in 0 .. 5 : display'[i] = hex_segs(byte)[i]
        BY <2>2, <3>1, <3>2
      <4> QED
        BY <2>3, <3>1, <4>1
    <3> QED
      BY <3>1, <3>3, <3>4 DEF Settled, ReadInv
  <2> QED
    BY <1>3, <2>5, <2>6
<1>4. CASE ClearTimeout
  BY <1>4 DEF ClearTimeout, ReadInv, NoneRead, Settled
<1> QED
  BY <1>1, <1>2, <1>3, <1>4 DEF Main

LEMMA OtherMoves ==
  ASSUME [Next]_vars, ~Main, byte' = byte
  PROVE  UNCHANGED <<pc, args, display, byte>>
  BY DEF Next, interval_timer_ISR, PS2_ISR, Tick, SendByte, main, vars

LEMMA ReadInvStep == PS2Inv /\ ReadInv /\ [Next]_vars => ReadInv'
<1> SUFFICES ASSUME PS2Inv, ReadInv, [Next]_vars, ~Main PROVE ReadInv'
  BY MainMoves
<1>1. pc' = pc /\ args' = args
  BY DEF Next, interval_timer_ISR, PS2_ISR, Tick, SendByte, main, vars
<1> QED
  BY <1>1 DEF ReadInv, NoneRead, OneRead, TwoRead

LEMMA ReadInvInitially == Init => ReadInv
  BY DEF Init, ReadInv, NoneRead

\* The way from one refresh to the next, and from bytes read after the last
\* one came to digits that stay.
LEMMA Onward ==
  ASSUME PS2Inv, ReadInv, [Next]_vars, byte' = byte
  PROVE  /\ Waits => Waits' \/ Begins'
         /\ Begins => Begins' \/ (Reads1 /\ Agrees)'
         /\ Reads1 /\ Agrees => (Reads1 /\ Agrees)' \/ (Reads2 /\ Agrees)'
         /\ Reads2 /\ Agrees => (Reads2 /\ Agrees)' \/ (Low /\ Agrees)'
         /\ Low /\ Agrees => (Low /\ Agrees)' \/ (High /\ Agrees /\ HalfShown)'
         /\ High /\ Agrees /\ HalfShown => (High /\ Agrees /\ HalfShown)' \/ Settled'
         /\ Settled => Settled'
         /\ Reads1 => Reads1' \/ Reads2'
         /\ Reads2 => Reads2' \/ Low'
         /\ Low => Low' \/ High'
         /\ High => High' \/ Clears'
         /\ Clears => Clears' \/ Waits'
<1>1. CASE Main
  BY <1>1, MainMoves
<1>2. CASE ~Main
  BY <1>2, OtherMoves
  DEF Waits, Begins, Reads1, Reads2, Low, High, Clears, Agrees, HalfShown, Settled,
      NoneRead, OneRead, TwoRead
<1> QED
  BY <1>1, <1>2

TimedOut == timeout = 1
MainReady == pc # "wait" \/ TimedOut

\* The timer's interrupt lets a waiting main loop go.
LEMMA TimerMoves ==
  ASSUME [Next]_vars
  PROVE  /\ TO => TO' \/ TimedOut'
         /\ interval_timer_ISR => TimedOut'
         /\ Tick => TO'
         /\ Waits /\ TimedOut => TimedOut'
  BY DEF Next, Main, Refresh, ReadByte, HexLow, HexHigh, ClearTimeout, interval_timer_ISR,
         PS2_ISR, Tick, SendByte, main, vars, TimedOut, Waits

\* What fairness comes to for actions that are enabled when their guards hold.
Served ==
  /\ []<>~MainReady \/ []<><<Main>>_vars
  /\ []<>~TO \/ []<><<interval_timer_ISR>>_vars
  /\ []<>TO \/ []<><<Tick>>_vars

\* The keyboard falls silent.
Silent == <>[][byte' = byte]_vars

LEMMA Settles ==
  [](PS2Inv /\ ReadInv) /\ [][Next]_vars /\ Served /\ Silent => DisplaySettles
<1> DEFINE A1 == Reads1 /\ Agrees
           A2 == Reads2 /\ Agrees
           A3 == Low /\ Agrees
           A4 == High /\ Agrees /\ HalfShown
           Still == byte' = byte
<1>1. PS2Inv /\ ReadInv /\ [Next]_vars /\ Still =>
        /\ Waits => Waits' \/ Begins'
        /\ Begins => Begins' \/ A1'
        /\ A1 => A1' \/ A2'
        /\ A2 => A2' \/ A3'
        /\ A3 => A3' \/ A4'
        /\ A4 => A4' \/ Settled'
        /\ Settled => Settled'
        /\ Reads1 => Reads1' \/ Reads2'
        /\ Reads2 => Reads2' \/ Low'
        /\ Low => Low' \/ High'
        /\ High => High' \/ Clears'
        /\ Clears => Clears' \/ Waits'
  BY Onward
<1>2. PS2Inv /\ ReadInv /\ <<Main>>_vars =>
        /\ Waits => Begins'
        /\ Begins => A1'
        /\ A1 => A2'
        /\ A2 => A3'
        /\ A3 => A4'
        /\ A4 => Settled'
        /\ Reads1 => Reads2'
        /\ Reads2 => Low'
        /\ Low => High'
        /\ High => Clears'
        /\ Clears => Waits'
  BY MainMoves
<1>3. [Next]_vars =>
        /\ TO => TO' \/ TimedOut'
        /\ <<interval_timer_ISR>>_vars => TimedOut'
        /\ <<Tick>>_vars => TO'
        /\ Waits /\ TimedOut => TimedOut'
  BY TimerMoves
<1>4. /\ ~MainReady => Waits
      /\ MainReady <=> ~Waits \/ TimedOut
  BY DEF MainReady, Waits
<1>5. [byte' = byte]_vars => Still
  BY DEF vars
<1>6. Settled => display = hex_segs(byte)
  BY DEF Settled
<1>7. Begins \/ Reads1 \/ Reads2 \/ Low \/ High \/ Clears => ~Waits
  BY DEF Begins, Reads1, Reads2, Low, High, Clears, Waits
<1>8. (A1 => Reads1) /\ (A2 => Reads2) /\ (A3 => Low) /\ (A4 => High)
  OBVIOUS
<1> HIDE DEF A1, A2, A3, A4, Still
<1> QED
  BY <1>1, <1>2, <1>3, <1>4, <1>5, <1>6, <1>7, <1>8, SomeStage, PTL DEF Served, Silent, DisplaySettles

\* What the displays' half of the program can do when its guards hold.
DisplaysRun ==
  [](half = "displays" =>
       /\ MainReady => ENABLED <<Displays(Main) \/ Audio(Codec)>>_mediaVars
       /\ TO => ENABLED <<Displays(interval_timer_ISR) \/ Audio(Dac)>>_mediaVars
       /\ ~TO => ENABLED <<Displays(Tick)>>_mediaVars)

\* Once no more bytes come, the HEX displays of media_interrupt_C end up
\* showing what HEX_PS2 makes of the last three, for good, wherever the bytes
\* fell in a refresh: no refresh leaves a mixture behind for ever.
THEOREM DisplaysCorrect == MediaSpec /\ DisplaysRun /\ Silent => DisplaysSettle
<1> DEFINE Here == half = "displays"
           M == Displays(Main) \/ Audio(Codec)
           T == Displays(interval_timer_ISR) \/ Audio(Dac)
           C == Displays(Tick)
<1>1. MediaInit => PS2Inv /\ ReadInv
  BY PS2Initially, ReadInvInitially DEF MediaInit
<1>2. PS2Inv /\ ReadInv /\ [MediaNext]_mediaVars => PS2Inv' /\ ReadInv'
  BY PS2Step, ReadInvStep, EitherHalf
<1>3. [MediaNext]_mediaVars => (Here <=> Here')
  BY DEF MediaNext, Displays, Audio, mediaVars
<1>4. Here => /\ <<M>>_mediaVars => <<Main>>_vars
              /\ <<T>>_mediaVars => <<interval_timer_ISR>>_vars
              /\ <<C>>_mediaVars => <<Tick>>_vars
  BY DEF Displays, Audio, mediaVars
<1>5. Here <=> half = "displays"
  OBVIOUS
<1>6. MediaSpec => [](PS2Inv /\ ReadInv) /\ [][Next]_vars
  BY <1>1, <1>2, EitherHalf, PTL DEF MediaSpec
<1> HIDE DEF Here
<1>7. MediaSpec /\ DisplaysRun => Served \/ []~Here
  BY <1>3, <1>4, <1>5, PTL DEF MediaSpec, MediaFairness, DisplaysRun, Served
<1> QED
  BY <1>5, <1>6, <1>7, Settles, PTL DEF DisplaysSettle
=============================================================================
