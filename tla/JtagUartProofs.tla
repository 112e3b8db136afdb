--------------------------- MODULE JtagUartProofs ---------------------------
(***************************************************************************)
(* The JTAG UART driver neither loses, repeats nor reorders a character    *)
(* and loses no wake-up, for all sizes of the buffers and FIFOs, blocks of *)
(* any length, and a host that comes and goes.                             *)
(***************************************************************************)
EXTENDS JtagUart, Integers, TLAPS

Free == BufLen - 1 - Held(tx_out, tx_in)

\* A block of n characters copied to the transmit buffer, or from the receive
\* buffer, lies in one piece: write has the room for it, read the characters.
Blocks ==
  /\ pc \in {"wCopy", "wPublish"} => n \in 1 .. Free /\ tx_in + n <= BufLen
  /\ pc \in {"rCopy", "rPublish"} => n \in 1 .. Held(rx_out, rx_in) /\ rx_out + n <= BufLen
  /\ pc \in {"wCopy", "rCopy"} => n <= left
  /\ pc \in {"rTake", "rSpin", "rTest"} => left > 0
  /\ pc = "rPublish" => any

\* The interrupt routine does not overfill the write FIFO, and has data left
\* after its receive loop only because the buffer is full.
RoutineInv ==
  /\ control.space + Len(wfifo) <= WriteDepth
  /\ isr = "rxEnd" /\ ravail => Advance(rx_in, 1) = rx_out

\* The driver's copy of the interrupt enables is right, and what the
\* application is about to store only adds to it.
Enables ==
  /\ ien = irq_enable
  /\ irqoff <=> pc \in {"wStore", "rStore"}
  /\ irqoff => isr = "off" /\ irq_enable \subseteq word
  /\ pc = "wStore" => "WE" \in word
  /\ pc = "rStore" => "RE" \in word

IInv ==
  /\ TypeOK /\ Blocks /\ RoutineInv /\ Enables
  /\ NoLostWakeup /\ TransmitInOrder /\ ReceiveInOrder

-----------------------------------------------------------------------------
(* The circular buffers. *)

LEMMA AdvanceIs ==
  ASSUME NEW i \in Slots, NEW k \in 0 .. BufLen
  PROVE  Advance(i, k) = IF i + k < BufLen THEN i + k ELSE i + k - BufLen
<1>1. CASE i + k < BufLen
  BY <1>1, SizeAssumption DEF Advance, Slots
<1>2. CASE i + k >= BufLen
  <2>1. i + k \in BufLen .. 2 * BufLen - 1
    BY <1>2, SizeAssumption DEF Slots
  <2> QED
    BY <2>1, <1>2, SizeAssumption DEF Advance, Slots
<1> QED
  BY <1>1, <1>2, SizeAssumption DEF Slots

LEMMA AdvanceInRing ==
  ASSUME NEW i \in Slots, NEW k \in 0 .. BufLen
  PROVE  Advance(i, k) \in Slots
  BY AdvanceIs, SizeAssumption DEF Slots

LEMMA HeldRange ==
  ASSUME NEW from \in Slots, NEW to \in Slots
  PROVE  /\ Held(from, to) \in 0 .. BufLen - 1
         /\ Held(from, to) = 0 <=> from = to
         /\ Advance(from, Held(from, to)) = to
<1>1. Held(from, to) \in 0 .. BufLen - 1 /\ (Held(from, to) = 0 <=> from = to)
  BY SizeAssumption DEF Held, Slots
<1> QED
  BY <1>1, AdvanceIs, SizeAssumption DEF Held, Slots

LEMMA AdvanceTwice ==
  ASSUME NEW from \in Slots, NEW k \in Nat, NEW i \in Nat, k + i <= BufLen
  PROVE  Advance(Advance(from, k), i) = Advance(from, k + i)
<1>1. /\ k \in 0 .. BufLen /\ i \in 0 .. BufLen /\ k + i \in 0 .. BufLen
      /\ from \in 0 .. BufLen - 1 /\ BufLen \in Nat
  BY SizeAssumption DEF Slots
<1>2. Advance(from, k) \in Slots
  BY <1>1, AdvanceInRing
<1>3. CASE from + k < BufLen
  <2>1. Advance(from, k) = from + k
    BY <1>1, <1>3, AdvanceIs
  <2> QED
    BY <1>1, <1>2, <2>1, AdvanceIs
<1>4. CASE ~(from + k < BufLen)
  <2>1. Advance(from, k) = from + k - BufLen
    BY <1>1, <1>4, AdvanceIs
  <2>2. from + k - BufLen + i < BufLen /\ ~(from + (k + i) < BufLen)
    BY <1>1, <1>4
  <2>3. Advance(Advance(from, k), i) = from + k - BufLen + i
    BY <1>1, <1>2, <2>1, <2>2, AdvanceIs
  <2>4. Advance(from, k + i) = from + (k + i) - BufLen
    BY <1>1, <2>2, AdvanceIs
  <2> QED
    BY <1>1, <2>3, <2>4
<1> QED
  BY <1>3, <1>4

\* Characters are added at one end and taken away at the other.
LEMMA HeldMore ==
  ASSUME NEW from \in Slots, NEW to \in Slots, NEW k \in Nat,
         Held(from, to) + k < BufLen
  PROVE  Held(from, Advance(to, k)) = Held(from, to) + k
<1>1. k \in 0 .. BufLen
  BY HeldRange, SizeAssumption
<1> QED
  BY <1>1, AdvanceIs, SizeAssumption DEF Held, Slots

LEMMA HeldLess ==
  ASSUME NEW from \in Slots, NEW to \in Slots, NEW k \in 0 .. Held(from, to)
  PROVE  Held(Advance(from, k), to) = Held(from, to) - k
<1>1. k \in 0 .. BufLen /\ Held(from, to) \in 0 .. BufLen - 1
  BY HeldRange, SizeAssumption
<1> QED
  BY <1>1, AdvanceIs, SizeAssumption DEF Held, Slots

\* Full is one short of the length of the buffer.
LEMMA FullRing ==
  ASSUME NEW from \in Slots, NEW to \in Slots
  PROVE  Advance(to, 1) = from <=> Held(from, to) = BufLen - 1
<1>1. 1 \in 0 .. BufLen
  BY SizeAssumption
<1> QED
  BY <1>1, AdvanceIs, SizeAssumption DEF Held, Slots

\* A block of k behind the characters held is disjoint from them.
LEMMA BlockBehind ==
  ASSUME NEW from \in Slots, NEW to \in Slots, NEW k \in 1 .. BufLen - 1 - Held(from, to),
         to + k <= BufLen, NEW i \in 0 .. Held(from, to) + k - 1
  PROVE  /\ Advance(from, i) \in Slots
         /\ i < Held(from, to) => Advance(from, i) \notin to .. to + k - 1
         /\ i >= Held(from, to) => Advance(from, i) = to + (i - Held(from, to))
<1>1. Held(from, to) \in 0 .. BufLen - 1 /\ BufLen \in Nat
  BY HeldRange, SizeAssumption
<1>2. i \in 0 .. BufLen
  BY <1>1
<1>3. Advance(from, i) \in Slots
  BY <1>2, AdvanceInRing
<1>4. Advance(from, i) = IF from + i < BufLen THEN from + i ELSE from + i - BufLen
  BY <1>2, AdvanceIs
<1> QED
  BY <1>1, <1>3, <1>4 DEF Held, Slots

\* The room write finds is in one piece and leaves one slot empty; what read
\* finds is in one piece, and something if there is anything.
LEMMA PieceSizes ==
  ASSUME NEW in \in Slots, NEW out \in Slots
  PROVE  /\ Room(in, out) \in 0 .. BufLen - 1 - Held(out, in)
         /\ in + Room(in, out) <= BufLen
         /\ Filled(in, out) \in 0 .. Held(out, in)
         /\ out + Filled(in, out) <= BufLen
         /\ Filled(in, out) = 0 <=> Held(out, in) = 0
  BY SizeAssumption DEF Room, Filled, Held, Slots

-----------------------------------------------------------------------------
(* Types. *)

\* The type invariant by groups of variables, to take over those a step leaves
\* alone without looking into them.
HwTypes ==
  /\ wfifo \in Seq(Nat) /\ Len(wfifo) <= WriteDepth
  /\ rfifo \in Seq(Nat) /\ Len(rfifo) <= ReadDepth
  /\ ien \subseteq {"RE", "WE"} /\ pause_irq \in BOOLEAN /\ ac \in BOOLEAN
HostTypes == host \in BOOLEAN /\ plugs \in Nat /\ heard \in Seq(Nat) /\ typed \in Nat
RxTypes == rx_in \in Slots /\ rx_out \in Slots /\ rx_buf \in [Slots -> Nat]
TxTypes == tx_in \in Slots /\ tx_out \in Slots /\ tx_buf \in [Slots -> Nat]
DrvTypes == irq_enable \subseteq {"RE", "WE"} /\ host_inactive \in Nat /\ timeout \in Nat
IsrTypes ==
  /\ isr \in {"off", "control", "rx", "rxEnd", "tx"} /\ ravail \in BOOLEAN
  /\ control \in [RI : BOOLEAN, WI : BOOLEAN, space : 0 .. WriteDepth]
AppTypes ==
  /\ irqoff \in BOOLEAN /\ any \in BOOLEAN /\ nonblock \in BOOLEAN
  /\ pc \in {"idle", "cSpin"} \cup WritePlaces \cup ReadPlaces
  /\ seen \in Slots /\ n \in Slots /\ left \in Nat /\ word \subseteq {"RE", "WE"}
  /\ written \in Nat /\ got \in Seq(Nat)

LEMMA Groups ==
  TypeOK <=> HwTypes /\ HostTypes /\ RxTypes /\ TxTypes /\ DrvTypes /\ IsrTypes /\ AppTypes
  BY DEF TypeOK, HwTypes, HostTypes, RxTypes, TxTypes, DrvTypes, IsrTypes, AppTypes

LEMMA GroupsKept ==
  /\ HwTypes /\ UNCHANGED hw => HwTypes'
  /\ HostTypes /\ UNCHANGED hostVars => HostTypes'
  /\ RxTypes /\ UNCHANGED rx => RxTypes'
  /\ TxTypes /\ UNCHANGED tx => TxTypes'
  /\ DrvTypes /\ UNCHANGED drv => DrvTypes'
  /\ IsrTypes /\ UNCHANGED isrVars => IsrTypes'
  /\ AppTypes /\ UNCHANGED app => AppTypes'
<1>1. HwTypes /\ UNCHANGED hw => HwTypes'
  BY DEF HwTypes, hw
<1>2. HostTypes /\ UNCHANGED hostVars => HostTypes'
  BY DEF HostTypes, hostVars
<1>3. RxTypes /\ UNCHANGED rx => RxTypes'
  BY DEF RxTypes, rx, Slots
<1>4. TxTypes /\ UNCHANGED tx => TxTypes'
  BY DEF TxTypes, tx, Slots
<1>5. DrvTypes /\ UNCHANGED drv => DrvTypes'
  BY DEF DrvTypes, drv
<1>6. IsrTypes /\ UNCHANGED isrVars => IsrTypes'
  BY DEF IsrTypes, isrVars
<1>7. AppTypes /\ UNCHANGED app => AppTypes'
  BY DEF AppTypes, app, Slots, WritePlaces, ReadPlaces
<1> QED
  BY <1>1, <1>2, <1>3, <1>4, <1>5, <1>6, <1>7

LEMMA FifoTypes ==
  ASSUME NEW s \in Seq(Nat)
  PROVE  /\ Len(s) \in Nat
         /\ s # <<>> => /\ Head(s) \in Nat /\ Tail(s) \in Seq(Nat)
                        /\ Len(Tail(s)) = Len(s) - 1
         /\ \A x \in Nat : Append(s, x) \in Seq(Nat) /\ Len(Append(s, x)) = Len(s) + 1
  OBVIOUS

LEMMA GotoTypes ==
  ASSUME NEW to, Goto(to), n \in Slots, left \in Nat, any \in BOOLEAN, nonblock \in BOOLEAN
  PROVE  /\ pc' = to /\ n' \in Slots /\ left' \in Nat
         /\ any' \in BOOLEAN /\ nonblock' \in BOOLEAN
<1>1. pc' = to /\ 0 \in Slots
  BY SizeAssumption DEF Goto, Slots
<1>2. CASE to = "idle"
  <2>1. n' = 0 /\ left' = 0 /\ any' = FALSE /\ nonblock' = FALSE
    BY <1>2 DEF Goto
  <2> QED
    BY <1>1, <2>1
<1>3. CASE to # "idle"
  <2>1. n' = n /\ left' = left /\ any' = any /\ nonblock' = nonblock
    BY <1>3 DEF Goto
  <2>2. n' \in Slots /\ left' \in Nat
    BY <2>1
  <2>3. any' \in BOOLEAN /\ nonblock' \in BOOLEAN
    BY <2>1, Zenon
  <2> QED
    BY <1>1, <2>2, <2>3
<1> QED
  BY <1>2, <1>3

LEMMA TypeStep == IInv /\ [Next]_vars => TypeOK'
<1> SUFFICES ASSUME IInv, [Next]_vars
             PROVE  /\ HwTypes' /\ HostTypes' /\ RxTypes' /\ TxTypes'
                    /\ DrvTypes' /\ IsrTypes' /\ AppTypes'
  BY DEF TypeOK, HwTypes, HostTypes, RxTypes, TxTypes, DrvTypes, IsrTypes, AppTypes
<1> DEFINE Typed == HwTypes /\ HostTypes /\ RxTypes /\ TxTypes /\ DrvTypes /\ IsrTypes /\ AppTypes
<1>0. Typed
  BY Groups DEF IInv
<1> HIDE DEF Typed
<1>1. ASSUME UNCHANGED vars PROVE Typed'
  BY <1>0, <1>1, GroupsKept DEF vars, Typed
<1>2. ASSUME HostTake \/ HostType \/ HostPause \/ Plug PROVE Typed'
  <2>1. UNCHANGED <<rx, tx, drv, isrVars, app>>
    BY <1>2 DEF HostTake, HostType, HostPause, Plug
  <2>2. HwTypes' /\ HostTypes'
    <3>1. CASE HostTake
      <4>1. wfifo \in Seq(Nat) /\ wfifo # <<>> /\ Len(wfifo) <= WriteDepth /\ heard \in Seq(Nat)
        BY <1>0, <3>1 DEF Typed, HwTypes, HostTypes, HostTake
      <4>2. Tail(wfifo) \in Seq(Nat) /\ Len(Tail(wfifo)) <= WriteDepth /\ Append(heard, Head(wfifo)) \in Seq(Nat)
        BY <4>1, FifoTypes, SizeAssumption
      <4> QED
        BY <1>0, <3>1, <4>2 DEF Typed, HwTypes, HostTypes, HostTake
    <3>2. CASE HostType
      BY <1>0, <3>2, SizeAssumption DEF Typed, HwTypes, HostTypes, HostType
    <3>3. CASE HostPause
      BY <1>0, <3>3 DEF Typed, HwTypes, HostTypes, HostPause, hostVars
    <3>4. CASE Plug
      BY <1>0, <3>4 DEF Typed, HwTypes, HostTypes, Plug, hw
    <3> QED
      BY <1>2, <3>1, <3>2, <3>3, <3>4
  <2> QED
    BY <1>0, <2>1, <2>2, GroupsKept DEF Typed
<1>3. ASSUME Isr PROVE Typed'
  <2>1. UNCHANGED <<hostVars, host_inactive, timeout, app>>
    BY <1>3 DEF Isr, IsrStep, IsrEnter, IsrControl, IsrRxFull, IsrRxRead, IsrRxEnd, IsrTxWrite, IsrTxEnd
  <2>2. CASE IsrEnter \/ IsrControl \/ IsrRxFull
    <3>1. UNCHANGED <<hw, rx, tx, irq_enable>>
      BY <2>2 DEF IsrEnter, IsrControl, IsrRxFull
    <3>4. IsrTypes'
      <4>1. CASE IsrControl
        <5>1. WriteDepth - Len(wfifo) \in 0 .. WriteDepth
          BY <1>0, SizeAssumption DEF Typed, HwTypes
        <5>2. control' \in [RI : BOOLEAN, WI : BOOLEAN, space : 0 .. WriteDepth]
          BY <4>1, <5>1, SizeAssumption DEF IsrControl, NoControl, RI, WI
        <5>3. ravail' \in BOOLEAN /\ isr' \in {"rx", "tx", "off"}
          BY <4>1 DEF IsrControl, RI
        <5> QED
          BY <5>2, <5>3 DEF IsrTypes
      <4>2. CASE IsrEnter \/ IsrRxFull
        BY <1>0, <4>2 DEF Typed, IsrTypes, IsrEnter, IsrRxFull, IsrStep
      <4> QED
        BY <2>2, <4>1, <4>2
    <3> QED
      BY <1>0, <2>1, <3>1, <3>4, GroupsKept DEF Typed, drv
  <2>3. CASE IsrRxRead
    <3>1. UNCHANGED <<tx, irq_enable>>
      BY <2>3 DEF IsrRxRead
    <3>2. Advance(rx_in, 1) \in Slots
      BY <1>0, AdvanceInRing, SizeAssumption DEF Typed, RxTypes
    <3>3. HwTypes'
      <4>1. rfifo \in Seq(Nat) /\ Len(rfifo) <= ReadDepth
        BY <1>0 DEF Typed, HwTypes
      <4>2. rfifo' \in Seq(Nat) /\ Len(rfifo') <= ReadDepth
        <5>1. CASE rfifo = <<>>
          BY <2>3, <4>1, <5>1 DEF IsrRxRead, rx
        <5>2. CASE rfifo # <<>>
          <6>1. rfifo' = Tail(rfifo)
            BY <2>3, <5>2 DEF IsrRxRead
          <6> QED
            BY <4>1, <5>2, <6>1, FifoTypes, SizeAssumption
        <5> QED
          BY <5>1, <5>2
      <4> QED
        BY <1>0, <2>3, <4>2 DEF Typed, HwTypes, IsrRxRead
    <3>4. rfifo # <<>> => Head(rfifo) \in Nat
      BY <1>0 DEF Typed, HwTypes
    <3>5. RxTypes'
      BY <1>0, <2>3, <3>2, <3>4 DEF Typed, RxTypes, IsrRxRead, rx
    <3>6. IsrTypes'
      BY <1>0, <2>3 DEF Typed, IsrTypes, IsrRxRead, IsrStep
    <3> QED
      BY <1>0, <2>1, <3>1, <3>3, <3>5, <3>6, GroupsKept DEF Typed, drv
  <2>4. CASE IsrTxWrite
    <3>1. UNCHANGED <<rx, irq_enable>>
      BY <2>4 DEF IsrTxWrite
    <3>2. Advance(tx_out, 1) \in Slots
      BY <1>0, AdvanceInRing, SizeAssumption DEF Typed, TxTypes
    <3>3. tx_buf[tx_out] \in Nat
      BY <1>0 DEF Typed, TxTypes
    <3>4. HwTypes'
      <4>1. wfifo' \in Seq(Nat) /\ Len(wfifo') <= WriteDepth
        BY <1>0, <2>4, <3>3, FifoTypes, SizeAssumption DEF Typed, HwTypes, IsrTxWrite
      <4> QED
        BY <1>0, <2>4, <4>1 DEF Typed, HwTypes, IsrTxWrite
    <3>5. TxTypes'
      BY <1>0, <2>4, <3>2 DEF Typed, TxTypes, IsrTxWrite
    <3>6. control.space - 1 \in 0 .. WriteDepth
      <4>1. control.space \in 0 .. WriteDepth
        BY <1>0 DEF Typed, IsrTypes
      <4>2. control.space > 0
        BY <2>4 DEF IsrTxWrite
      <4> QED
        BY <4>1, <4>2, SizeAssumption
    <3>7. IsrTypes'
      BY <1>0, <2>4, <3>6 DEF Typed, IsrTypes, IsrTxWrite, IsrStep
    <3> QED
      BY <1>0, <2>1, <3>1, <3>4, <3>5, <3>7, GroupsKept DEF Typed, drv
  <2>5. CASE IsrRxEnd \/ IsrTxEnd
    <3>1. UNCHANGED <<rx, tx>>
      BY <2>5 DEF IsrRxEnd, IsrTxEnd
    <3>2. HwTypes' /\ DrvTypes'
      BY <1>0, <2>1, <2>5 DEF Typed, HwTypes, DrvTypes, IsrRxEnd, IsrTxEnd
    <3>3. NoControl \in [RI : BOOLEAN, WI : BOOLEAN, space : 0 .. WriteDepth]
      BY SizeAssumption DEF NoControl
    <3>4. IsrTypes'
      BY <1>0, <2>5, <3>3 DEF Typed, IsrTypes, IsrRxEnd, IsrTxEnd
    <3> QED
      BY <1>0, <2>1, <3>1, <3>2, <3>4, GroupsKept DEF Typed
  <2> QED
    BY <1>3, <2>2, <2>3, <2>4, <2>5 DEF Isr
<1>4. ASSUME Timeout PROVE Typed'
  <2>1. UNCHANGED <<hostVars, rx, tx, isrVars, app>>
    BY <1>4 DEF Timeout
  <2>2. HwTypes'
    BY <1>0, <1>4 DEF Typed, HwTypes, DrvTypes, Timeout
  <2>3. DrvTypes'
    <3>1. host_inactive' \in Nat
      BY <1>0, <1>4 DEF Typed, DrvTypes, Timeout
    <3> QED
      BY <1>0, <1>4, <3>1 DEF Typed, DrvTypes, Timeout
  <2> QED
    BY <1>0, <2>1, <2>2, <2>3, GroupsKept DEF Typed
<1>5. ASSUME CallIoctl PROVE Typed'
  <2>1. UNCHANGED <<hw, hostVars, rx, tx, isrVars, app>>
    BY <1>5 DEF CallIoctl, Run, hw
  <2>2. timeout' \in Nat
    BY <1>5, SizeAssumption DEF CallIoctl
  <2>3. DrvTypes'
    BY <1>0, <1>5, <2>2 DEF Typed, DrvTypes, CallIoctl, Run
  <2> QED
    BY <1>0, <2>1, <2>3, GroupsKept DEF Typed
<1>6. ASSUME CallWrite \/ CallRead \/ CallClose \/ Resume PROVE Typed'
  <2>1. UNCHANGED <<wfifo, rfifo, pause_irq, ac, hostVars, host_inactive, isrVars>>
    BY <1>6 DEF CallWrite, CallRead, CallClose, Call, Resume, Run, WTake, WCopy, WPublish, WKick, WStore,
         WSpin, WTest, RTake, RCopy, RPublish, RKick, RStore, RSpin, RTest, CSpin
  <2>2. CASE CallWrite \/ CallRead \/ CallClose
    <3>1. PICK place \in {"wTake", "rTake", "cSpin"}, k \in Nat, nb \in BOOLEAN : Call(place, k, nb)
      BY <2>2, SizeAssumption DEF CallWrite, CallRead, CallClose
    <3>2. UNCHANGED <<hw, rx, tx, drv>>
      BY <2>1, <3>1 DEF Call, NoStore, hw, drv
    <3>3. AppTypes'
      BY <1>0, <3>1 DEF Typed, AppTypes, Call, NoStore, WritePlaces, ReadPlaces
    <3> QED
      BY <1>0, <2>1, <3>2, <3>3, GroupsKept DEF Typed
  <2>3. CASE WTake \/ RTake
    <3>1. UNCHANGED <<hw, rx, tx, drv>> /\ UNCHANGED <<irqoff, word, written, got>>
      BY <2>1, <2>3 DEF WTake, RTake, NoStore, hw, drv
    <3>2. /\ rx_in \in Slots /\ rx_out \in Slots /\ tx_in \in Slots /\ tx_out \in Slots
          /\ left \in Nat /\ seen \in Slots /\ 0 \in Slots /\ n \in Slots
          /\ any \in BOOLEAN /\ nonblock \in BOOLEAN
      BY <1>0, SizeAssumption DEF Typed, RxTypes, TxTypes, AppTypes, Slots
    <3>3. Room(tx_in, tx_out) \in Slots /\ Filled(rx_in, rx_out) \in Slots
      <4>1. Held(tx_out, tx_in) \in 0 .. BufLen - 1 /\ Held(rx_out, rx_in) \in 0 .. BufLen - 1
        BY <3>2, HeldRange
      <4>2. /\ Room(tx_in, tx_out) \in 0 .. BufLen - 1 - Held(tx_out, tx_in)
            /\ Filled(rx_in, rx_out) \in 0 .. Held(rx_out, rx_in)
        BY <3>2, PieceSizes
      <4> QED
        BY <4>1, <4>2, SizeAssumption DEF Slots
    <3>4. AtMost(Room(tx_in, tx_out), left) \in Slots /\ AtMost(Filled(rx_in, rx_out), left) \in Slots
      BY <3>2, <3>3, SizeAssumption DEF AtMost, Slots
    <3>5. n' \in Slots /\ seen' \in Slots /\ left' \in Nat /\ any' \in BOOLEAN /\ nonblock' \in BOOLEAN
      <4>1. CASE WTake
        BY <4>1, <3>2, <3>4 DEF WTake
      <4>2. CASE RTake
        <5> DEFINE k == AtMost(Filled(rx_in, rx_out), left)
        <5>1. seen' \in Slots
          BY <4>2, <3>2 DEF RTake
        <5>2. CASE k > 0
          <6>1. n' = k /\ left' = left /\ any' = any /\ nonblock' = nonblock
            BY <4>2, <5>2 DEF RTake
          <6>2. any' \in BOOLEAN /\ nonblock' \in BOOLEAN
            BY <3>2, <6>1, Zenon
          <6> QED
            BY <3>2, <3>4, <5>1, <6>1, <6>2
        <5>3. CASE ~(k > 0)
          <6>1. PICK to \in {"rKick", "rSpin", "idle"} : Goto(to)
            BY <4>2, <5>3 DEF RTake
          <6> QED
            BY <3>2, <5>1, <6>1, GotoTypes
        <5> QED
          BY <5>2, <5>3
      <4> QED
        BY <2>3, <4>1, <4>2
    <3>6. pc' \in {"idle"} \cup WritePlaces \cup ReadPlaces
      BY <2>3 DEF WTake, RTake, Goto, WritePlaces, ReadPlaces
    <3>7. AppTypes'
      BY <1>0, <3>1, <3>5, <3>6 DEF Typed, AppTypes
    <3> QED
      BY <1>0, <2>1, <3>1, <3>7, GroupsKept DEF Typed
  <2>4. CASE WCopy
    <3>1. UNCHANGED <<hw, rx, drv, tx_in, tx_out>> /\ UNCHANGED <<irqoff, word, seen, n, any, nonblock, got>>
      BY <2>1, <2>4 DEF WCopy, NoStore, hw, drv, rx
    <3>2. /\ n \in Nat /\ left \in Nat /\ n <= left /\ written \in Nat
          /\ tx_buf \in [Slots -> Nat] /\ tx_in \in Nat /\ pc' = "wPublish"
      BY <1>0, <2>4, SizeAssumption DEF Typed, AppTypes, TxTypes, Slots, IInv, Blocks, WCopy, Run
    <3>3. tx_buf' \in [Slots -> Nat]
      BY <3>2, <2>4 DEF WCopy, Slots
    <3>4. left' \in Nat /\ written' \in Nat
      BY <3>2, <2>4 DEF WCopy
    <3>5. AppTypes' /\ TxTypes'
      BY <1>0, <3>1, <3>2, <3>3, <3>4 DEF Typed, AppTypes, TxTypes, WritePlaces
    <3> QED
      BY <1>0, <2>1, <3>1, <3>5, GroupsKept DEF Typed
  <2>5. CASE RCopy
    <3>1. UNCHANGED <<hw, rx, tx, drv>> /\ UNCHANGED <<irqoff, word, seen, n, nonblock, written>>
      BY <2>1, <2>5 DEF RCopy, NoStore, hw, drv
    <3>2. /\ n \in Nat /\ left \in Nat /\ n <= left /\ got \in Seq(Nat)
          /\ rx_buf \in [Slots -> Nat] /\ rx_out \in Nat /\ rx_out + n <= BufLen /\ pc' = "rPublish" /\ any' = TRUE
      BY <1>0, <2>5, SizeAssumption DEF Typed, AppTypes, RxTypes, Slots, IInv, Blocks, RCopy, Run
    <3>3. \A i \in 1 .. n : rx_buf[rx_out + i - 1] \in Nat
      BY <3>2, SizeAssumption DEF Slots
    <3>4. [i \in 1 .. n |-> rx_buf[rx_out + i - 1]] \in Seq(Nat)
      BY <3>2, <3>3
    <3>5. got' \in Seq(Nat)
      BY <3>2, <3>4, <2>5 DEF RCopy
    <3>6. left' \in Nat
      BY <3>2, <2>5 DEF RCopy
    <3>7. AppTypes'
      BY <1>0, <3>1, <3>2, <3>5, <3>6 DEF Typed, AppTypes, ReadPlaces
    <3> QED
      BY <1>0, <2>1, <3>1, <3>7, GroupsKept DEF Typed
  <2>6. CASE WPublish \/ RPublish
    <3>1. UNCHANGED <<hw, drv>> /\ UNCHANGED <<irqoff, word, seen, left, any, nonblock, written, got>>
      BY <2>1, <2>6 DEF WPublish, RPublish, NoStore, hw, drv
    <3>2. n \in 0 .. BufLen
      BY <1>0, SizeAssumption DEF Typed, AppTypes, Slots
    <3>3. TxTypes'
      BY <1>0, <2>6, <3>2, AdvanceInRing DEF Typed, TxTypes, WPublish, RPublish, tx
    <3>4. RxTypes'
      BY <1>0, <2>6, <3>2, AdvanceInRing DEF Typed, RxTypes, WPublish, RPublish, rx
    <3>5. n' \in Slots /\ pc' \in {"wTake", "rTake", "rKick"}
      BY <2>6, SizeAssumption DEF WPublish, RPublish, Slots
    <3>6. AppTypes'
      BY <1>0, <3>1, <3>5 DEF Typed, AppTypes, WritePlaces, ReadPlaces
    <3> QED
      BY <1>0, <2>1, <3>1, <3>3, <3>4, <3>6, GroupsKept DEF Typed
  <2>7. CASE WKick \/ RKick \/ WStore \/ RStore
    <3>1. UNCHANGED <<rx, tx, timeout>> /\ UNCHANGED <<seen, written, got>>
      BY <2>7 DEF WKick, RKick, WStore, RStore, Kick, Store
    <3>2. /\ n' \in Slots /\ left' \in Nat /\ any' \in BOOLEAN /\ nonblock' \in BOOLEAN /\ irqoff' \in BOOLEAN
          /\ word' \subseteq {"RE", "WE"} /\ pc' \in {"idle", "wStore", "rStore", "wSpin"}
      <4>1. n \in Slots /\ left \in Nat /\ any \in BOOLEAN /\ nonblock \in BOOLEAN /\ 0 \in Slots
        BY <1>0, SizeAssumption DEF Typed, AppTypes, Slots
      <4>2. n' \in Slots /\ left' \in Nat /\ any' \in BOOLEAN /\ nonblock' \in BOOLEAN
        BY <2>7, <4>1, GotoTypes DEF WKick, RKick, WStore, RStore
      <4>3. irqoff' \in BOOLEAN
        BY <2>7 DEF WKick, RKick, WStore, RStore, Kick, Store
      <4>4. word' \subseteq {"RE", "WE"}
        BY <1>0, <2>7 DEF Typed, DrvTypes, WKick, RKick, WStore, RStore, Kick, Store
      <4>5. pc' \in {"idle", "wStore", "rStore", "wSpin"}
        BY <2>7 DEF WKick, RKick, WStore, RStore, Goto
      <4> QED
        BY <4>2, <4>3, <4>4, <4>5
    <3>3. AppTypes'
      BY <1>0, <3>1, <3>2 DEF Typed, AppTypes, WritePlaces, ReadPlaces
    <3>4. ien' \subseteq {"RE", "WE"} /\ irq_enable' \subseteq {"RE", "WE"}
      BY <1>0, <2>7 DEF Typed, HwTypes, DrvTypes, AppTypes, WKick, RKick, WStore, RStore, Kick, Store
    <3>5. HwTypes' /\ DrvTypes'
      BY <1>0, <2>1, <3>1, <3>4 DEF Typed, HwTypes, DrvTypes
    <3> QED
      BY <1>0, <2>1, <3>1, <3>3, <3>5, GroupsKept DEF Typed
  <2>8. CASE WSpin \/ WTest \/ RSpin \/ RTest \/ CSpin
    <3>1. seen \in Slots /\ 0 \in Slots /\ n \in Slots /\ left \in Nat /\ any \in BOOLEAN /\ nonblock \in BOOLEAN
      BY <1>0, SizeAssumption DEF Typed, AppTypes, Slots
    <3>2. PICK to \in {"idle", "wTest", "wTake", "rTest", "rTake"}, still \in Slots : Leave(to, still)
      BY <2>8, <3>1 DEF WSpin, WTest, RSpin, RTest, CSpin
    <3>3. UNCHANGED <<hw, rx, tx, drv>> /\ UNCHANGED <<irqoff, word, written, got>>
      BY <2>1, <3>2 DEF Leave, NoStore, hw, drv
    <3>4. n' \in Slots /\ left' \in Nat /\ any' \in BOOLEAN /\ nonblock' \in BOOLEAN
      BY <3>1, <3>2, GotoTypes DEF Leave
    <3>5. pc' = to /\ seen' = still
      BY <3>2 DEF Leave, Goto
    <3>6. AppTypes'
      BY <1>0, <3>3, <3>4, <3>5 DEF Typed, AppTypes, WritePlaces, ReadPlaces
    <3> QED
      BY <1>0, <2>1, <3>3, <3>6, GroupsKept DEF Typed
  <2> QED
    BY <1>6, <2>2, <2>3, <2>4, <2>5, <2>6, <2>7, <2>8 DEF Resume
<1> QED
  BY <1>1, <1>2, <1>3, <1>4, <1>5, <1>6 DEF Typed, Next

-----------------------------------------------------------------------------
(* The application's steps by what they leave alone. *)

Calls == CallWrite \/ CallRead \/ CallClose \/ CallIoctl
Waits == WSpin \/ WTest \/ RSpin \/ RTest \/ CSpin
Storing == WKick \/ RKick \/ WStore \/ RStore
Moving == WTake \/ WCopy \/ WPublish \/ RTake \/ RCopy \/ RPublish
Outside == HostTake \/ HostType \/ HostPause \/ Plug

LEMMA StepKinds ==
  [Next]_vars =>
    Outside \/ Isr \/ Timeout \/ Calls \/ Waits \/ Storing \/ Moving \/ UNCHANGED vars
  BY DEF Next, Resume, Calls, Waits, Storing, Moving, Outside

LEMMA OutsideKeeps ==
  Outside => UNCHANGED <<ien, rx, tx, drv, isrVars, app>>
  BY DEF Outside, HostTake, HostType, HostPause, Plug, hw

LEMMA IsrKeeps ==
  Isr => /\ isr = "off" => ~irqoff
         /\ UNCHANGED <<hostVars, host_inactive, timeout, app>>
<1>1. Isr => UNCHANGED <<hostVars, host_inactive, timeout, app>>
  BY DEF Isr, IsrEnter, IsrControl, IsrRxFull, IsrRxRead, IsrRxEnd, IsrTxWrite, IsrTxEnd, IsrStep
<1>2. Isr /\ isr = "off" => ~irqoff
  BY DEF Isr, IsrEnter, IsrControl, IsrRxFull, IsrRxRead, IsrRxEnd, IsrTxWrite, IsrTxEnd, IsrStep
<1> QED
  BY <1>1, <1>2

LEMMA AppKeeps ==
  Calls \/ Waits \/ Storing \/ Moving =>
    isr = "off" /\ UNCHANGED <<wfifo, rfifo, pause_irq, ac, hostVars, host_inactive, isrVars>>
  BY DEF Calls, Waits, Storing, Moving, CallWrite, CallRead, CallClose, Call, CallIoctl, Run, WTake,
     WCopy, WPublish, WKick, WStore, WSpin, WTest, RTake, RCopy, RPublish, RKick, RStore, RSpin, RTest, CSpin

LEMMA CallsKeep ==
  ASSUME Calls
  PROVE  /\ pc = "idle" /\ pc' \in {"idle", "wTake", "rTake", "cSpin"}
         /\ pc' = "rTake" => left' > 0
         /\ UNCHANGED <<ien, irq_enable, irqoff, word, rx, tx, written, got>>
<1>1. CASE CallIoctl
  BY <1>1 DEF CallIoctl, Run, app
<1>2. CASE CallWrite \/ CallRead \/ CallClose
  <2>1. PICK place \in {"wTake", "rTake", "cSpin"}, k \in Nat, nb \in BOOLEAN :
          Call(place, k, nb) /\ (place = "rTake" => k > 0)
    BY <1>2, SizeAssumption DEF CallWrite, CallRead, CallClose
  <2> QED
    BY <2>1 DEF Call, Run, NoStore
<1> QED
  BY <1>1, <1>2 DEF Calls

LEMMA WaitsKeep ==
  ASSUME Waits
  PROVE  /\ pc \in {"wSpin", "wTest", "rSpin", "rTest", "cSpin"}
         /\ pc' \in {"idle", "wTest", "wTake", "rTest", "rTake"}
         /\ pc' \in {"rTest", "rTake"} => pc \in {"rSpin", "rTest"} /\ left' = left
         /\ UNCHANGED <<ien, irq_enable, irqoff, word, rx, tx, written, got>>
  BY DEF Waits, WSpin, WTest, RSpin, RTest, CSpin, Run, Leave, NoStore, Goto

-----------------------------------------------------------------------------
(* The interrupt enables. *)

LEMMA EnablesStep == IInv /\ [Next]_vars => Enables'
<1> SUFFICES ASSUME IInv, [Next]_vars PROVE Enables'
  OBVIOUS
<1>1. /\ ien = irq_enable /\ (irqoff <=> pc \in {"wStore", "rStore"})
      /\ irqoff => isr = "off" /\ irq_enable \subseteq word
      /\ pc = "wStore" => "WE" \in word
      /\ pc = "rStore" => "RE" \in word
  BY DEF IInv, Enables
<1>2. CASE UNCHANGED <<ien, irq_enable, irqoff, isr, pc, word>>
  BY <1>1, <1>2 DEF Enables
<1>3. CASE Isr
  <2>1. UNCHANGED <<irqoff, pc, word>> /\ ~irqoff
    BY <1>1, <1>3, IsrKeeps DEF app, Isr, IsrEnter, IsrControl, IsrRxFull, IsrRxRead, IsrRxEnd, IsrTxWrite, IsrTxEnd, IsrStep
  <2>2. ien' = irq_enable'
    BY <1>1, <1>3 DEF Isr, IsrEnter, IsrControl, IsrRxFull, IsrRxRead, IsrRxEnd, IsrTxWrite, IsrTxEnd, hw
  <2> QED
    BY <1>1, <2>1, <2>2 DEF Enables
<1>4. CASE Timeout
  BY <1>1, <1>4 DEF Enables, Timeout, app, isrVars
<1>5. CASE Calls \/ Waits \/ Moving
  <2>1. UNCHANGED <<ien, irq_enable, irqoff, word, isr>>
    BY <1>5, AppKeeps, CallsKeep, WaitsKeep DEF isrVars, Moving, NoStore, WTake, WCopy, WPublish, RTake, RCopy, RPublish
  <2>2. pc \notin {"wStore", "rStore"} /\ pc' \notin {"wStore", "rStore"}
    <3>1. CASE Moving
      BY <3>1 DEF Moving, WTake, WCopy, WPublish, RTake, RCopy, RPublish, Run, Goto
    <3> QED
      BY <1>5, <3>1, CallsKeep, WaitsKeep
  <2> QED
    BY <1>1, <2>1, <2>2 DEF Enables
<1>6. CASE Storing
  <2>1. isr = "off" /\ isr' = "off"
    BY <1>6, AppKeeps DEF isrVars
  <2>2. CASE WKick \/ RKick
    BY <1>1, <2>1, <2>2 DEF Enables, WKick, RKick, Kick, Goto
  <2>3. CASE WStore \/ RStore
    BY <1>1, <2>1, <2>3 DEF Enables, WStore, RStore, Store, Goto
  <2> QED
    BY <1>6, <2>2, <2>3 DEF Storing
<1> QED
  BY <1>2, <1>3, <1>4, <1>5, <1>6, StepKinds, OutsideKeeps DEF vars, hw, drv, app, isrVars

-----------------------------------------------------------------------------
(* The interrupt routine. *)

LEMMA RoutineStep == IInv /\ [Next]_vars => RoutineInv'
<1> SUFFICES ASSUME IInv, [Next]_vars PROVE RoutineInv'
  OBVIOUS
<1>1. /\ wfifo \in Seq(Nat) /\ Len(wfifo) \in Nat /\ WriteDepth \in Nat
      /\ control \in [RI : BOOLEAN, WI : BOOLEAN, space : 0 .. WriteDepth]
      /\ control.space + Len(wfifo) <= WriteDepth
      /\ Len(wfifo) <= WriteDepth
      /\ isr = "rxEnd" /\ ravail => Advance(rx_in, 1) = rx_out
  BY SizeAssumption DEF IInv, RoutineInv, TypeOK
<1>2. CASE UNCHANGED <<wfifo, isrVars, rx>>
  BY <1>1, <1>2 DEF RoutineInv, isrVars, rx, Advance
<1>3. CASE isr' = "off" /\ UNCHANGED <<wfifo, isrVars>>
  BY <1>1, <1>3 DEF RoutineInv, isrVars
<1>4. CASE HostTake
  <2>1. Len(wfifo') = Len(wfifo) - 1 /\ UNCHANGED <<isrVars, rx>>
    BY <1>1, <1>4, FifoTypes DEF HostTake
  <2> QED
    BY <1>1, <2>1 DEF RoutineInv, isrVars, rx, Advance
<1>5. CASE Isr
  <2>1. CASE IsrEnter \/ IsrRxFull
    BY <1>1, <2>1 DEF RoutineInv, IsrEnter, IsrRxFull, IsrStep, hw, rx, Advance
  <2>2. CASE IsrControl
    <3>1. isr' # "rxEnd" /\ wfifo' = wfifo /\ control'.space <= WriteDepth - Len(wfifo)
      BY <1>1, <2>2 DEF IsrControl, NoControl, hw
    <3>2. control'.space \in Nat
      BY <1>1, <2>2 DEF IsrControl, NoControl
    <3> QED
      BY <1>1, <3>1, <3>2 DEF RoutineInv
  <2>3. CASE IsrRxRead
    BY <1>1, <2>3 DEF RoutineInv, IsrRxRead, IsrStep
  <2>4. CASE IsrRxEnd \/ IsrTxEnd
    BY <1>1, <2>4 DEF RoutineInv, IsrRxEnd, IsrTxEnd, NoControl
  <2>5. CASE IsrTxWrite
    <3>1. /\ isr' = "tx" /\ control'.space = control.space - 1 /\ control.space > 0
          /\ wfifo' = Append(wfifo, tx_buf[tx_out])
      BY <1>1, <2>5 DEF IsrTxWrite, IsrStep
    <3>2. Len(wfifo') = Len(wfifo) + 1
      BY <1>1, <3>1
    <3> QED
      BY <1>1, <3>1, <3>2 DEF RoutineInv
  <2> QED
    BY <1>5, <2>1, <2>2, <2>3, <2>4, <2>5 DEF Isr
<1>6. CASE HostType \/ HostPause \/ Plug \/ Timeout
  BY <1>2, <1>6 DEF HostType, HostPause, Plug, Timeout, hw
<1>7. CASE Calls \/ Waits \/ Storing \/ Moving
  BY <1>3, <1>7, AppKeeps DEF isrVars
<1>8. CASE UNCHANGED vars
  BY <1>2, <1>8 DEF vars, hw
<1> QED
  BY <1>4, <1>5, <1>6, <1>7, <1>8, StepKinds DEF Outside

-----------------------------------------------------------------------------
(* Blocks in transit. *)

\* What the routine does to the buffers: it takes away from the transmit
\* buffer and adds to the receive buffer, a character at a time.
LEMMA IsrBuffers ==
  ASSUME IInv, Isr
  PROVE  /\ tx_in' = tx_in /\ rx_out' = rx_out
         /\ Held(tx_out', tx_in') <= Held(tx_out, tx_in)
         /\ Held(rx_out', rx_in') >= Held(rx_out, rx_in)
         /\ tx_in' # tx_out' => tx_in # tx_out
<1>1. rx_in \in Slots /\ rx_out \in Slots /\ tx_in \in Slots /\ tx_out \in Slots /\ 1 \in 0 .. BufLen
  BY SizeAssumption DEF IInv, TypeOK
<1>2. Held(rx_out, rx_in) \in 0 .. BufLen - 1 /\ Held(tx_out, tx_in) \in 0 .. BufLen - 1 /\ BufLen \in Nat
  BY <1>1, HeldRange, SizeAssumption
<1>3. CASE UNCHANGED <<rx, tx>>
  BY <1>2, <1>3 DEF rx, tx, Held
<1>4. CASE IsrRxRead
  <2>1. UNCHANGED tx /\ rx_out' = rx_out /\ Advance(rx_in, 1) # rx_out
    BY <1>4 DEF IsrRxRead, rx
  <2>2. rx_in' = rx_in \/ rx_in' = Advance(rx_in, 1)
    BY <1>4 DEF IsrRxRead, rx
  <2>3. Held(rx_out, Advance(rx_in, 1)) = Held(rx_out, rx_in) + 1
    BY <1>1, <1>2, <2>1, FullRing, HeldMore
  <2> QED
    BY <1>2, <2>1, <2>2, <2>3 DEF tx
<1>5. CASE IsrTxWrite
  <2>1. UNCHANGED rx /\ tx_in' = tx_in /\ tx_out' = Advance(tx_out, 1) /\ tx_out # tx_in
    BY <1>5 DEF IsrTxWrite
  <2>2. Held(tx_out, tx_in) # 0
    BY <1>1, <2>1, HeldRange
  <2>3. Held(Advance(tx_out, 1), tx_in) = Held(tx_out, tx_in) - 1
    BY <1>1, <1>2, <2>2, HeldLess
  <2> QED
    BY <1>2, <2>1, <2>3 DEF rx
<1>6. CASE ~IsrRxRead /\ ~IsrTxWrite
  BY <1>3, <1>6 DEF Isr, IsrEnter, IsrControl, IsrRxFull, IsrRxEnd, IsrTxEnd
<1> QED
  BY <1>4, <1>5, <1>6

LEMMA BlocksStep == IInv /\ [Next]_vars => Blocks'
<1> SUFFICES ASSUME IInv, [Next]_vars PROVE Blocks'
  OBVIOUS
<1>1. /\ rx_in \in Slots /\ rx_out \in Slots /\ tx_in \in Slots /\ tx_out \in Slots
      /\ n \in Slots /\ left \in Nat /\ BufLen \in Nat \ {0}
  BY SizeAssumption DEF IInv, TypeOK
<1>2. Held(rx_out, rx_in) \in 0 .. BufLen - 1 /\ Held(tx_out, tx_in) \in 0 .. BufLen - 1
  BY <1>1, HeldRange
<1>3. /\ pc \in {"wCopy", "wPublish"} => n \in 1 .. Free /\ tx_in + n <= BufLen
      /\ pc \in {"rCopy", "rPublish"} => n \in 1 .. Held(rx_out, rx_in) /\ rx_out + n <= BufLen
      /\ pc \in {"wCopy", "rCopy"} => n <= left
      /\ pc \in {"rTake", "rSpin", "rTest"} => left > 0
      /\ pc = "rPublish" => any
  BY DEF IInv, Blocks
<1>4. CASE UNCHANGED <<pc, n, left, any, rx, tx>>
  BY <1>3, <1>4 DEF Blocks, rx, tx, Free, Held
<1>5. CASE Isr
  <2>1. /\ tx_in' = tx_in /\ rx_out' = rx_out
        /\ Held(tx_out', tx_in') <= Held(tx_out, tx_in)
        /\ Held(rx_out', rx_in') >= Held(rx_out, rx_in)
    BY <1>5, IsrBuffers
  <2>2. UNCHANGED <<pc, n, left, any>>
    BY <1>5, IsrKeeps DEF app
  <2>3. tx_out' \in Slots /\ rx_in' \in Slots
    BY TypeStep DEF TypeOK
  <2>4. Held(rx_out', rx_in') \in 0 .. BufLen - 1 /\ Held(tx_out', tx_in') \in 0 .. BufLen - 1
    BY <1>1, <2>1, <2>3, HeldRange
  <2>5. pc \in {"wCopy", "wPublish"} => n \in 1 .. Free'
    BY <1>1, <1>2, <1>3, <2>1, <2>4 DEF Free
  <2>6. pc \in {"rCopy", "rPublish"} => n \in 1 .. Held(rx_out', rx_in')
    BY <1>1, <1>2, <1>3, <2>1, <2>4
  <2> QED
    BY <1>3, <2>1, <2>2, <2>5, <2>6 DEF Blocks
<1>6. CASE Calls \/ Waits
  <2>1. pc' \in {"idle", "wTake", "rTake", "cSpin", "wTest", "rTest"}
    BY <1>6, CallsKeep, WaitsKeep
  <2>2. pc' \in {"rTake", "rTest"} => left' > 0
    BY <1>1, <1>3, <1>6, CallsKeep, WaitsKeep
  <2> QED
    BY <2>1, <2>2 DEF Blocks
<1>7. CASE Storing
  <2>1. pc' \in {"idle", "wStore", "rStore", "wSpin"}
    BY <1>7 DEF Storing, WKick, RKick, WStore, RStore, Goto
  <2> QED
    BY <2>1 DEF Blocks
<1>8. CASE Moving
  <2>1. CASE WTake
    <3>1. Room(tx_in, tx_out) \in 0 .. Free /\ tx_in + Room(tx_in, tx_out) <= BufLen
      BY <1>1, PieceSizes DEF Free
    <3>2. UNCHANGED <<tx, left>> /\ n' = AtMost(Room(tx_in, tx_out), left)
      BY <2>1 DEF WTake
    <3>3. n' \in 0 .. Free /\ tx_in + n' <= BufLen /\ n' <= left
      BY <1>1, <1>2, <3>1, <3>2 DEF AtMost, Slots, Free
    <3>4. pc' = "wKick" \/ (pc' = "wCopy" /\ n' # 0)
      BY <2>1 DEF WTake
    <3>5. Free' = Free /\ tx_in' = tx_in /\ left' = left
      BY <3>2 DEF tx, Free, Held
    <3>6. pc' = "wCopy" => n' \in 1 .. Free' /\ tx_in' + n' <= BufLen /\ n' <= left'
      BY <1>1, <1>2, <3>3, <3>4, <3>5 DEF Free
    <3> QED
      BY <3>4, <3>6 DEF Blocks
  <2>2. CASE WCopy
    <3>1. pc = "wCopy" /\ pc' = "wPublish" /\ UNCHANGED <<tx_in, tx_out, n>>
      BY <2>2 DEF WCopy, Run
    <3> QED
      BY <1>3, <3>1 DEF Blocks, Free, Held
  <2>3. CASE RTake
    <3> DEFINE k == AtMost(Filled(rx_in, rx_out), left)
    <3>1. /\ Filled(rx_in, rx_out) \in 0 .. Held(rx_out, rx_in)
          /\ rx_out + Filled(rx_in, rx_out) <= BufLen
      BY <1>1, PieceSizes
    <3>2. k \in 0 .. Held(rx_out, rx_in) /\ rx_out + k <= BufLen /\ k <= left
      BY <1>1, <1>2, <3>1 DEF AtMost, Slots
    <3>3. pc = "rTake" /\ UNCHANGED rx
      BY <2>3 DEF RTake, Run
    <3>4. CASE k > 0
      <4>1. pc' = "rCopy" /\ n' = k /\ left' = left
        BY <2>3, <3>4 DEF RTake
      <4>2. k \in 1 .. Held(rx_out, rx_in)
        BY <1>2, <3>2, <3>4
      <4> QED
        BY <3>2, <3>3, <4>1, <4>2 DEF Blocks, rx, Held
    <3>5. CASE ~(k > 0)
      <4>1. pc' \in {"rKick", "rSpin", "idle"} /\ (pc' = "rSpin" => left' = left)
        BY <2>3, <3>5 DEF RTake, Goto
      <4> QED
        BY <1>3, <3>3, <4>1 DEF Blocks
    <3> QED
      BY <3>4, <3>5
  <2>4. CASE RCopy
    <3>1. pc = "rCopy" /\ pc' = "rPublish" /\ any' = TRUE /\ UNCHANGED <<rx, n>>
      BY <2>4 DEF RCopy, Run
    <3> QED
      BY <1>3, <3>1 DEF Blocks, rx, Held
  <2>5. CASE WPublish \/ RPublish
    <3>1. pc' \in {"wTake", "rTake", "rKick"} /\ (pc' = "rTake" => left' > 0)
      BY <2>5 DEF WPublish, RPublish
    <3> QED
      BY <3>1 DEF Blocks
  <2> QED
    BY <1>8, <2>1, <2>2, <2>3, <2>4, <2>5 DEF Moving
<1> QED
  BY <1>4, <1>5, <1>6, <1>7, <1>8, StepKinds, OutsideKeeps DEF vars, app, Timeout

-----------------------------------------------------------------------------
(* Wake-ups. *)

Filling == {"wTake", "wCopy", "wPublish", "wKick", "wStore"}
Emptying == {"rTake", "rPublish", "rKick", "rStore"}

\* What the application's steps do to the buffers, as far as wake-ups go.
LEMMA TransmitWake ==
  ASSUME IInv, [Next]_vars
  PROVE  tx_in' # tx_out' /\ "WE" \notin ien' => pc' \in Filling
<1>1. tx_in # tx_out /\ "WE" \notin ien => pc \in Filling
  BY DEF IInv, NoLostWakeup, Filling
<1>2. /\ ien = irq_enable /\ (irqoff => irq_enable \subseteq word)
      /\ pc = "wStore" => "WE" \in word
      /\ irqoff <=> pc \in {"wStore", "rStore"}
  BY DEF IInv, Enables
<1>3. CASE UNCHANGED <<ien, tx, pc>>
  BY <1>1, <1>3 DEF tx
<1>4. CASE Isr
  <2>1. pc' = pc
    BY <1>4, IsrKeeps DEF app
  <2>2. tx_in' # tx_out' => tx_in # tx_out
    BY <1>4, IsrBuffers
  <2>3. "WE" \notin ien' => "WE" \notin ien \/ tx_in' = tx_out'
    <3>1. CASE IsrTxEnd
      <4>1. CASE control.space > 0
        BY <3>1, <4>1 DEF IsrTxEnd, tx
      <4>2. CASE ~(control.space > 0)
        BY <3>1, <4>2 DEF IsrTxEnd
      <4> QED
        BY <4>1, <4>2
    <3>2. CASE IsrRxEnd
      BY <1>2, <3>2 DEF IsrRxEnd
    <3>3. CASE ~IsrTxEnd /\ ~IsrRxEnd
      BY <1>4, <3>3 DEF Isr, IsrEnter, IsrControl, IsrRxFull, IsrRxRead, IsrTxWrite, hw
    <3> QED
      BY <3>1, <3>2, <3>3
  <2> QED
    BY <1>1, <2>1, <2>2, <2>3
<1>5. CASE Timeout
  <2>1. ien' = ien /\ UNCHANGED <<tx, pc>>
    BY <1>2, <1>5 DEF Timeout, app
  <2> QED
    BY <1>3, <2>1
<1>6. CASE Calls \/ Waits
  BY <1>1, <1>6, CallsKeep, WaitsKeep DEF tx, Filling
<1>7. CASE Storing
  <2>1. UNCHANGED tx
    BY <1>7 DEF Storing, WKick, RKick, WStore, RStore, Kick, Store
  <2>2. CASE WKick
    BY <2>2 DEF WKick, Goto, Filling
  <2>3. CASE RKick
    BY <1>1, <2>1, <2>3 DEF RKick, Kick, Run, Filling, tx
  <2>4. CASE WStore
    BY <1>2, <2>4 DEF WStore, Store, Run
  <2>5. CASE RStore
    <3>1. ien' = word /\ pc = "rStore" /\ ien \subseteq ien'
      BY <1>2, <2>5 DEF RStore, Store, Run
    <3> QED
      BY <1>1, <2>1, <3>1 DEF Filling, tx
  <2> QED
    BY <1>7, <2>2, <2>3, <2>4, <2>5 DEF Storing
<1>8. CASE Moving
  <2>1. CASE WTake \/ WCopy \/ WPublish
    BY <2>1 DEF WTake, WCopy, WPublish, Filling
  <2>2. CASE RTake \/ RCopy \/ RPublish
    <3>1. ien' = ien /\ UNCHANGED tx /\ pc \in {"rTake", "rCopy", "rPublish"}
      BY <2>2 DEF RTake, RCopy, RPublish, Run, NoStore
    <3> QED
      BY <1>1, <3>1 DEF Filling, tx
  <2> QED
    BY <1>8, <2>1, <2>2 DEF Moving
<1> QED
  BY <1>3, <1>4, <1>5, <1>6, <1>7, <1>8, StepKinds, OutsideKeeps DEF vars, app, hw

LEMMA ReceiveWake ==
  ASSUME IInv, [Next]_vars
  PROVE  "RE" \notin ien' => Held(rx_out', rx_in') > Unreleased' \/ (any' /\ pc' \in Emptying)
<1>1. "RE" \notin ien => Held(rx_out, rx_in) > Unreleased \/ (any /\ pc \in Emptying)
  BY DEF IInv, NoLostWakeup, Emptying
<1>2. /\ ien = irq_enable /\ (irqoff => irq_enable \subseteq word)
      /\ pc = "rStore" => "RE" \in word
      /\ irqoff <=> pc \in {"wStore", "rStore"}
  BY DEF IInv, Enables
<1>3. /\ rx_in \in Slots /\ rx_out \in Slots /\ n \in Slots /\ left \in Nat
      /\ BufLen \in Nat \ {0, 1} /\ any \in BOOLEAN
  BY SizeAssumption DEF IInv, TypeOK
<1>4. Held(rx_out, rx_in) \in 0 .. BufLen - 1
  BY <1>3, HeldRange
<1>5. CASE UNCHANGED <<ien, rx, pc, n, any>>
  BY <1>1, <1>5 DEF rx, Held, Unreleased
<1>6. CASE Isr
  <2>1. UNCHANGED <<pc, n, any>>
    BY <1>6, IsrKeeps DEF app
  <2>2. rx_out' = rx_out /\ Held(rx_out', rx_in') >= Held(rx_out, rx_in)
    BY <1>6, IsrBuffers
  <2>3. rx_in' \in Slots /\ rx_out' \in Slots
    BY TypeStep DEF TypeOK
  <2>4. Held(rx_out', rx_in') \in 0 .. BufLen - 1
    BY <2>3, HeldRange
  <2>5. Unreleased' = Unreleased /\ Unreleased \in Nat
    BY <1>3, <2>1 DEF Unreleased, Slots
  <2>6. CASE "RE" \notin ien
    BY <1>1, <1>4, <2>1, <2>2, <2>4, <2>5, <2>6
  <2>7. CASE "RE" \in ien /\ "RE" \notin ien'
    <3>1. IsrRxEnd /\ ravail
      <4>1. CASE IsrTxEnd
        BY <1>2, <2>7, <4>1 DEF IsrTxEnd
      <4>2. CASE IsrRxEnd
        BY <1>2, <2>7, <4>2 DEF IsrRxEnd
      <4>3. CASE ~IsrTxEnd /\ ~IsrRxEnd
        BY <1>6, <2>7, <4>3 DEF Isr, IsrEnter, IsrControl, IsrRxFull, IsrRxRead, IsrTxWrite, hw
      <4> QED
        BY <4>1, <4>2, <4>3
    <3>2. Advance(rx_in, 1) = rx_out /\ UNCHANGED rx
      BY <3>1 DEF IsrRxEnd, IsrStep, IInv, RoutineInv
    <3>3. Held(rx_out', rx_in') = BufLen - 1
      BY <1>3, <3>2, FullRing DEF rx, Held
    <3>4. CASE pc = "rPublish"
      <4>1. any
        BY <3>4 DEF IInv, Blocks
      <4> QED
        BY <2>1, <3>4, <4>1 DEF Emptying
    <3>5. CASE pc # "rPublish"
      <4>1. Unreleased' = 0
        BY <2>1, <3>5 DEF Unreleased
      <4> QED
        BY <1>3, <3>3, <4>1
    <3> QED
      BY <3>4, <3>5
  <2> QED
    BY <2>6, <2>7
<1>7. CASE Timeout
  <2>1. ien' = ien /\ UNCHANGED <<rx, pc, n, any>>
    BY <1>2, <1>7 DEF Timeout, app
  <2> QED
    BY <1>5, <2>1
<1>8. CASE Calls \/ Waits
  <2>1. UNCHANGED <<ien, rx>> /\ pc' # "rPublish" /\ (pc \notin Emptying)
    BY <1>8, CallsKeep, WaitsKeep DEF Emptying
  <2> QED
    BY <1>1, <2>1 DEF rx, Held, Unreleased, Emptying
<1>9. CASE Storing
  <2>1. UNCHANGED rx
    BY <1>9 DEF Storing, WKick, RKick, WStore, RStore, Kick, Store
  <2>2. CASE RKick
    <3>1. ien' = ien /\ pc = "rKick" /\ pc' = "rStore" /\ any' = any
      BY <2>2 DEF RKick, Kick, Run, Goto
    <3> QED
      BY <1>1, <2>1, <3>1 DEF rx, Held, Unreleased, Emptying
  <2>3. CASE WKick
    <3>1. ien' = ien /\ pc = "wKick" /\ pc' = "wStore"
      BY <2>3 DEF WKick, Kick, Run, Goto
    <3> QED
      BY <1>1, <2>1, <3>1 DEF rx, Held, Unreleased, Emptying
  <2>4. CASE RStore
    BY <1>2, <2>4 DEF RStore, Store, Run
  <2>5. CASE WStore
    <3>1. ien' = word /\ pc = "wStore" /\ ien \subseteq ien' /\ pc' \in {"idle", "wSpin"}
      BY <1>2, <2>5 DEF WStore, Store, Run, Goto
    <3> QED
      BY <1>1, <2>1, <3>1 DEF rx, Held, Unreleased, Emptying
  <2> QED
    BY <1>9, <2>2, <2>3, <2>4, <2>5 DEF Storing
<1>10. CASE Moving
  <2>1. ien' = ien
    BY <1>10 DEF Moving, WTake, WCopy, WPublish, RTake, RCopy, RPublish, NoStore
  <2>2. CASE WTake \/ WCopy \/ WPublish
    <3>1. UNCHANGED rx /\ pc \in {"wTake", "wCopy", "wPublish"} /\ pc' # "rPublish"
      BY <2>2 DEF WTake, WCopy, WPublish, Run
    <3> QED
      BY <1>1, <2>1, <3>1 DEF rx, Held, Unreleased, Emptying
  <2>3. CASE RTake
    <3> DEFINE k == AtMost(Filled(rx_in, rx_out), left)
    <3>1. pc = "rTake" /\ UNCHANGED rx
      BY <2>3 DEF RTake, Run
    <3>2. left > 0
      BY <3>1 DEF IInv, Blocks
    <3>3. /\ Filled(rx_in, rx_out) \in 0 .. Held(rx_out, rx_in)
          /\ Filled(rx_in, rx_out) = 0 <=> Held(rx_out, rx_in) = 0
      BY <1>3, PieceSizes
    <3>4. k \in Nat /\ (k = 0 <=> Held(rx_out, rx_in) = 0)
      BY <1>3, <1>4, <3>2, <3>3 DEF AtMost
    <3>5. CASE k > 0
      <4>1. pc' = "rCopy"
        BY <2>3, <3>5 DEF RTake
      <4>2. Held(rx_out', rx_in') > 0
        BY <1>4, <3>1, <3>4, <3>5 DEF rx, Held
      <4> QED
        BY <4>1, <4>2 DEF Unreleased
    <3>6. CASE ~(k > 0) /\ any
      <4>1. pc' = "rKick" /\ any' = any
        BY <2>3, <3>6 DEF RTake, Goto
      <4> QED
        BY <3>6, <4>1 DEF Emptying
    <3>7. CASE ~(k > 0) /\ ~any
      <4>1. Held(rx_out, rx_in) = 0 /\ Unreleased = 0
        BY <3>1, <3>4, <3>7 DEF Unreleased
      <4> QED
        BY <1>1, <2>1, <3>7, <4>1
    <3> QED
      BY <3>5, <3>6, <3>7
  <2>4. CASE RCopy
    BY <2>4 DEF RCopy, Emptying
  <2>5. CASE RPublish
    <3>1. pc = "rPublish" /\ any' = any /\ pc' \in {"rTake", "rKick"}
      BY <2>5 DEF RPublish, Run
    <3>2. any
      BY <3>1 DEF IInv, Blocks
    <3> QED
      BY <3>1, <3>2 DEF Emptying
  <2> QED
    BY <1>10, <2>2, <2>3, <2>4, <2>5 DEF Moving
<1> QED
  BY <1>5, <1>6, <1>7, <1>8, <1>9, <1>10, StepKinds, OutsideKeeps DEF vars, app, hw

LEMMA WakeupStep == IInv /\ [Next]_vars => NoLostWakeup'
  BY TransmitWake, ReceiveWake DEF NoLostWakeup, Filling, Emptying

-----------------------------------------------------------------------------
(* Order and completeness. *)

LEMMA Appended ==
  ASSUME NEW s \in Seq(Nat), NEW x \in Nat, NEW from \in Int,
         InSequence(s, from), x = from + Len(s) + 1
  PROVE  InSequence(Append(s, x), from)
<1>1. Len(Append(s, x)) = Len(s) + 1 /\ Len(s) \in Nat
  OBVIOUS
<1>2. ASSUME NEW j \in 1 .. Len(s) + 1 PROVE Append(s, x)[j] = from + j
  <2>1. CASE j = Len(s) + 1
    BY <1>1, <2>1
  <2>2. CASE j \in 1 .. Len(s)
    BY <1>1, <2>2 DEF InSequence
  <2> QED
    BY <1>1, <1>2, <2>1, <2>2
<1> QED
  BY <1>1, <1>2 DEF InSequence

LEMMA Removed ==
  ASSUME NEW s \in Seq(Nat), NEW from \in Int, InSequence(s, from), s # <<>>
  PROVE  Head(s) = from + 1 /\ InSequence(Tail(s), from + 1)
<1>1. Len(s) \in Nat \ {0} /\ Len(Tail(s)) = Len(s) - 1 /\ Head(s) = s[1]
  OBVIOUS
<1>2. \A j \in 1 .. Len(s) - 1 : Tail(s)[j] = s[j + 1] /\ j + 1 \in 1 .. Len(s)
  BY <1>1
<1> QED
  BY <1>1, <1>2 DEF InSequence

LEMMA TransmitStep == IInv /\ [Next]_vars => TransmitInOrder'
<1> SUFFICES ASSUME IInv, [Next]_vars PROVE TransmitInOrder'
  OBVIOUS
<1> DEFINE given == Len(heard) + Len(wfifo)
<1> DEFINE held == Held(tx_out, tx_in) + Unpublished
<1> DEFINE stored == \A i \in 0 .. held - 1 : tx_buf[Advance(tx_out, i)] = given + 1 + i
<1>1. /\ tx_in \in Slots /\ tx_out \in Slots /\ n \in Slots /\ n \in Nat /\ left \in Nat
      /\ wfifo \in Seq(Nat) /\ heard \in Seq(Nat) /\ Len(wfifo) \in Nat /\ Len(heard) \in Nat
      /\ tx_buf \in [Slots -> Nat] /\ written \in Nat
      /\ BufLen \in Nat \ {0, 1} /\ WriteDepth \in Nat
  BY SizeAssumption, SMTT(30) DEF IInv, TypeOK, Slots
<1>2. Held(tx_out, tx_in) \in 0 .. BufLen - 1 /\ Unpublished \in Nat /\ held \in Nat /\ given \in Nat
  BY <1>1, HeldRange, SMTT(30) DEF Unpublished
<1>3. InSequence(heard, 0) /\ InSequence(wfifo, Len(heard)) /\ written = given + held /\ stored
  BY DEF IInv, TransmitInOrder
<1> SUFFICES InSequence(heard', 0) /\ InSequence(wfifo', Len(heard')) /\ written' = given' + held' /\ stored'
  BY DEF TransmitInOrder
<1>0. /\ given = Len(heard) + Len(wfifo)
      /\ held = Held(tx_out, tx_in) + Unpublished
  OBVIOUS
<1> HIDE DEF given, held, stored
<1>4. CASE UNCHANGED <<heard, wfifo, tx, written>> /\ Unpublished' = Unpublished
  BY <1>3, <1>4 DEF tx, Held, Advance, InSequence, given, held, stored
<1>5. CASE HostTake
  <2>1. /\ wfifo # <<>> /\ heard' = Append(heard, Head(wfifo)) /\ wfifo' = Tail(wfifo)
        /\ UNCHANGED <<tx, written, pc, n>>
    BY <1>5 DEF HostTake, app
  <2>2. Head(wfifo) = Len(heard) + 1 /\ InSequence(wfifo', Len(heard) + 1) /\ Len(wfifo') = Len(wfifo) - 1
    BY <1>1, <1>3, <2>1, Removed, FifoTypes
  <2>3. InSequence(heard', 0) /\ Len(heard') = Len(heard) + 1
    BY <1>1, <1>3, <2>1, <2>2, Appended, FifoTypes
  <2>4. given' = given /\ held' = held
    BY <1>1, <2>1, <2>2, <2>3 DEF tx, Held, Unpublished, given, held
  <2>5. stored'
    BY <1>3, <2>1, <2>4 DEF tx, Advance, stored
  <2> QED
    BY <1>3, <2>1, <2>2, <2>3, <2>4, <2>5
<1>6. CASE IsrTxWrite
  <2>1. /\ control.space > 0 /\ tx_out # tx_in /\ tx_out' = Advance(tx_out, 1)
        /\ UNCHANGED <<heard, tx_in, tx_buf, written, pc, n>>
        /\ wfifo' = IF Len(wfifo) < WriteDepth THEN Append(wfifo, tx_buf[tx_out]) ELSE wfifo
    BY <1>6 DEF IsrTxWrite, IsrStep, hostVars, app
  <2>2. Len(wfifo) < WriteDepth
    <3>1. control.space + Len(wfifo) <= WriteDepth /\ control.space \in 0 .. WriteDepth
      BY DEF IInv, RoutineInv, TypeOK
    <3> QED
      BY <1>1, <2>1, <3>1
  <2>3. Held(tx_out, tx_in) \in 1 .. BufLen - 1
    BY <1>1, <1>2, <2>1, HeldRange
  <2>4. 1 \in 0 .. Held(tx_out, tx_in) /\ 0 \in 0 .. held - 1
    BY <1>0, <1>2, <2>3
  <2>5. Held(tx_out', tx_in') = Held(tx_out, tx_in) - 1 /\ Unpublished' = Unpublished
    BY <1>1, <2>1, <2>4, HeldLess DEF Unpublished
  <2>6. tx_buf[tx_out] = given + 1
    <3>1. Advance(tx_out, 0) = tx_out
      BY <1>1, AdvanceIs DEF Slots
    <3> QED
      BY <1>2, <1>3, <2>4, <3>1 DEF stored
  <2>7. /\ wfifo' = Append(wfifo, tx_buf[tx_out]) /\ tx_buf[tx_out] \in Nat
        /\ Len(wfifo') = Len(wfifo) + 1
    BY <1>1, <2>1, <2>2
  <2>8. InSequence(wfifo', Len(heard))
    BY <1>0, <1>1, <1>3, <2>6, <2>7, Appended
  <2>9. given' = given + 1 /\ held' = held - 1
    <3>1. Len(heard') = Len(heard)
      BY <2>1
    <3>2. Len(wfifo') = Len(wfifo) + 1
      BY <2>7
    <3>3. Held(tx_out', tx_in') + Unpublished' = Held(tx_out, tx_in) + Unpublished - 1
      BY <1>2, <2>5
    <3> QED
      BY <1>0, <1>1, <1>2, <3>1, <3>2, <3>3 DEF given, held
  <2>10. stored'
    <3> SUFFICES ASSUME NEW i \in 0 .. held - 2
                 PROVE  tx_buf[Advance(Advance(tx_out, 1), i)] = given + 2 + i
      <4>1. \A i \in 0 .. held' - 1 : i \in 0 .. held - 2 /\ given' + 1 + i = given + 2 + i
        BY <1>2, <2>9
      <4>2. tx_buf' = tx_buf /\ \A i : Advance(tx_out', i)  = Advance(Advance(tx_out, 1), i)
        BY <2>1 DEF Advance
      <4>3. \A i : Advance(tx_out, i)' = Advance(tx_out', i)
        BY DEF Advance
      <4> QED
        BY <4>1, <4>2, <4>3 DEF stored
    <3>1. held <= BufLen - 1
      <4>1. pc = "wPublish" => n <= BufLen - 1 - Held(tx_out, tx_in)
        BY <1>1, <1>2 DEF IInv, Blocks, Free
      <4>2. CASE pc = "wPublish"
        <5>1. Unpublished = n /\ n <= BufLen - 1 - Held(tx_out, tx_in)
          BY <4>1, <4>2 DEF Unpublished
        <5>2. n \in Nat /\ BufLen \in Nat
          BY <1>1
        <5> QED
          BY <1>0, <1>2, <5>1, <5>2
      <4>3. CASE pc # "wPublish"
        BY <1>0, <1>1, <1>2, <4>3 DEF Unpublished
      <4> QED
        BY <4>2, <4>3
    <3>2. Advance(Advance(tx_out, 1), i) = Advance(tx_out, 1 + i)
      BY <1>1, <1>2, <3>1, AdvanceTwice
    <3> QED
      BY <1>2, <1>3, <3>2 DEF stored
  <2> QED
    BY <1>2, <1>3, <2>1, <2>8, <2>9, <2>10
<1>7. CASE WCopy
  <2>1. /\ pc = "wCopy" /\ pc' = "wPublish" /\ n' = n /\ written' = written + n
        /\ UNCHANGED <<heard, wfifo, tx_in, tx_out>>
        /\ tx_buf' = [i \in Slots |-> IF i \in tx_in .. tx_in + n - 1
                                      THEN written + 1 + (i - tx_in) ELSE tx_buf[i]]
    BY <1>7 DEF WCopy, Run, hostVars
  <2>2. n \in 1 .. BufLen - 1 - Held(tx_out, tx_in) /\ tx_in + n <= BufLen
    BY <2>1 DEF IInv, Blocks, Free
  <2>3. /\ given' = given /\ held = Held(tx_out, tx_in) /\ held' = held + n
        /\ Held(tx_out', tx_in') = Held(tx_out, tx_in)
    BY <1>2, <2>1 DEF Unpublished, Held, given, held
  <2>4. stored'
    <3> SUFFICES ASSUME NEW i \in 0 .. held' - 1
                 PROVE  tx_buf'[Advance(tx_out', i)] = given' + 1 + i
      BY DEF stored, Advance
    <3>0. /\ i \in 0 .. held + n - 1 /\ given' = given
          /\ Advance(tx_out', i) = Advance(tx_out, i)
      <4>1. tx_out' = tx_out
        BY <2>1
      <4>2. given' = given /\ held' = held + n
        BY <2>3
      <4> QED
        BY <1>1, <1>2, <4>1, <4>2
    <3>1. /\ Advance(tx_out, i) \in Slots
          /\ i < held => Advance(tx_out, i) \notin tx_in .. tx_in + n - 1
          /\ i >= held => Advance(tx_out, i) = tx_in + (i - held)
      BY <1>1, <2>2, <2>3, <3>0, BlockBehind
    <3>2. CASE i < held
      BY <1>2, <1>3, <2>1, <3>0, <3>1, <3>2 DEF stored
    <3>3. CASE i >= held
      <4>1. Advance(tx_out, i) = tx_in + (i - held) /\ tx_in \in Nat
        BY <1>1, <3>1, <3>3 DEF Slots
      <4>2. PICK d \in 0 .. n - 1 : i = held + d
        <5>1. i - held \in 0 .. n - 1 /\ i = held + (i - held)
          BY <1>1, <1>2, <3>0, <3>3
        <5> QED
          BY <5>1
      <4>3. Advance(tx_out, i) = tx_in + d /\ tx_in + d \in Slots
        BY <1>2, <3>1, <4>1, <4>2
      <4>4. tx_in + d \in tx_in .. tx_in + n - 1 /\ tx_in + d - tx_in = d
        BY <1>1, <4>1, <4>2
      <4>5. tx_buf'[tx_in + d] = written + 1 + d
        <5>1. written \in Nat /\ tx_in \in Nat /\ n \in Nat /\ tx_in + d \in Slots
          BY <1>1, <4>1, <4>3
        <5> QED
          BY <2>1, <4>4, <5>1
      <4>6. written + 1 + d = given + 1 + i
        BY <1>1, <1>2, <1>3, <4>2
      <4> QED
        BY <3>0, <4>3, <4>5, <4>6
    <3> QED
      BY <1>2, <3>0, <3>2, <3>3
  <2>5. written' = given' + held'
    <3>1. given' = given /\ held' = held + n /\ written' = written + n
      BY <2>1, <2>3
    <3> QED
      BY <1>1, <1>2, <1>3, <3>1
  <2>6. InSequence(heard', 0) /\ InSequence(wfifo', Len(heard'))
    BY <1>3, <2>1 DEF InSequence
  <2> QED
    BY <2>4, <2>5, <2>6
<1>8. CASE WPublish
  <2>1. /\ pc = "wPublish" /\ pc' = "wTake" /\ tx_in' = Advance(tx_in, n)
        /\ UNCHANGED <<heard, wfifo, tx_out, tx_buf, written>>
    BY <1>8 DEF WPublish, Run, hostVars
  <2>2. n \in 1 .. BufLen - 1 - Held(tx_out, tx_in)
    BY <2>1 DEF IInv, Blocks, Free
  <2>3. Held(tx_out, Advance(tx_in, n)) = Held(tx_out, tx_in) + n
    BY <1>1, <1>2, <2>2, HeldMore
  <2>4. given' = given /\ held' = held
    BY <1>2, <2>1, <2>3 DEF Unpublished, given, held
  <2> QED
    BY <1>3, <2>1, <2>4 DEF Advance, InSequence, stored
<1>9. CASE Isr /\ ~IsrTxWrite
  <2>1. UNCHANGED <<heard, wfifo, tx, written, pc, n>>
    BY <1>9, IsrKeeps DEF Isr, IsrEnter, IsrControl, IsrRxFull, IsrRxRead, IsrRxEnd, IsrTxEnd, hw, hostVars, app
  <2> QED
    BY <1>4, <2>1 DEF Unpublished
<1>10. CASE HostType \/ HostPause \/ Plug \/ Timeout \/ UNCHANGED vars
  <2>1. UNCHANGED <<heard, wfifo, tx, written, pc, n>>
    BY <1>10 DEF HostType, HostPause, Plug, Timeout, vars, hw, hostVars, app
  <2> QED
    BY <1>4, <2>1 DEF Unpublished
<1>11. CASE Calls \/ Waits \/ Storing \/ WTake \/ RTake \/ RCopy \/ RPublish
  <2>1. UNCHANGED <<heard, wfifo>>
    BY <1>11, AppKeeps DEF Moving, hostVars
  <2>2. UNCHANGED <<tx, written>> /\ pc # "wPublish" /\ pc' # "wPublish"
    <3>1. CASE Calls \/ Waits
      BY <3>1, CallsKeep, WaitsKeep
    <3>2. CASE Storing
      BY <3>2 DEF Storing, WKick, RKick, WStore, RStore, Kick, Store, Run, Goto
    <3>3. CASE WTake \/ RTake \/ RCopy \/ RPublish
      BY <3>3 DEF WTake, RTake, RCopy, RPublish, Run, Goto
    <3> QED
      BY <1>11, <3>1, <3>2, <3>3
  <2> QED
    BY <1>4, <2>1, <2>2 DEF Unpublished
<1> QED
  BY <1>5, <1>6, <1>7, <1>8, <1>9, <1>10, <1>11, StepKinds DEF Outside, Moving

LEMMA Extended ==
  ASSUME NEW s \in Seq(Nat), NEW t \in Seq(Nat), NEW from \in Int,
         InSequence(s, from), \A j \in 1 .. Len(t) : t[j] = from + Len(s) + j
  PROVE  InSequence(s \o t, from) /\ Len(s \o t) = Len(s) + Len(t)
<1>1. Len(s) \in Nat /\ Len(t) \in Nat /\ Len(s \o t) = Len(s) + Len(t)
  OBVIOUS
<1>2. ASSUME NEW j \in 1 .. Len(s) + Len(t) PROVE (s \o t)[j] = from + j
  <2>1. CASE j <= Len(s)
    <3>1. j \in 1 .. Len(s) /\ (s \o t)[j] = s[j]
      BY <1>1, <2>1
    <3> QED
      BY <3>1 DEF InSequence
  <2>2. CASE ~(j <= Len(s))
    <3>1. j - Len(s) \in 1 .. Len(t) /\ (s \o t)[j] = t[j - Len(s)]
      BY <1>1, <2>2
    <3>2. t[j - Len(s)] = from + Len(s) + (j - Len(s))
      BY <3>1
    <3> QED
      BY <1>1, <3>1, <3>2
  <2> QED
    BY <2>1, <2>2
<1> QED
  BY <1>1, <1>2 DEF InSequence

LEMMA ReceiveStep == IInv /\ [Next]_vars => ReceiveInOrder'
<1> SUFFICES ASSUME IInv, [Next]_vars PROVE ReceiveInOrder'
  OBVIOUS
<1> DEFINE done == Len(got) - Unreleased
<1> DEFINE held == Held(rx_out, rx_in)
<1> DEFINE stored == \A i \in 0 .. held - 1 : rx_buf[Advance(rx_out, i)] = done + 1 + i
<1>1. /\ rx_in \in Slots /\ rx_out \in Slots /\ n \in Slots /\ n \in Nat /\ left \in Nat
      /\ rfifo \in Seq(Nat) /\ got \in Seq(Nat) /\ Len(rfifo) \in Nat /\ Len(got) \in Nat
      /\ rx_buf \in [Slots -> Nat] /\ typed \in Nat
      /\ BufLen \in Nat \ {0, 1}
  BY SizeAssumption, SMTT(30) DEF IInv, TypeOK, Slots
<1>2. held \in 0 .. BufLen - 1 /\ Unreleased \in Nat
  BY <1>1, HeldRange DEF Unreleased
<1>3. /\ InSequence(got, 0) /\ Unreleased <= held /\ stored
      /\ InSequence(rfifo, done + held) /\ typed = done + held + Len(rfifo)
  BY DEF IInv, ReceiveInOrder
<1> SUFFICES /\ InSequence(got', 0) /\ Unreleased' <= held' /\ stored'
             /\ InSequence(rfifo', done' + held') /\ typed' = done' + held' + Len(rfifo')
  BY DEF ReceiveInOrder
<1>0. done = Len(got) - Unreleased /\ held = Held(rx_out, rx_in) /\ done \in Int
  BY <1>1, <1>2
<1> HIDE DEF done, held, stored
<1>12. /\ done \in Int /\ held \in Nat /\ Len(rfifo) \in Nat /\ typed \in Nat /\ Unreleased \in Nat
       /\ typed = done + held + Len(rfifo) /\ Unreleased <= held
  BY <1>0, <1>1, <1>2, <1>3
<1>4. CASE UNCHANGED <<got, rx, rfifo, typed>> /\ Unreleased' = Unreleased
  BY <1>3, <1>4 DEF rx, Held, Advance, InSequence, done, held, stored
<1>5. CASE HostType
  <2>1. typed' = typed + 1 /\ rfifo' = Append(rfifo, typed + 1) /\ UNCHANGED <<rx, got, pc, n>>
    BY <1>5 DEF HostType, app
  <2>2. done' = done /\ held' = held /\ Unreleased' = Unreleased
    BY <2>1 DEF rx, Held, Unreleased, done, held
  <2>3. InSequence(rfifo', done + held) /\ Len(rfifo') = Len(rfifo) + 1
    <3>1. typed + 1 \in Nat /\ typed + 1 = done + held + Len(rfifo) + 1 /\ done + held \in Int
      BY <1>12
    <3> QED
      BY <1>1, <1>3, <2>1, <3>1, Appended, FifoTypes
  <2>4. stored'
    BY <1>3, <2>1, <2>2 DEF stored, rx, Advance
  <2>5. typed' = done' + held' + Len(rfifo')
    <3>1. typed' = typed + 1 /\ Len(rfifo') = Len(rfifo) + 1 /\ done' = done /\ held' = held
      BY <2>1, <2>2, <2>3
    <3> QED
      BY <1>12, <3>1
  <2> QED
    BY <1>3, <2>1, <2>2, <2>3, <2>4, <2>5
<1>6. CASE IsrRxRead /\ rfifo # <<>>
  <2>1. /\ Advance(rx_in, 1) # rx_out
        /\ rfifo' = Tail(rfifo) /\ rx_buf' = [rx_buf EXCEPT ![rx_in] = Head(rfifo)]
        /\ rx_in' = Advance(rx_in, 1) /\ UNCHANGED <<rx_out, got, typed, pc, n>>
    BY <1>6 DEF IsrRxRead, IsrStep, hostVars, app
  <2>2. held # BufLen - 1
    BY <1>0, <1>1, <2>1, FullRing
  <2>3. Held(rx_out, Advance(rx_in, 1)) = held + 1
    BY <1>0, <1>1, <1>2, <2>2, HeldMore
  <2>4. done' = done /\ held' = held + 1 /\ Unreleased' = Unreleased
    BY <2>1, <2>3 DEF Unreleased, done, held
  <2>5. done + held \in Int
    BY <1>0, <1>2
  <2>6. /\ Head(rfifo) = done + held + 1 /\ InSequence(rfifo', done + held + 1)
        /\ Len(rfifo') = Len(rfifo) - 1
    BY <1>1, <1>3, <1>6, <2>1, <2>5, Removed, FifoTypes
  <2>7. stored'
    <3> SUFFICES ASSUME NEW i \in 0 .. held' - 1
                 PROVE  rx_buf'[Advance(rx_out', i)] = done' + 1 + i
      BY DEF stored, Advance
    <3>0. i \in 0 .. held /\ done' = done /\ Advance(rx_out', i) = Advance(rx_out, i)
      BY <1>2, <2>1, <2>4
    <3>1. 1 \in 1 .. BufLen - 1 - held /\ rx_in + 1 <= BufLen /\ rx_in \in Nat /\ i \in 0 .. held + 1 - 1
      BY <1>1, <1>2, <2>2, <3>0 DEF Slots
    <3>2. /\ Advance(rx_out, i) \in Slots
          /\ i < held => Advance(rx_out, i) \notin rx_in .. rx_in + 1 - 1
          /\ i >= held => Advance(rx_out, i) = rx_in + (i - held)
      BY <1>0, <1>1, <3>1, BlockBehind
    <3>3. CASE i < held
      <4>1. Advance(rx_out, i) # rx_in
        BY <3>1, <3>2, <3>3
      <4>2. rx_buf'[Advance(rx_out, i)] = rx_buf[Advance(rx_out, i)]
        BY <1>1, <2>1, <3>2, <4>1
      <4> QED
        BY <1>2, <1>3, <3>0, <3>3, <4>2 DEF stored
    <3>4. CASE i = held
      <4>1. Advance(rx_out, i) = rx_in
        BY <1>2, <3>1, <3>2, <3>4
      <4>2. rx_buf'[rx_in] = Head(rfifo)
        BY <1>1, <2>1
      <4> QED
        BY <1>0, <1>2, <2>6, <3>0, <3>4, <4>1, <4>2
    <3> QED
      BY <1>2, <3>0, <3>3, <3>4
  <2>8. typed' = done' + held' + Len(rfifo') /\ done' + held' = done + held + 1 /\ Unreleased' <= held'
    <3>1. /\ typed' = typed /\ Len(rfifo') = Len(rfifo) - 1 /\ done' = done /\ held' = held + 1
          /\ Unreleased' = Unreleased
      BY <2>1, <2>4, <2>6
    <3> QED
      BY <1>12, <3>1
  <2> QED
    BY <1>3, <2>1, <2>6, <2>7, <2>8
<1>7. CASE RCopy
  <2>1. /\ pc = "rCopy" /\ pc' = "rPublish" /\ n' = n /\ UNCHANGED <<rx, rfifo, typed>>
        /\ got' = got \o [i \in 1 .. n |-> rx_buf[rx_out + i - 1]]
    BY <1>7 DEF RCopy, Run, hostVars
  <2>2. n \in 1 .. held /\ rx_out + n <= BufLen
    BY <2>1 DEF IInv, Blocks, held
  <2>3. done = Len(got) /\ held' = held /\ Unreleased' = n
    BY <1>1, <2>1 DEF Unreleased, done, held, rx, Held
  <2> DEFINE block == [i \in 1 .. n |-> rx_buf[rx_out + i - 1]]
  <2>4. \A i \in 1 .. n : rx_buf[rx_out + i - 1] \in Nat /\ rx_buf[rx_out + i - 1] = Len(got) + i
    <3> SUFFICES ASSUME NEW i \in 1 .. n
                 PROVE  rx_buf[rx_out + i - 1] \in Nat /\ rx_buf[rx_out + i - 1] = Len(got) + i
      OBVIOUS
    <3>1. /\ i - 1 \in 0 .. BufLen /\ rx_out + (i - 1) < BufLen /\ rx_out + i - 1 \in Slots
          /\ rx_out + (i - 1) = rx_out + i - 1 /\ i - 1 \in 0 .. held - 1
      BY <1>1, <1>2, <2>2 DEF Slots
    <3>2. Advance(rx_out, i - 1) = rx_out + i - 1
      BY <1>1, <3>1, AdvanceIs
    <3>3. rx_buf[Advance(rx_out, i - 1)] = done + 1 + (i - 1)
      BY <1>3, <3>1 DEF stored
    <3> QED
      BY <1>1, <2>3, <3>1, <3>2, <3>3
  <2>5. block \in Seq(Nat) /\ Len(block) = n /\ \A i \in 1 .. n : block[i] = 0 + Len(got) + i
    <3>1. n \in Nat /\ Len(got) \in Nat
      BY <1>1
    <3>2. block \in Seq(Nat) /\ Len(block) = n
      BY <3>1, <2>4
    <3>3. \A i \in 1 .. n : block[i] = Len(got) + i
      BY <2>4
    <3> QED
      BY <3>1, <3>2, <3>3
  <2>6. InSequence(got', 0) /\ Len(got') = Len(got) + n
    <3> HIDE DEF block
    <3>1. InSequence(got \o block, 0) /\ Len(got \o block) = Len(got) + Len(block)
      <4>1. \A j \in 1 .. Len(block) : block[j] = 0 + Len(got) + j
        BY <2>5
      <4>2. got \in Seq(Nat) /\ block \in Seq(Nat) /\ 0 \in Int /\ InSequence(got, 0)
        BY <1>1, <1>3, <2>5
      <4> QED
        BY <4>1, <4>2, Extended, Zenon
    <3> QED
      BY <2>1, <2>5, <3>1 DEF block
  <2>7. done' = done
    BY <1>1, <2>3, <2>6 DEF done
  <2>8. stored'
    BY <1>3, <2>1, <2>3, <2>7 DEF stored, rx, Advance
  <2> QED
    BY <1>3, <2>1, <2>2, <2>3, <2>6, <2>7, <2>8
<1>8. CASE RPublish
  <2>1. /\ pc = "rPublish" /\ pc' # "rPublish" /\ rx_out' = Advance(rx_out, n)
        /\ UNCHANGED <<rx_in, rx_buf, rfifo, typed, got>>
    BY <1>8 DEF RPublish, Run, hostVars
  <2>2. n \in 1 .. held
    BY <2>1 DEF IInv, Blocks, held
  <2>3. Unreleased = n /\ Unreleased' = 0
    BY <2>1 DEF Unreleased
  <2>4. Held(Advance(rx_out, n), rx_in) = held - n
    BY <1>0, <1>1, <1>2, <2>2, HeldLess
  <2>5. done' = done + n /\ held' = held - n
    BY <1>0, <1>1, <2>1, <2>3, <2>4 DEF done, held
  <2>6. stored'
    <3> SUFFICES ASSUME NEW i \in 0 .. held' - 1
                 PROVE  rx_buf[Advance(Advance(rx_out, n), i)] = done' + 1 + i
      BY <2>1 DEF stored, Advance
    <3>1. i \in Nat /\ n + i \in 0 .. held - 1 /\ n + i <= BufLen
      BY <1>1, <1>2, <2>2, <2>5
    <3>2. Advance(Advance(rx_out, n), i) = Advance(rx_out, n + i)
      BY <1>1, <3>1, AdvanceTwice
    <3>3. rx_buf[Advance(rx_out, n + i)] = done + 1 + (n + i)
      BY <1>3, <3>1 DEF stored
    <3> QED
      BY <1>0, <1>1, <2>5, <3>1, <3>2, <3>3, SMTT(30)
  <2>7. done' + held' = done + held /\ Unreleased' <= held'
    BY <1>0, <1>1, <1>2, <2>2, <2>3, <2>5, SMTT(30)
  <2> QED
    BY <1>3, <2>1, <2>6, <2>7 DEF InSequence
<1>9. CASE Isr /\ ~(IsrRxRead /\ rfifo # <<>>)
  <2>1. UNCHANGED <<got, pc, n, typed>>
    BY <1>9, IsrKeeps DEF hostVars, app
  <2>2. UNCHANGED <<rx, rfifo>>
    <3>1. CASE IsrRxRead
      BY <1>9, <3>1 DEF IsrRxRead, rx
    <3>2. CASE ~IsrRxRead
      BY <1>9, <3>2 DEF Isr, IsrEnter, IsrControl, IsrRxFull, IsrRxEnd, IsrTxWrite, IsrTxEnd, hw
    <3> QED
      BY <3>1, <3>2
  <2> QED
    BY <1>4, <2>1, <2>2 DEF Unreleased
<1>10. CASE HostTake \/ HostPause \/ Plug \/ Timeout \/ UNCHANGED vars
  <2>1. UNCHANGED <<got, rx, rfifo, typed, pc, n>>
    BY <1>10 DEF HostTake, HostPause, Plug, Timeout, vars, hw, hostVars, app
  <2> QED
    BY <1>4, <2>1 DEF Unreleased
<1>11. CASE Calls \/ Waits \/ Storing \/ WTake \/ WCopy \/ WPublish \/ RTake
  <2>1. UNCHANGED <<rfifo, typed>>
    BY <1>11, AppKeeps DEF Moving, hostVars
  <2>2. UNCHANGED <<rx, got>> /\ pc # "rPublish" /\ pc' # "rPublish"
    <3>1. CASE Calls \/ Waits
      BY <3>1, CallsKeep, WaitsKeep
    <3>2. CASE Storing
      BY <3>2 DEF Storing, WKick, RKick, WStore, RStore, Kick, Store, Run, Goto
    <3>3. CASE WTake \/ WCopy \/ WPublish \/ RTake
      BY <3>3 DEF WTake, WCopy, WPublish, RTake, Run, Goto
    <3> QED
      BY <1>11, <3>1, <3>2, <3>3
  <2> QED
    BY <1>4, <2>1, <2>2 DEF Unreleased
<1> QED
  BY <1>5, <1>6, <1>7, <1>8, <1>9, <1>10, <1>11, StepKinds DEF Outside, Moving

-----------------------------------------------------------------------------
(* The theorems. *)

LEMMA Initially == Init => IInv
<1> SUFFICES ASSUME Init PROVE IInv
  OBVIOUS
<1>1. TypeOK
  <2>1. NoControl \in [RI : BOOLEAN, WI : BOOLEAN, space : 0 .. WriteDepth]
    BY SizeAssumption DEF NoControl
  <2>2. timeout \in Nat /\ 0 \in Slots
    BY SizeAssumption DEF Init, Slots
  <2>3. rx_buf \in [Slots -> Nat] /\ tx_buf \in [Slots -> Nat]
    BY DEF Init
  <2> QED
    BY <2>1, <2>2, <2>3, SizeAssumption DEF Init, TypeOK
<1>2. Blocks /\ RoutineInv /\ Enables
  BY SizeAssumption DEF Init, Blocks, RoutineInv, Enables, NoControl
<1>3. Held(0, 0) = 0
  BY SizeAssumption DEF Held
<1>4. NoLostWakeup
  BY DEF Init, NoLostWakeup
<1>5. TransmitInOrder
  BY <1>3 DEF Init, TransmitInOrder, Unpublished, InSequence
<1>6. ReceiveInOrder
  BY <1>3 DEF Init, ReceiveInOrder, Unreleased, InSequence
<1> QED
  BY <1>1, <1>2, <1>4, <1>5, <1>6 DEF IInv

LEMMA InvStep == IInv /\ [Next]_vars => IInv'
  BY TypeStep, BlocksStep, RoutineStep, EnablesStep, WakeupStep, TransmitStep, ReceiveStep DEF IInv

LEMMA Invariance == Spec => []IInv
  BY InvStep, Initially, PTL DEF Spec

\* The indices of the driver's buffers and the contents of the FIFOs stay
\* within their bounds, whatever the sizes.
THEOREM TypeCorrect == Spec => []TypeOK
<1>1. IInv => TypeOK
  BY DEF IInv
<1> QED
  BY Invariance, <1>1, PTL

\* The interrupt routine never leaves characters behind in a buffer whose
\* interrupt stays off: not with any size of the buffers and FIFOs.
THEOREM NoLostWakeupCorrect == Spec => []NoLostWakeup
<1>1. IInv => NoLostWakeup
  BY DEF IInv
<1> QED
  BY Invariance, <1>1, PTL

\* Every character accepted by write is in exactly one place on its way to the
\* host, and in order, for all sizes and all blocks.
THEOREM TransmitCorrect == Spec => []TransmitInOrder
<1>1. IInv => TransmitInOrder
  BY DEF IInv
<1> QED
  BY Invariance, <1>1, PTL

\* The same for every character the host types, on its way to read.
THEOREM ReceiveCorrect == Spec => []ReceiveInOrder
<1>1. IInv => ReceiveInOrder
  BY DEF IInv
<1> QED
  BY Invariance, <1>1, PTL

=============================================================================
