-------------------------- MODULE MediaAudioProofs --------------------------
(***************************************************************************)
(* Recordings of the interrupt-driven media demo hold whole frames in      *)
(* order, playbacks are complete and in order, and the lights tell what    *)
(* the audio port is doing: for FIFOs, thresholds and buffers of any size, *)
(* any timing of the codec and any keys at any moment.                     *)
(***************************************************************************)
EXTENDS MediaAudio, SequenceTheorems, TLAPS

Storing == {"in_left", "in_right", "in_done"}
Playing == {"out_left", "out_right", "out_done"}

\* Which part of the handlers runs with which setting of the control register.
ControlInv ==
  /\ audio_pc = "fifo_enable" => control = IF KEY_value = {1} THEN 4 ELSE 8
  /\ control \in {4, 8} => audio_pc = "fifo_enable"
  /\ audio_pc \in {"fifo_clear", "fifo_enable"} => KEY_value \in {{1}, {2}} /\ buffer_index = 0
  /\ audio_pc \in Storing => control = 1
  /\ audio_pc \in Playing => control = 2
  /\ audio_pc = "in_space" => control = 1 \/ (control = 0 /\ buffer_index = BufSize)
  /\ audio_pc = "out_space" => control = 2 \/ (control = 0 /\ buffer_index = BufSize)
  /\ audio_pc \in {"in_done", "out_done"} => buffer_index = BufSize

\* The index is the number of frames stored.
BufferInv ==
  /\ Len(left_buffer) = Len(right_buffer) + (IF audio_pc = "in_right" THEN 1 ELSE 0)
  /\ control # 1 \/ audio_pc = "fifo_clear" => right_buffer = <<>>
  /\ control = 1 => buffer_index = Len(right_buffer)

\* What the codec has delivered since the recording began is in the buffers and
\* the FIFOs behind them; only a half frame may be on its left side alone.
Lead == IF nextIn = "right" THEN 1 ELSE 0
Stream ==
  /\ Len(left_buffer) + Len(inLeft) = Len(right_buffer) + Len(inRight) + Lead
  /\ frame = (Len(right_buffer) + Len(inRight)) % Frames
  /\ \A i \in 1 .. Len(left_buffer) : left_buffer[i] = (i - 1) % Frames
  /\ \A i \in 1 .. Len(right_buffer) : right_buffer[i] = (i - 1) % Frames
  /\ \A i \in 1 .. Len(inLeft) : inLeft[i] = (Len(left_buffer) + i - 1) % Frames
  /\ \A i \in 1 .. Len(inRight) : inRight[i] = (Len(right_buffer) + i - 1) % Frames
StreamInv ==
  /\ control = 4 => inLeft = <<>> /\ inRight = <<>> /\ (skewed <=> nextIn = "right")
  /\ audio_pc \in {"in_left", "in_right"} => inRight # <<>>
  /\ control = 1 /\ ~skewed /\ audio_pc # "fifo_clear" => Stream

\* What the handler has written since the playback began has been heard or is in
\* the FIFOs, in order; only a half frame may be on its left side alone.
Half == IF leftWasRead THEN 1 ELSE 0
PlayInv ==
  /\ control = 8 => outLeft = <<>> /\ outRight = <<>> /\ heard = <<>> /\ ~leftWasRead
  /\ Len(outLeft) + Half = Len(outRight) + (IF audio_pc = "out_right" THEN 1 ELSE 0)
  /\ audio_pc \in {"out_left", "out_right"} => Len(outRight) < Depth
  /\ leftWasRead => heard # <<>> /\ outRight # <<>>
  /\ heard \in Seq(Seq(Nat))
  /\ \A i \in 1 .. Len(heard) :
       heard[i] = IF i = Len(heard) /\ leftWasRead THEN <<i - 1>> ELSE <<i - 1, i - 1>>
  /\ \A i \in 1 .. Len(outLeft) : outLeft[i] = Len(heard) + i - 1
  /\ \A i \in 1 .. Len(outRight) : outRight[i] = Len(heard) - Half + i - 1
  /\ control = 2 /\ audio_pc # "fifo_clear" => buffer_index = Len(heard) - Half + Len(outRight)

\* The lights show the activity from its first transfer on.
LedInv ==
  /\ control = 0 => led = 0
  /\ control = 1 /\ (buffer_index > 0 \/ audio_pc \in Storing \cup {"in_space"}) => led = 1
  /\ control = 2 /\ (buffer_index > 0 \/ audio_pc \in Playing \cup {"out_space"}) => led = 2

IInv == AudioTypeOK /\ ControlInv /\ BufferInv /\ StreamInv /\ PlayInv /\ LedInv

-----------------------------------------------------------------------------
(* Sequences and remainders. *)

LEMMA PushIs ==
  ASSUME NEW S, NEW s \in Seq(S), NEW v \in S
  PROVE  /\ Push(s, v) \in Seq(S)
         /\ Len(s) <= Depth => Len(Push(s, v)) <= Depth
         /\ Len(s) < Depth => /\ Len(Push(s, v)) = Len(s) + 1
                              /\ \A i \in 1 .. Len(s) : Push(s, v)[i] = s[i]
                              /\ Push(s, v)[Len(s) + 1] = v
<1>1. /\ Append(s, v) \in Seq(S) /\ Len(Append(s, v)) = Len(s) + 1 /\ Len(s) \in Nat
      /\ \A i \in 1 .. Len(s) : Append(s, v)[i] = s[i]
      /\ Append(s, v)[Len(s) + 1] = v
  BY AppendProperties, LenProperties
<1>2. CASE Len(s) < Depth
  BY <1>1, <1>2, SizesAssumption DEF Push
<1>3. CASE ~(Len(s) < Depth)
  BY <1>3 DEF Push
<1> QED
  BY <1>2, <1>3

LEMMA RestIs ==
  ASSUME NEW S, NEW s \in Seq(S), s # <<>>
  PROVE  /\ FirstOf(s) = Head(s) /\ Rest(s) = Tail(s)
         /\ Head(s) = s[1] /\ s[1] \in S /\ Tail(s) \in Seq(S)
         /\ Len(s) \in Nat /\ Len(s) >= 1 /\ Len(Tail(s)) = Len(s) - 1
         /\ \A i \in 1 .. Len(s) - 1 : Tail(s)[i] = s[i + 1]
<1>1. /\ Tail(s) \in Seq(S) /\ Len(Tail(s)) = Len(s) - 1
      /\ \A i \in 1 .. Len(Tail(s)) : Tail(s)[i] = s[i + 1]
  BY HeadTailProperties
<1>2. Len(s) \in Nat /\ Len(s) >= 1
  BY EmptySeq, LenProperties
<1>3. Head(s) = s[1] /\ s[1] \in S
  BY <1>2, ElementOfSeq
<1> QED
  BY <1>1, <1>2, <1>3 DEF FirstOf, Rest

\* Either way the FIFO remains one.
LEMMA RestTyped ==
  ASSUME NEW S, NEW s \in Seq(S)
  PROVE  /\ Rest(s) \in Seq(S) /\ Len(Rest(s)) <= Len(s)
         /\ FirstOf(s) \in S \cup {Silence}
         /\ Len(s) \in Nat /\ (Len(s) = 0 <=> s = <<>>)
<1>1. Len(s) \in Nat /\ (Len(s) = 0 <=> s = <<>>)
  BY EmptySeq, LenProperties
<1>2. CASE s = <<>>
  BY <1>1, <1>2, EmptySeq DEF Rest, FirstOf
<1>3. CASE s # <<>>
  BY <1>1, <1>3, RestIs
<1> QED
  BY <1>1, <1>2, <1>3

LEMMA FunctionIsSeq ==
  ASSUME NEW S, NEW n \in Nat, NEW f, f = [i \in 1 .. n |-> f[i]], \A i \in 1 .. n : f[i] \in S
  PROVE  f \in Seq(S) /\ Len(f) = n
<1>1. f \in [1 .. n -> S]
  OBVIOUS
<1>2. f \in Seq(S)
  BY <1>1, SeqDef
<1>3. DOMAIN f = 1 .. n /\ DOMAIN f = 1 .. Len(f) /\ Len(f) \in Nat
  BY <1>1, <1>2, LenProperties
<1> QED
  BY <1>2, <1>3

LEMMA Multiple ==
  ASSUME NEW n \in Nat \ {0}, NEW d \in Int, n * d < n, n * d > -n
  PROVE  d = 0
<1>1. CASE d >= 1
  <2>1. d - 1 \in Nat /\ n \in Nat
    BY <1>1
  <2>2. n * (d - 1) \in Nat
    BY <2>1
  <2>3. n * d = n * (d - 1) + n
    BY <2>1
  <2> QED
    BY <2>1, <2>2, <2>3
<1>2. CASE d <= -1
  <2> DEFINE e == -d - 1
  <2>1. e \in Nat /\ n \in Nat /\ d = -e - 1
    BY <1>2
  <2> HIDE DEF e
  <2>2. n * e \in Nat
    BY <2>1
  <2>3. n * d = -(n * e) - n
    BY <2>1
  <2> QED
    BY <2>1, <2>2, <2>3
<1> QED
  BY <1>1, <1>2

LEMMA RemainderUnique ==
  ASSUME NEW n \in Nat \ {0}, NEW q \in Nat, NEW r \in 0 .. n - 1
  PROVE  (n * q + r) % n = r
<1> DEFINE k == n * q + r  s == k % n  p == k \div n
<1>1. k \in Nat
  <2>1. n * q \in Nat
    OBVIOUS
  <2> QED
    BY <2>1
<1>2. s \in 0 .. n - 1 /\ p \in Int /\ k = n * p + s
  <2> HIDE DEF k
  <2> QED
    BY <1>1
<1> HIDE DEF s, p
<1>3. n * (p - q) = r - s
  <2>1. n * (p - q) = n * p - n * q /\ n * p \in Int /\ n * q \in Int
    BY <1>2
  <2>2. n * p + s = n * q + r
    BY <1>2
  <2> QED
    BY <1>2, <2>1, <2>2
<1>4. p - q = 0
  BY <1>2, <1>3, Multiple
<1>5. r - s = 0
  BY <1>3, <1>4
<1> QED
  BY <1>2, <1>5 DEF s

LEMMA RemainderNext ==
  ASSUME NEW k \in Nat
  PROVE  /\ k % Frames \in Sample
         /\ ((k % Frames) + 1) % Frames = (k + 1) % Frames
         /\ 0 % Frames = 0
<1> DEFINE F == Frames  r == k % F  q == k \div F
<1>1. F \in Nat /\ F > 0 /\ r \in 0 .. F - 1 /\ q \in Nat /\ k = F * q + r
  BY SizesAssumption
<1> HIDE DEF r, q
<1>2. 0 % F = 0
  BY <1>1
<1>3. CASE r + 1 < F
  <2>1. k + 1 = F * q + (r + 1) /\ r + 1 \in 0 .. F - 1
    BY <1>1, <1>3
  <2>2. (k + 1) % F = r + 1
    BY <1>1, <2>1, RemainderUnique
  <2>3. (r + 1) % F = r + 1
    BY <1>1, <1>3
  <2> QED
    BY <1>1, <1>2, <2>2, <2>3 DEF r, Sample
<1>4. CASE r + 1 = F
  <2>1. k + 1 = F * (q + 1) + 0 /\ q + 1 \in Nat /\ 0 \in 0 .. F - 1
    BY <1>1, <1>4
  <2>2. (k + 1) % F = 0
    BY <1>1, <2>1, RemainderUnique
  <2>3. (r + 1) % F = 0
    BY <1>1, <1>4
  <2> QED
    BY <1>1, <1>2, <2>2, <2>3 DEF r, Sample
<1> QED
  BY <1>1, <1>3, <1>4

-----------------------------------------------------------------------------
(* Types. *)

DeviceTypeOK ==
  /\ inLeft \in Seq(Sample) /\ Len(inLeft) <= Depth
  /\ inRight \in Seq(Sample) /\ Len(inRight) <= Depth
  /\ outLeft \in Seq(Index) /\ Len(outLeft) <= Depth
  /\ outRight \in Seq(Index) /\ Len(outRight) <= Depth
  /\ nextIn \in {"left", "right"} /\ frame \in Sample
  /\ leftWasRead \in BOOLEAN /\ skewed \in BOOLEAN
  /\ control \in {0, 1, 2, 4, 8}

CpuTypeOK ==
  /\ edge \subseteq Keys /\ presses \in 0 .. MaxPresses
  /\ audio_pc \in Program /\ pending \subseteq {"KEY", "audio"}
  /\ KEY_value \subseteq Keys
  /\ buffer_index \in 0 .. BufSize
  /\ audio_pc \in {"in_left", "in_right", "out_left", "out_right"} => buffer_index \in Index
  /\ left_buffer \in Seq(Sample \cup {Silence}) /\ Len(left_buffer) <= BufSize
  /\ right_buffer \in Seq(Sample \cup {Silence}) /\ Len(right_buffer) <= BufSize
  /\ led \in {0, 1, 2}

LEMMA TypeParts == AudioTypeOK <=> DeviceTypeOK /\ CpuTypeOK
  BY DEF AudioTypeOK, DeviceTypeOK, CpuTypeOK

LEMMA ControlTyped ==
  ASSUME DeviceTypeOK, NEW v \in {0, 1, 2, 4, 8}, WriteControl(v)
  PROVE  DeviceTypeOK'
<1>1. control' = v /\ nextIn' = nextIn
  BY DEF WriteControl
<1>2. \A S : <<>> \in Seq(S) /\ Len(<<>>) = 0
  BY EmptySeq
<1>3. /\ inLeft' \in Seq(Sample) /\ Len(inLeft') <= Depth
      /\ inRight' \in Seq(Sample) /\ Len(inRight') <= Depth
  BY <1>2, SizesAssumption DEF WriteControl, DeviceTypeOK
<1>4. /\ outLeft' \in Seq(Index) /\ Len(outLeft') <= Depth
      /\ outRight' \in Seq(Index) /\ Len(outRight') <= Depth
  BY <1>2, SizesAssumption DEF WriteControl, DeviceTypeOK
<1>5. leftWasRead' \in BOOLEAN /\ skewed' \in BOOLEAN
  BY DEF WriteControl, DeviceTypeOK
<1>6. frame' \in Sample
  BY SizesAssumption DEF WriteControl, DeviceTypeOK, Sample
<1> QED
  BY <1>1, <1>3, <1>4, <1>5, <1>6 DEF DeviceTypeOK

\* Steps of the handlers between two accesses to the port, and key presses.
Apart ==
  \/ Interrupt \/ Dispatch \/ KeyRead \/ KeyClear
  \/ AudioRI \/ InSpace \/ AudioWI \/ OutSpace \/ (\E k \in Keys : PressKey(k))

LEMMA ApartIs ==
  ASSUME Apart
  PROVE  UNCHANGED <<device, control>>
  BY DEF Apart, Interrupt, Dispatch, KeyRead, KeyClear, AudioRI, InSpace, AudioWI, OutSpace, PressKey

LEMMA CodecIs ==
  ASSUME Codec \/ Dac
  PROVE  UNCHANGED <<control, keys, cpu>>
  BY DEF Codec, Dac, AdcLeft, AdcRight, DacLeft, DacRight

LEMMA DeviceStep ==
  ASSUME AudioTypeOK, [AudioNext]_audioVars
  PROVE  DeviceTypeOK'
<1>1. DeviceTypeOK /\ buffer_index \in 0 .. BufSize
  BY DEF AudioTypeOK, DeviceTypeOK
<1>2. CASE Apart \/ UNCHANGED audioVars
  <2>1. UNCHANGED <<device, control>>
    BY <1>2, ApartIs DEF audioVars
  <2> QED
    BY <1>1, <2>1 DEF DeviceTypeOK, device
<1>3. CASE AdcLeft
  <2>1. inLeft' \in Seq(Sample) /\ Len(inLeft') <= Depth
    BY <1>1, <1>3, PushIs, EmptySeq, SizesAssumption DEF AdcLeft, DeviceTypeOK
  <2>2. nextIn' = "right" /\ skewed' \in BOOLEAN
    BY <1>3 DEF AdcLeft
  <2> QED
    BY <1>1, <1>3, <2>1, <2>2 DEF AdcLeft, DeviceTypeOK
<1>4. CASE AdcRight
  <2>1. inRight' \in Seq(Sample) /\ Len(inRight') <= Depth
    BY <1>1, <1>4, PushIs, EmptySeq, SizesAssumption DEF AdcRight, DeviceTypeOK
  <2>2. nextIn' = "left" /\ skewed' \in BOOLEAN
    BY <1>4 DEF AdcRight
  <2>3. frame + 1 \in Nat /\ 0 \in Nat /\ frame' = (IF control = 1 THEN (frame + 1) % Frames ELSE 0)
    BY <1>1, <1>4, SizesAssumption DEF AdcRight, DeviceTypeOK, Sample
  <2>4. frame' \in Sample
    BY <2>3, RemainderNext
  <2> QED
    BY <1>1, <1>4, <2>1, <2>2, <2>4 DEF AdcRight, DeviceTypeOK
<1>5. CASE DacLeft
  <2>1. outLeft \in Seq(Index) /\ outLeft # <<>> /\ Len(outLeft) <= Depth
    BY <1>1, <1>5 DEF DacLeft, DeviceTypeOK
  <2>2. Tail(outLeft) \in Seq(Index) /\ Len(Tail(outLeft)) <= Depth
    BY <2>1, RestIs, SizesAssumption
  <2>3. /\ outLeft' = Tail(outLeft) /\ leftWasRead' = TRUE
        /\ UNCHANGED <<inLeft, inRight, outRight, nextIn, frame, skewed, control>>
    BY <1>5 DEF DacLeft
  <2> QED
    BY <1>1, <2>2, <2>3 DEF DeviceTypeOK
<1>6. CASE DacRight
  <2>1. outRight \in Seq(Index) /\ Len(outRight) <= Depth
    BY <1>1 DEF DeviceTypeOK
  <2>2. Rest(outRight) \in Seq(Index) /\ Len(Rest(outRight)) <= Depth
    <3>1. /\ Rest(outRight) \in Seq(Index) /\ Len(Rest(outRight)) <= Len(outRight) /\ Len(outRight) \in Nat
      BY <2>1, RestTyped
    <3> QED
      BY <2>1, <3>1, LenProperties, SizesAssumption
  <2>3. /\ outRight' = Rest(outRight) /\ leftWasRead' = FALSE
        /\ UNCHANGED <<inLeft, inRight, outLeft, nextIn, frame, skewed, control>>
    BY <1>6 DEF DacRight
  <2> QED
    BY <1>1, <2>2, <2>3 DEF DeviceTypeOK
<1>7. CASE FifoClear \/ FifoEnable
  <2>1. PICK v \in {1, 2, 4, 8} : WriteControl(v)
    BY <1>7 DEF FifoClear, FifoEnable
  <2> QED
    BY <1>1, <2>1, ControlTyped
<1>8. CASE InLeft
  <2>1. inLeft \in Seq(Sample) /\ Len(inLeft) <= Depth
    BY <1>1 DEF DeviceTypeOK
  <2>2. Rest(inLeft) \in Seq(Sample) /\ Len(Rest(inLeft)) <= Depth
    <3>1. /\ Rest(inLeft) \in Seq(Sample) /\ Len(Rest(inLeft)) <= Len(inLeft) /\ Len(inLeft) \in Nat
      BY <2>1, RestTyped
    <3> QED
      BY <2>1, <3>1, LenProperties, SizesAssumption
  <2>3. /\ inLeft' = Rest(inLeft)
        /\ UNCHANGED <<inRight, outLeft, outRight, nextIn, frame, leftWasRead, skewed, control>>
    BY <1>8 DEF InLeft
  <2> QED
    BY <1>1, <2>2, <2>3 DEF DeviceTypeOK
<1>9. CASE InRight
  <2>1. inRight \in Seq(Sample) /\ Len(inRight) <= Depth
    BY <1>1 DEF DeviceTypeOK
  <2>2. Rest(inRight) \in Seq(Sample) /\ Len(Rest(inRight)) <= Depth
    <3>1. /\ Rest(inRight) \in Seq(Sample) /\ Len(Rest(inRight)) <= Len(inRight) /\ Len(inRight) \in Nat
      BY <2>1, RestTyped
    <3> QED
      BY <2>1, <3>1, LenProperties, SizesAssumption
  <2>3. /\ inRight' = Rest(inRight)
        /\ UNCHANGED <<inLeft, outLeft, outRight, nextIn, frame, leftWasRead, skewed, control>>
    BY <1>9 DEF InRight
  <2> QED
    BY <1>1, <2>2, <2>3 DEF DeviceTypeOK
<1>10. CASE InDone \/ OutDone
  <2>1. WriteControl(0)
    BY <1>10 DEF InDone, OutDone
  <2> QED
    BY <1>1, <2>1, ControlTyped
<1>11. CASE OutLeft
  <2>1. buffer_index \in Index
    BY <1>11 DEF OutLeft, AudioTypeOK
  <2> QED
    BY <1>1, <1>11, <2>1, PushIs DEF OutLeft, DeviceTypeOK
<1>12. CASE OutRight
  <2>1. buffer_index \in Index
    BY <1>12 DEF OutRight, AudioTypeOK
  <2> QED
    BY <1>1, <1>12, <2>1, PushIs DEF OutRight, DeviceTypeOK
<1> QED
  BY <1>2, <1>3, <1>4, <1>5, <1>6, <1>7, <1>8, <1>9, <1>10, <1>11, <1>12
  DEF AudioNext, Codec, Dac, Handler, Apart

LEMMA CpuStep ==
  ASSUME AudioTypeOK, ControlInv, BufferInv, [AudioNext]_audioVars
  PROVE  CpuTypeOK'
<1>1. CpuTypeOK
  BY TypeParts
<1>2. CASE Codec \/ Dac \/ UNCHANGED audioVars
  <2>1. UNCHANGED <<keys, cpu>>
    BY <1>2, CodecIs DEF audioVars
  <2> QED
    BY <1>1, <2>1 DEF CpuTypeOK, keys, cpu, buffers, Program
<1>3. ASSUME NEW k \in Keys, PressKey(k) PROVE CpuTypeOK'
  BY <1>1, <1>3, SizesAssumption DEF PressKey, CpuTypeOK, cpu, buffers, Program
<1>4. CASE Interrupt \/ Dispatch
  <2>1. pending' \subseteq {"KEY", "audio"} /\ audio_pc' \in {"main", "dispatch", "key_read", "audio_RI"}
    BY <1>1, <1>4 DEF Interrupt, Dispatch, irq, CpuTypeOK
  <2>2. UNCHANGED <<keys, KEY_value, buffers, led>>
    BY <1>4 DEF Interrupt, Dispatch
  <2> QED
    BY <1>1, <2>1, <2>2 DEF CpuTypeOK, keys, buffers, Program
<1>5. CASE KeyRead
  BY <1>1, <1>5 DEF KeyRead, CpuTypeOK, keys, buffers, Program
<1>6. CASE KeyClear
  <2>1. /\ audio_pc' \in {"fifo_clear", "dispatch"} /\ edge' = {} /\ KEY_value' \subseteq Keys
        /\ UNCHANGED <<presses, pending, led>>
    BY <1>1, <1>6 DEF KeyClear, CpuTypeOK
  <2>2. /\ buffer_index' \in 0 .. BufSize
        /\ left_buffer' \in Seq(Sample \cup {Silence}) /\ Len(left_buffer') <= BufSize
        /\ right_buffer' \in Seq(Sample \cup {Silence}) /\ Len(right_buffer') <= BufSize
    <3>1. <<>> \in Seq(Sample \cup {Silence}) /\ Len(<<>>) = 0
      BY EmptySeq
    <3>2. CASE KEY_value \in {{1}, {2}}
      BY <1>6, <3>1, <3>2, SizesAssumption DEF KeyClear
    <3>3. CASE KEY_value \notin {{1}, {2}}
      BY <1>1, <1>6, <3>3 DEF KeyClear, CpuTypeOK, buffers
    <3> QED
      BY <3>2, <3>3
  <2> QED
    BY <1>1, <2>1, <2>2 DEF CpuTypeOK, Program
<1>7. CASE FifoClear \/ FifoEnable
  <2>1. /\ audio_pc' \in {"fifo_enable", "dispatch"} /\ KEY_value' \subseteq Keys
        /\ UNCHANGED <<keys, pending, buffers, led>>
    BY <1>1, <1>7 DEF FifoClear, FifoEnable, CpuTypeOK
  <2> QED
    BY <1>1, <2>1 DEF CpuTypeOK, keys, buffers, Program
<1>8. CASE AudioRI \/ AudioWI
  <2>1. /\ audio_pc' \in {"in_space", "audio_WI", "out_space", "dispatch"} /\ led' \in {0, 1, 2}
        /\ UNCHANGED <<keys, pending, KEY_value, buffers>>
    BY <1>1, <1>8 DEF AudioRI, AudioWI, CpuTypeOK
  <2> QED
    BY <1>1, <2>1 DEF CpuTypeOK, keys, buffers, Program
<1>9. CASE InSpace \/ OutSpace
  <2>1. /\ audio_pc' \in {"in_left", "audio_WI", "out_left", "dispatch"}
        /\ audio_pc' \in {"in_left", "out_left"} => buffer_index < BufSize
        /\ UNCHANGED <<keys, pending, KEY_value, buffers, led>>
    BY <1>9 DEF InSpace, OutSpace
  <2> QED
    BY <1>1, <2>1, SizesAssumption DEF CpuTypeOK, keys, buffers, Program, Index
<1>10. CASE InLeft
  <2>1. audio_pc = "in_left" /\ control = 1
    BY <1>10 DEF InLeft, ControlInv, Storing
  <2>2. Len(left_buffer) < BufSize
    <3>1. buffer_index < BufSize
      BY <1>1, <2>1, SizesAssumption DEF CpuTypeOK, Index
    <3> QED
      BY <2>1, <3>1 DEF BufferInv
  <2>3. FirstOf(inLeft) \in Sample \cup {Silence}
    BY RestTyped DEF AudioTypeOK
  <2>4. left_buffer' \in Seq(Sample \cup {Silence}) /\ Len(left_buffer') <= BufSize
    BY <1>1, <1>10, <2>2, <2>3, AppendProperties, LenProperties, SizesAssumption DEF InLeft, CpuTypeOK
  <2> QED
    BY <1>1, <1>10, <2>4 DEF InLeft, CpuTypeOK, keys, Program
<1>11. CASE InRight
  <2>1. audio_pc = "in_right" /\ control = 1
    BY <1>11 DEF InRight, ControlInv, Storing
  <2>2. buffer_index = Len(right_buffer) /\ buffer_index \in Index
    BY <1>1, <2>1 DEF CpuTypeOK, BufferInv
  <2>3. FirstOf(inRight) \in Sample \cup {Silence}
    BY RestTyped DEF AudioTypeOK
  <2>4. right_buffer' \in Seq(Sample \cup {Silence}) /\ Len(right_buffer') = Len(right_buffer) + 1
    BY <1>1, <1>11, <2>3, AppendProperties, LenProperties DEF InRight, CpuTypeOK
  <2>5. buffer_index' \in 0 .. BufSize /\ Len(right_buffer') <= BufSize
    BY <1>11, <2>2, <2>4, SizesAssumption DEF InRight, Index
  <2>6. audio_pc' \in {"in_done", "in_space"}
    BY <1>11 DEF InRight
  <2> QED
    BY <1>1, <1>11, <2>4, <2>5, <2>6 DEF InRight, CpuTypeOK, keys, Program
<1>12. CASE InDone
  BY <1>1, <1>12, EmptySeq, SizesAssumption DEF InDone, CpuTypeOK, keys, Program
<1>13. CASE OutLeft
  BY <1>1, <1>13 DEF OutLeft, CpuTypeOK, keys, buffers, Program
<1>14. CASE OutRight
  <2>1. buffer_index \in Index
    BY <1>1, <1>14 DEF OutRight, CpuTypeOK
  <2>2. buffer_index' \in 0 .. BufSize /\ audio_pc' \in {"out_done", "out_space"}
    BY <1>14, <2>1, SizesAssumption DEF OutRight, Index
  <2> QED
    BY <1>1, <1>14, <2>2 DEF OutRight, CpuTypeOK, keys, Program
<1>15. CASE OutDone
  BY <1>1, <1>15 DEF OutDone, CpuTypeOK, keys, buffers, Program
<1> QED
  BY <1>2, <1>3, <1>4, <1>5, <1>6, <1>7, <1>8, <1>9, <1>10, <1>11, <1>12, <1>13, <1>14, <1>15
  DEF AudioNext, Handler

-----------------------------------------------------------------------------
(* Control. *)

LEMMA ControlStep ==
  ASSUME AudioTypeOK, ControlInv, [AudioNext]_audioVars
  PROVE  ControlInv'
<1>1. /\ buffer_index \in 0 .. BufSize /\ BufSize \in Nat \ {0} /\ audio_pc \in Program
      /\ audio_pc \in {"in_left", "in_right", "out_left", "out_right"} => buffer_index \in Index
  BY SizesAssumption DEF AudioTypeOK
<1>2. CASE Codec \/ Dac \/ UNCHANGED audioVars
  <2>1. UNCHANGED <<control, KEY_value, audio_pc, buffer_index>>
    BY <1>2, CodecIs DEF audioVars, cpu, buffers
  <2> QED
    BY <2>1 DEF ControlInv
<1>3. CASE Interrupt \/ Dispatch \/ KeyRead \/ (\E k \in Keys : PressKey(k))
  <2>1. UNCHANGED <<control, buffer_index>>
    BY <1>3 DEF Interrupt, Dispatch, KeyRead, PressKey, cpu, buffers
  <2>2. \/ UNCHANGED <<audio_pc, KEY_value>>
        \/ audio_pc' \in {"main", "dispatch", "key_read", "key_clear", "audio_RI"} /\ audio_pc # "fifo_enable"
    BY <1>3 DEF Interrupt, Dispatch, KeyRead, PressKey, cpu
  <2> QED
    BY <2>1, <2>2 DEF ControlInv, Storing, Playing
<1>4. CASE KeyClear
  BY <1>1, <1>4 DEF KeyClear, ControlInv, Storing, Playing
<1>5. CASE FifoClear
  <2>1. control' = (IF KEY_value = {1} THEN 4 ELSE 8)
    BY <1>5 DEF FifoClear, WriteControl
  <2> QED
    BY <1>5, <2>1 DEF FifoClear, buffers, ControlInv, Storing, Playing
<1>6. CASE FifoEnable
  <2>1. control' \in {1, 2}
    BY <1>6 DEF FifoEnable, WriteControl
  <2> QED
    BY <1>6, <2>1 DEF FifoEnable, buffers, ControlInv, Storing, Playing
<1>7. CASE AudioRI \/ AudioWI
  <2>1. UNCHANGED <<control, KEY_value, buffer_index>>
    BY <1>7 DEF AudioRI, AudioWI, buffers
  <2>2. \/ audio_pc' = "in_space" /\ control = 1
        \/ audio_pc' = "out_space" /\ control = 2
        \/ audio_pc' \in {"audio_WI", "dispatch"}
    BY <1>7 DEF AudioRI, AudioWI, RI, WI
  <2>3. control \notin {4, 8}
    BY <1>7 DEF AudioRI, AudioWI, ControlInv
  <2> QED
    BY <2>1, <2>2, <2>3 DEF ControlInv, Storing, Playing
<1>8. CASE InSpace \/ OutSpace
  <2>1. UNCHANGED <<control, KEY_value, buffer_index>>
    BY <1>8 DEF InSpace, OutSpace, buffers
  <2>2. \/ audio_pc' = "in_left" /\ control = 1
        \/ audio_pc' = "out_left" /\ control = 2
        \/ audio_pc' \in {"audio_WI", "dispatch"}
    BY <1>1, <1>8 DEF InSpace, OutSpace, ControlInv
  <2>3. control \notin {4, 8}
    BY <1>8 DEF InSpace, OutSpace, ControlInv
  <2> QED
    BY <2>1, <2>2, <2>3 DEF ControlInv, Storing, Playing
<1>9. CASE InLeft \/ OutLeft
  <2>1. UNCHANGED <<control, KEY_value, buffer_index>>
    BY <1>9 DEF InLeft, OutLeft, buffers
  <2>2. \/ audio_pc' = "in_right" /\ control = 1
        \/ audio_pc' = "out_right" /\ control = 2
    BY <1>9 DEF InLeft, OutLeft, ControlInv, Storing, Playing
  <2> QED
    BY <2>1, <2>2 DEF ControlInv, Storing, Playing
<1>10. CASE InRight \/ OutRight
  <2>1. UNCHANGED <<control, KEY_value>>
    BY <1>10 DEF InRight, OutRight
  <2>2. \/ audio_pc' = "in_done" /\ control = 1 /\ buffer_index' = BufSize
        \/ audio_pc' = "in_space" /\ control = 1
        \/ audio_pc' = "out_done" /\ control = 2 /\ buffer_index' = BufSize
        \/ audio_pc' = "out_space" /\ control = 2
    BY <1>10 DEF InRight, OutRight, ControlInv, Storing, Playing
  <2> QED
    BY <2>1, <2>2 DEF ControlInv, Storing, Playing
<1>11. CASE InDone \/ OutDone
  <2>1. control' = 0 /\ audio_pc' \in {"in_space", "out_space"}
    BY <1>11 DEF InDone, OutDone, WriteControl
  <2>2. buffer_index = BufSize /\ UNCHANGED <<KEY_value, buffer_index>>
    BY <1>11 DEF InDone, OutDone, ControlInv, buffers
  <2> QED
    BY <2>1, <2>2 DEF ControlInv, Storing, Playing
<1> QED
  BY <1>2, <1>3, <1>4, <1>5, <1>6, <1>7, <1>8, <1>9, <1>10, <1>11 DEF AudioNext, Handler

LEMMA BufferStep ==
  ASSUME AudioTypeOK, ControlInv, BufferInv, [AudioNext]_audioVars
  PROVE  BufferInv'
<1>1. /\ left_buffer \in Seq(Sample \cup {Silence}) /\ Len(left_buffer) \in Nat
      /\ right_buffer \in Seq(Sample \cup {Silence}) /\ Len(right_buffer) \in Nat
      /\ control \in {0, 1, 2, 4, 8}
  BY LenProperties DEF AudioTypeOK
<1>2. <<>> \in Seq(Sample \cup {Silence}) /\ Len(<<>>) = 0
  BY EmptySeq
<1>3. CASE Codec \/ Dac \/ UNCHANGED audioVars
  <2>1. UNCHANGED <<control, audio_pc, buffers>>
    BY <1>3, CodecIs DEF audioVars, cpu
  <2> QED
    BY <2>1 DEF BufferInv, buffers
<1>4. CASE \/ Interrupt \/ Dispatch \/ KeyRead \/ AudioRI \/ AudioWI \/ InSpace \/ OutSpace
           \/ (\E k \in Keys : PressKey(k))
  <2>1. UNCHANGED <<control, buffers>>
    BY <1>4 DEF Interrupt, Dispatch, KeyRead, AudioRI, AudioWI, InSpace, OutSpace, PressKey, cpu
  <2>2. \/ UNCHANGED audio_pc
        \/ {audio_pc, audio_pc'} \cap {"in_right", "fifo_clear"} = {}
    BY <1>4 DEF Interrupt, Dispatch, KeyRead, AudioRI, AudioWI, InSpace, OutSpace, PressKey, cpu
  <2> QED
    BY <2>1, <2>2 DEF BufferInv, buffers
<1>5. CASE KeyClear
  <2>1. CASE KEY_value \in {{1}, {2}}
    BY <1>2, <1>5, <2>1 DEF KeyClear, BufferInv
  <2>2. CASE KEY_value \notin {{1}, {2}}
    BY <1>5, <2>2 DEF KeyClear, BufferInv, buffers
  <2> QED
    BY <2>1, <2>2
<1>6. CASE FifoClear \/ FifoEnable
  <2>1. /\ audio_pc \in {"fifo_clear", "fifo_enable"} /\ audio_pc' \in {"fifo_enable", "dispatch"}
        /\ UNCHANGED buffers
    BY <1>6 DEF FifoClear, FifoEnable
  <2>2. right_buffer = <<>> /\ buffer_index = 0
    BY <1>6 DEF BufferInv, ControlInv, FifoClear, FifoEnable
  <2> QED
    BY <1>2, <2>1, <2>2 DEF BufferInv, buffers
<1>7. CASE InLeft
  <2>1. Len(left_buffer') = Len(left_buffer) + 1
    <3>1. FirstOf(inLeft) \in Sample \cup {Silence}
      BY RestTyped DEF AudioTypeOK
    <3> QED
      BY <1>1, <1>7, <3>1, AppendProperties DEF InLeft
  <2>2. control = 1
    BY <1>7 DEF InLeft, ControlInv, Storing
  <2> QED
    BY <1>1, <1>7, <2>1, <2>2 DEF InLeft, BufferInv
<1>8. CASE InRight
  <2>1. Len(right_buffer') = Len(right_buffer) + 1
    <3>1. FirstOf(inRight) \in Sample \cup {Silence}
      BY RestTyped DEF AudioTypeOK
    <3> QED
      BY <1>1, <1>8, <3>1, AppendProperties DEF InRight
  <2>2. control = 1
    BY <1>8 DEF InRight, ControlInv, Storing
  <2> QED
    BY <1>1, <1>8, <2>1, <2>2 DEF InRight, BufferInv
<1>9. CASE InDone
  BY <1>2, <1>9 DEF InDone, WriteControl, BufferInv
<1>10. CASE OutLeft \/ OutRight
  <2>1. control = 2
    BY <1>10 DEF OutLeft, OutRight, ControlInv, Playing
  <2>2. /\ audio_pc \notin {"in_right", "fifo_clear"} /\ audio_pc' \notin {"in_right", "fifo_clear"}
        /\ UNCHANGED <<control, left_buffer, right_buffer>>
    BY <1>10 DEF OutLeft, OutRight, buffers
  <2> QED
    BY <2>1, <2>2 DEF BufferInv
<1>11. CASE OutDone
  <2>1. control = 2
    BY <1>11 DEF OutDone, ControlInv, Playing
  <2> QED
    BY <1>11, <2>1 DEF OutDone, WriteControl, BufferInv, buffers
<1> QED
  BY <1>3, <1>4, <1>5, <1>6, <1>7, <1>8, <1>9, <1>10, <1>11 DEF AudioNext, Handler

-----------------------------------------------------------------------------
(* Recording. *)

LEMMA StreamSame ==
  ASSUME Stream, UNCHANGED <<inLeft, inRight, left_buffer, right_buffer, nextIn, frame>>
  PROVE  Stream'
  BY DEF Stream, Lead

LEMMA StreamTypes ==
  ASSUME AudioTypeOK
  PROVE  /\ inLeft \in Seq(Sample) /\ Len(inLeft) \in Nat
         /\ inRight \in Seq(Sample) /\ Len(inRight) \in Nat /\ (inRight = <<>> <=> Len(inRight) = 0)
         /\ left_buffer \in Seq(Sample \cup {Silence}) /\ Len(left_buffer) \in Nat
         /\ right_buffer \in Seq(Sample \cup {Silence}) /\ Len(right_buffer) \in Nat
         /\ Len(inLeft) <= Depth /\ Len(inRight) <= Depth /\ frame \in Sample /\ Depth \in Nat
         /\ control \in {0, 1, 2, 4, 8} /\ nextIn \in {"left", "right"}
  BY EmptySeq, LenProperties, SizesAssumption DEF AudioTypeOK

\* A left half enters its FIFO.
LEMMA StreamAdcLeft ==
  ASSUME AudioTypeOK, Stream, AdcLeft, control = 1, ~skewed'
  PROVE  Stream'
<1>1. /\ nextIn = "left" /\ nextIn' = "right" /\ inLeft' = Push(inLeft, frame) /\ Len(inLeft) # Depth
      /\ UNCHANGED <<inRight, frame, left_buffer, right_buffer>>
  BY DEF AdcLeft, ClearIn, cpu, buffers
<1>2. /\ Len(inLeft') = Len(inLeft) + 1
      /\ \A i \in 1 .. Len(inLeft) : inLeft'[i] = inLeft[i]
      /\ inLeft'[Len(inLeft) + 1] = frame
  <2>1. inLeft \in Seq(Sample) /\ frame \in Sample /\ Len(inLeft) < Depth
    BY <1>1, StreamTypes
  <2>2. /\ Len(Push(inLeft, frame)) = Len(inLeft) + 1
        /\ \A i \in 1 .. Len(inLeft) : Push(inLeft, frame)[i] = inLeft[i]
        /\ Push(inLeft, frame)[Len(inLeft) + 1] = frame
    BY <2>1, PushIs
  <2>3. inLeft' = Push(inLeft, frame)
    BY <1>1
  <2> QED
    BY <2>2, <2>3
<1>3. Len(left_buffer) + Len(inLeft) = Len(right_buffer) + Len(inRight)
  BY <1>1, StreamTypes DEF Stream, Lead
<1>4. \A i \in 1 .. Len(inLeft') : inLeft'[i] = (Len(left_buffer') + i - 1) % Frames
  <2> SUFFICES ASSUME NEW i \in 1 .. Len(inLeft')
               PROVE  inLeft'[i] = (Len(left_buffer) + i - 1) % Frames
    BY <1>1
  <2>1. CASE i \in 1 .. Len(inLeft)
    BY <1>2, <2>1 DEF Stream
  <2>2. CASE i = Len(inLeft) + 1
    <3>1. Len(left_buffer) + i - 1 = Len(right_buffer) + Len(inRight)
      BY <1>3, <2>2, StreamTypes
    <3> QED
      BY <1>2, <2>2, <3>1 DEF Stream
  <2> QED
    BY <1>2, <2>1, <2>2, StreamTypes
<1>5. Len(left_buffer') + Len(inLeft') = Len(right_buffer') + Len(inRight') + Lead'
  BY <1>1, <1>2, <1>3, StreamTypes DEF Lead
<1> QED
  BY <1>1, <1>4, <1>5 DEF Stream

\* A right half enters its FIFO and completes the frame.
LEMMA StreamAdcRight ==
  ASSUME AudioTypeOK, Stream, AdcRight, control = 1, ~skewed'
  PROVE  Stream'
<1>1. /\ nextIn = "right" /\ nextIn' = "left" /\ inRight' = Push(inRight, frame) /\ Len(inRight) # Depth
      /\ frame' = (frame + 1) % Frames
      /\ UNCHANGED <<inLeft, left_buffer, right_buffer>>
  <2>1. /\ nextIn = "right" /\ nextIn' = "left" /\ frame' = (frame + 1) % Frames
        /\ UNCHANGED <<inLeft, left_buffer, right_buffer>>
    BY DEF AdcRight, cpu, buffers
  <2>2. inRight' = Push(inRight, frame)
    BY DEF AdcRight, ClearIn
  <2>3. Len(inRight) # Depth
    BY Zenon DEF AdcRight
  <2> QED
    BY <2>1, <2>2, <2>3
<1>2. /\ Len(inRight') = Len(inRight) + 1
      /\ \A i \in 1 .. Len(inRight) : inRight'[i] = inRight[i]
      /\ inRight'[Len(inRight) + 1] = frame
  <2>1. inRight \in Seq(Sample) /\ frame \in Sample /\ Len(inRight) < Depth
    BY <1>1, StreamTypes
  <2>2. /\ Len(Push(inRight, frame)) = Len(inRight) + 1
        /\ \A i \in 1 .. Len(inRight) : Push(inRight, frame)[i] = inRight[i]
        /\ Push(inRight, frame)[Len(inRight) + 1] = frame
    BY <2>1, PushIs
  <2>3. inRight' = Push(inRight, frame)
    BY <1>1
  <2> QED
    BY <2>2, <2>3
<1>3. \A i \in 1 .. Len(inRight') : inRight'[i] = (Len(right_buffer') + i - 1) % Frames
  <2> SUFFICES ASSUME NEW i \in 1 .. Len(inRight')
               PROVE  inRight'[i] = (Len(right_buffer) + i - 1) % Frames
    BY <1>1
  <2>1. CASE i \in 1 .. Len(inRight)
    BY <1>2, <2>1 DEF Stream
  <2>2. CASE i = Len(inRight) + 1
    <3>1. Len(right_buffer) + i - 1 = Len(right_buffer) + Len(inRight)
      BY <2>2, StreamTypes
    <3> QED
      BY <1>2, <2>2, <3>1 DEF Stream
  <2> QED
    BY <1>2, <2>1, <2>2, StreamTypes
<1>4. frame' = (Len(right_buffer') + Len(inRight')) % Frames
  <2> DEFINE n == Len(right_buffer) + Len(inRight)
  <2>1. n \in Nat /\ Len(right_buffer') + Len(inRight') = n + 1 /\ frame = n % Frames
    BY <1>1, <1>2, StreamTypes DEF Stream
  <2> HIDE DEF n
  <2> QED
    BY <1>1, <2>1, RemainderNext
<1>5. Len(left_buffer') + Len(inLeft') = Len(right_buffer') + Len(inRight') + Lead'
  BY <1>1, <1>2, StreamTypes DEF Stream, Lead
<1> QED
  BY <1>1, <1>3, <1>4, <1>5 DEF Stream

\* The oldest left half moves to the buffer.
LEMMA StreamInLeft ==
  ASSUME AudioTypeOK, BufferInv, Stream, InLeft, inRight # <<>>
  PROVE  Stream'
<1>1. /\ inLeft' = Rest(inLeft) /\ left_buffer' = Append(left_buffer, FirstOf(inLeft))
      /\ UNCHANGED <<inRight, right_buffer, nextIn, frame>> /\ audio_pc = "in_left"
  BY DEF InLeft
<1>2. inLeft # <<>>
  <2>1. Len(left_buffer) = Len(right_buffer)
    BY <1>1, StreamTypes DEF BufferInv
  <2>2. Len(inLeft) >= Len(inRight) /\ Len(inRight) > 0
    BY <2>1, StreamTypes DEF Stream, Lead
  <2> QED
    BY <2>2, StreamTypes, EmptySeq
<1>3. /\ Len(inLeft') = Len(inLeft) - 1 /\ Len(inLeft) >= 1
      /\ \A i \in 1 .. Len(inLeft) - 1 : inLeft'[i] = inLeft[i + 1]
      /\ FirstOf(inLeft) = inLeft[1] /\ inLeft[1] \in Sample
  BY <1>1, <1>2, StreamTypes, RestIs
<1>4. /\ Len(left_buffer') = Len(left_buffer) + 1
      /\ \A i \in 1 .. Len(left_buffer) : left_buffer'[i] = left_buffer[i]
      /\ left_buffer'[Len(left_buffer) + 1] = inLeft[1]
  BY <1>1, <1>3, StreamTypes, AppendProperties
<1>5. \A i \in 1 .. Len(left_buffer') : left_buffer'[i] = (i - 1) % Frames
  <2> SUFFICES ASSUME NEW i \in 1 .. Len(left_buffer')
               PROVE  left_buffer'[i] = (i - 1) % Frames
    OBVIOUS
  <2>1. CASE i \in 1 .. Len(left_buffer)
    BY <1>4, <2>1 DEF Stream
  <2>2. CASE i = Len(left_buffer) + 1
    <3>1. 1 \in 1 .. Len(inLeft) /\ Len(left_buffer) + 1 - 1 = i - 1
      BY <1>3, <2>2, StreamTypes
    <3> QED
      BY <1>4, <2>2, <3>1 DEF Stream
  <2> QED
    BY <1>4, <2>1, <2>2, StreamTypes
<1>6. \A i \in 1 .. Len(inLeft') : inLeft'[i] = (Len(left_buffer') + i - 1) % Frames
  <2> SUFFICES ASSUME NEW i \in 1 .. Len(inLeft')
               PROVE  inLeft'[i] = (Len(left_buffer') + i - 1) % Frames
    OBVIOUS
  <2>1. i + 1 \in 1 .. Len(inLeft) /\ Len(left_buffer) + (i + 1) - 1 = Len(left_buffer') + i - 1
    BY <1>3, <1>4, StreamTypes
  <2> QED
    BY <1>3, <2>1, StreamTypes DEF Stream
<1>7. Len(left_buffer') + Len(inLeft') = Len(right_buffer') + Len(inRight') + Lead'
  <2>1. Len(left_buffer') + Len(inLeft') = Len(left_buffer) + Len(inLeft)
    BY <1>3, <1>4, StreamTypes
  <2> QED
    BY <1>1, <2>1 DEF Stream, Lead
<1> QED
  BY <1>1, <1>5, <1>6, <1>7 DEF Stream

\* The oldest right half moves to the buffer.
LEMMA StreamInRight ==
  ASSUME AudioTypeOK, Stream, InRight, inRight # <<>>
  PROVE  Stream'
<1>1. /\ inRight' = Rest(inRight) /\ right_buffer' = Append(right_buffer, FirstOf(inRight))
      /\ UNCHANGED <<inLeft, left_buffer, nextIn, frame>>
  BY DEF InRight
<1>3. /\ Len(inRight') = Len(inRight) - 1 /\ Len(inRight) >= 1
      /\ \A i \in 1 .. Len(inRight) - 1 : inRight'[i] = inRight[i + 1]
      /\ FirstOf(inRight) = inRight[1] /\ inRight[1] \in Sample
  BY <1>1, StreamTypes, RestIs
<1>4. /\ Len(right_buffer') = Len(right_buffer) + 1
      /\ \A i \in 1 .. Len(right_buffer) : right_buffer'[i] = right_buffer[i]
      /\ right_buffer'[Len(right_buffer) + 1] = inRight[1]
  BY <1>1, <1>3, StreamTypes, AppendProperties
<1>5. \A i \in 1 .. Len(right_buffer') : right_buffer'[i] = (i - 1) % Frames
  <2> SUFFICES ASSUME NEW i \in 1 .. Len(right_buffer')
               PROVE  right_buffer'[i] = (i - 1) % Frames
    OBVIOUS
  <2>1. CASE i \in 1 .. Len(right_buffer)
    BY <1>4, <2>1 DEF Stream
  <2>2. CASE i = Len(right_buffer) + 1
    <3>1. 1 \in 1 .. Len(inRight) /\ Len(right_buffer) + 1 - 1 = i - 1
      BY <1>3, <2>2, StreamTypes
    <3> QED
      BY <1>4, <2>2, <3>1 DEF Stream
  <2> QED
    BY <1>4, <2>1, <2>2, StreamTypes
<1>6. \A i \in 1 .. Len(inRight') : inRight'[i] = (Len(right_buffer') + i - 1) % Frames
  <2> SUFFICES ASSUME NEW i \in 1 .. Len(inRight')
               PROVE  inRight'[i] = (Len(right_buffer') + i - 1) % Frames
    OBVIOUS
  <2>1. i + 1 \in 1 .. Len(inRight) /\ Len(right_buffer) + (i + 1) - 1 = Len(right_buffer') + i - 1
    BY <1>3, <1>4, StreamTypes
  <2> QED
    BY <1>3, <2>1, StreamTypes DEF Stream
<1>7. Len(right_buffer') + Len(inRight') = Len(right_buffer) + Len(inRight)
  BY <1>3, <1>4, StreamTypes
<1>8. /\ Len(left_buffer') + Len(inLeft') = Len(right_buffer') + Len(inRight') + Lead'
      /\ frame' = (Len(right_buffer') + Len(inRight')) % Frames
  BY <1>1, <1>7, StreamTypes DEF Stream, Lead
<1> QED
  BY <1>1, <1>5, <1>6, <1>8 DEF Stream

\* Steps that leave recording alone.
LEMMA StreamApart ==
  ASSUME ControlInv, StreamInv,
         UNCHANGED <<inLeft, inRight, left_buffer, right_buffer, nextIn, frame, skewed>>,
         control' = control \/ control' \notin {1, 4},
         \/ UNCHANGED audio_pc
         \/ audio_pc # "fifo_clear" /\ audio_pc' \notin {"in_left", "in_right"}
  PROVE  StreamInv'
<1>1. control' = 1 /\ ~skewed' /\ audio_pc' # "fifo_clear" => Stream'
  BY StreamSame DEF StreamInv
<1>2. control' = 4 => inLeft' = <<>> /\ inRight' = <<>> /\ (skewed' <=> nextIn' = "right")
  BY DEF StreamInv
<1>3. audio_pc' \in {"in_left", "in_right"} => inRight' # <<>>
  BY DEF StreamInv
<1> QED
  BY <1>1, <1>2, <1>3 DEF StreamInv

LEMMA StreamStep ==
  ASSUME AudioTypeOK, ControlInv, BufferInv, StreamInv, [AudioNext]_audioVars
  PROVE  StreamInv'
<1>1. CASE \/ Interrupt \/ Dispatch \/ KeyRead \/ AudioRI \/ AudioWI \/ OutSpace
           \/ (\E k \in Keys : PressKey(k)) \/ UNCHANGED audioVars
  <2>1. UNCHANGED <<inLeft, inRight, left_buffer, right_buffer, nextIn, frame, skewed, control>>
    BY <1>1 DEF Interrupt, Dispatch, KeyRead, AudioRI, AudioWI, OutSpace, PressKey,
                device, cpu, buffers, audioVars
  <2>2. \/ UNCHANGED audio_pc
        \/ audio_pc # "fifo_clear" /\ audio_pc' \notin {"in_left", "in_right"}
    BY <1>1 DEF Interrupt, Dispatch, KeyRead, AudioRI, AudioWI, OutSpace, PressKey, cpu, audioVars
  <2> QED
    BY <2>1, <2>2, StreamApart
<1>2. CASE Dac
  <2>1. UNCHANGED <<inLeft, inRight, left_buffer, right_buffer, nextIn, frame, skewed, control, audio_pc>>
    BY <1>2 DEF Dac, DacLeft, DacRight, cpu, buffers
  <2> QED
    BY <2>1, StreamApart
<1>3. CASE AdcLeft
  <2>1. UNCHANGED <<control, audio_pc, inRight>> /\ nextIn' = "right"
    BY <1>3 DEF AdcLeft, cpu
  <2>2. control = 4 => inLeft' = <<>> /\ skewed'
    BY <1>3 DEF AdcLeft, ClearIn
  <2>3. control = 1 /\ ~skewed' => ~skewed
    BY <1>3 DEF AdcLeft
  <2>4. control' = 1 /\ ~skewed' /\ audio_pc' # "fifo_clear" => Stream'
    BY <1>3, <2>1, <2>3, StreamAdcLeft DEF StreamInv
  <2> QED
    BY <2>1, <2>2, <2>4 DEF StreamInv
<1>4. CASE AdcRight
  <2>1. UNCHANGED <<control, audio_pc, inLeft>> /\ nextIn' = "left"
    BY <1>4 DEF AdcRight, cpu
  <2>2. control = 4 => inRight' = <<>> /\ ~skewed'
    <3>1. control = 4 => inRight' = <<>> /\ control # 1
      BY <1>4 DEF AdcRight, ClearIn
    <3> QED
      BY <1>4, <3>1, Zenon DEF AdcRight
  <2>3. control = 1 /\ ~skewed' => ~skewed
    BY <1>4 DEF AdcRight
  <2>4. control' = 1 /\ ~skewed' /\ audio_pc' # "fifo_clear" => Stream'
    BY <1>4, <2>1, <2>3, StreamAdcRight DEF StreamInv
  <2>5. audio_pc' \in {"in_left", "in_right"} => inRight' # <<>>
    <3> SUFFICES ASSUME audio_pc \in {"in_left", "in_right"} PROVE inRight' # <<>>
      BY <2>1
    <3>1. control = 1 /\ inRight # <<>>
      BY DEF ControlInv, StreamInv, Storing
    <3>2. inRight' = Push(inRight, frame)
      BY <1>4, <3>1 DEF AdcRight, ClearIn
    <3>3. Append(inRight, frame) # <<>>
      BY StreamTypes, AppendProperties
    <3> QED
      BY <3>1, <3>2, <3>3 DEF Push
  <2> QED
    BY <2>1, <2>2, <2>4, <2>5 DEF StreamInv
<1>5. CASE KeyClear
  <2>1. /\ UNCHANGED <<inLeft, inRight, nextIn, frame, skewed, control>>
        /\ audio_pc' \in {"fifo_clear", "dispatch"} /\ audio_pc = "key_clear"
    BY <1>5 DEF KeyClear, device
  <2>2. audio_pc' # "fifo_clear" => UNCHANGED <<left_buffer, right_buffer>>
    BY <1>5 DEF KeyClear, buffers
  <2>3. CASE audio_pc' = "fifo_clear"
    BY <2>1, <2>3 DEF StreamInv, ControlInv
  <2>4. CASE audio_pc' # "fifo_clear"
    BY <2>1, <2>2, <2>4, StreamApart
  <2> QED
    BY <2>3, <2>4
<1>6. CASE FifoClear
  <2>1. control' \in {4, 8} /\ audio_pc' = "fifo_enable" /\ UNCHANGED nextIn
    BY <1>6 DEF FifoClear, WriteControl
  <2>2. control' = 4 => inLeft' = <<>> /\ inRight' = <<>> /\ (skewed' <=> nextIn = "right")
    <3>1. PICK v \in {4, 8} : WriteControl(v)
      BY <1>6 DEF FifoClear
    <3>2. CASE v = 4
      <4>1. inLeft' = <<>> /\ inRight' = <<>>
        BY <3>1, <3>2 DEF WriteControl
      <4>2. v # 1 /\ v = 4
        BY <3>2
      <4>3. skewed' <=> nextIn = "right"
        BY <3>1, <4>2, Zenon DEF WriteControl
      <4> QED
        BY <4>1, <4>3
    <3>3. CASE v = 8
      BY <3>1, <3>3 DEF WriteControl
    <3> QED
      BY <3>2, <3>3
  <2> QED
    BY <2>1, <2>2 DEF StreamInv
<1>7. CASE FifoEnable
  <2>1. /\ control = (IF KEY_value = {1} THEN 4 ELSE 8) /\ control' = (IF KEY_value = {1} THEN 1 ELSE 2)
        /\ audio_pc' = "dispatch"
        /\ UNCHANGED <<left_buffer, right_buffer, nextIn>>
    BY <1>7 DEF FifoEnable, WriteControl, ControlInv, buffers
  <2>2. ASSUME control' = 1, ~skewed' PROVE Stream'
    <3>1. control = 4 /\ ~skewed /\ frame' = 0 /\ UNCHANGED <<inLeft, inRight>>
      <4>1. WriteControl(1) /\ control = 4
        BY <1>7, <2>1, <2>2 DEF FifoEnable
      <4>2. frame' = 0 /\ UNCHANGED <<inLeft, inRight>>
        BY <4>1 DEF WriteControl
      <4>3. ~skewed
        BY <2>2, <4>1, Zenon DEF WriteControl
      <4> QED
        BY <4>1, <4>2, <4>3
    <3>2. inLeft = <<>> /\ inRight = <<>> /\ nextIn = "left"
      BY <3>1, StreamTypes DEF StreamInv
    <3>3. right_buffer = <<>> /\ left_buffer = <<>>
      <4>1. right_buffer = <<>> /\ audio_pc # "in_right"
        BY <1>7, <3>1 DEF BufferInv, FifoEnable
      <4>2. Len(left_buffer) = 0
        BY <4>1, EmptySeq DEF BufferInv
      <4> QED
        BY <4>1, <4>2, StreamTypes, EmptySeq
    <3>4. inLeft' = <<>> /\ inRight' = <<>> /\ right_buffer' = <<>> /\ left_buffer' = <<>>
          /\ nextIn' = "left" /\ frame' = 0
      BY <2>1, <3>1, <3>2, <3>3
    <3>5. <<>> = <<>>'
      OBVIOUS
    <3> QED
      BY <3>4, RemainderNext, EmptySeq DEF Stream, Lead
  <2> QED
    BY <2>1, <2>2 DEF StreamInv
<1>8. CASE InSpace
  <2>1. UNCHANGED <<inLeft, inRight, left_buffer, right_buffer, nextIn, frame, skewed, control>>
    BY <1>8 DEF InSpace, device, buffers
  <2>2. audio_pc = "in_space" /\ audio_pc' \in {"in_left", "audio_WI"}
        /\ (audio_pc' = "in_left" => inRight # <<>>)
    BY <1>8 DEF InSpace
  <2>3. control' = 1 /\ ~skewed' /\ audio_pc' # "fifo_clear" => Stream'
    BY <2>1, <2>2, StreamSame DEF StreamInv
  <2> QED
    BY <2>1, <2>2, <2>3 DEF StreamInv, ControlInv
<1>9. CASE InLeft
  <2>1. /\ UNCHANGED <<control, skewed, inRight, nextIn>>
        /\ audio_pc = "in_left" /\ audio_pc' = "in_right"
    BY <1>9 DEF InLeft
  <2>2. control = 1 /\ inRight # <<>>
    BY <2>1 DEF ControlInv, Storing, StreamInv
  <2>3. ~skewed' => Stream'
    BY <1>9, <2>1, <2>2, StreamInLeft DEF StreamInv
  <2> QED
    BY <2>1, <2>2, <2>3 DEF StreamInv
<1>10. CASE InRight
  <2>1. /\ UNCHANGED <<control, skewed, nextIn>>
        /\ audio_pc = "in_right" /\ audio_pc' \in {"in_done", "in_space"}
    BY <1>10 DEF InRight
  <2>2. control = 1 /\ inRight # <<>>
    BY <2>1 DEF ControlInv, Storing, StreamInv
  <2>3. ~skewed' => Stream'
    BY <1>10, <2>1, <2>2, StreamInRight DEF StreamInv
  <2> QED
    BY <2>1, <2>2, <2>3 DEF StreamInv
<1>11. CASE InDone \/ OutDone
  <2>1. control' = 0 /\ audio_pc' \in {"in_space", "out_space"}
    BY <1>11 DEF InDone, OutDone, WriteControl
  <2> QED
    BY <2>1 DEF StreamInv
<1>12. CASE OutLeft \/ OutRight
  <2>1. control = 2 /\ audio_pc # "fifo_clear"
    BY <1>12 DEF OutLeft, OutRight, ControlInv, Playing
  <2>2. /\ UNCHANGED <<inLeft, inRight, left_buffer, right_buffer, nextIn, frame, skewed, control>>
        /\ audio_pc' \in {"out_right", "out_done", "out_space"}
    BY <1>12 DEF OutLeft, OutRight, buffers
  <2> QED
    BY <2>1, <2>2, StreamApart
<1> QED
  BY <1>1, <1>2, <1>3, <1>4, <1>5, <1>6, <1>7, <1>8, <1>9, <1>10, <1>11, <1>12
  DEF AudioNext, Handler, Codec

-----------------------------------------------------------------------------
(* Playback. *)

LEMMA PlayTypes ==
  ASSUME AudioTypeOK
  PROVE  /\ outLeft \in Seq(Index) /\ Len(outLeft) \in Nat /\ Len(outLeft) <= Depth
         /\ outRight \in Seq(Index) /\ Len(outRight) \in Nat /\ Len(outRight) <= Depth
         /\ (outRight = <<>> <=> Len(outRight) = 0) /\ Depth \in Nat
         /\ control \in {0, 1, 2, 4, 8} /\ leftWasRead \in BOOLEAN
         /\ buffer_index \in Nat /\ Index \subseteq Nat
  BY EmptySeq, LenProperties, SizesAssumption DEF AudioTypeOK, Index

LEMMA PairIs ==
  ASSUME NEW a \in Nat, NEW b \in Nat
  PROVE  Append(<<a>>, b) = <<a, b>>
<1> DEFINE s == Append(<<a>>, b)
<1>1. s \in Seq(Nat) /\ Len(s) = 2 /\ s[1] = a /\ s[2] = b
  <2>1. <<a>> \in Seq(Nat) /\ Len(<<a>>) = 1 /\ <<a>>[1] = a
    OBVIOUS
  <2> QED
    BY <2>1, AppendProperties
<1> HIDE DEF s
<1>2. <<a, b>> \in Seq(Nat) /\ Len(<<a, b>>) = 2 /\ <<a, b>>[1] = a /\ <<a, b>>[2] = b
  OBVIOUS
<1>3. \A i \in 1 .. 2 : i = 1 \/ i = 2
  OBVIOUS
<1> DEFINE t == <<a, b>>
<1> HIDE DEF t
<1>4. t \in Seq(Nat) /\ Len(t) = 2 /\ t[1] = a /\ t[2] = b
  BY <1>2 DEF t
<1>5. s = t
  BY <1>1, <1>3, <1>4, SeqEqual
<1> QED
  BY <1>5 DEF s, t

\* The serializer takes the left half of a frame.
LEMMA PlayDacLeft ==
  ASSUME AudioTypeOK, PlayInv, DacLeft
  PROVE  PlayInv'
<1> DEFINE n == Len(heard)
<1>1. /\ control # 8 /\ ~leftWasRead /\ leftWasRead' /\ outLeft # <<>> /\ outRight # <<>>
      /\ outLeft' = Tail(outLeft) /\ heard' = Append(heard, <<Head(outLeft)>>)
      /\ UNCHANGED <<outRight, control, audio_pc, buffer_index>>
  BY DEF DacLeft, ClearOut, cpu, buffers
<1>2. heard \in Seq(Seq(Nat)) /\ n \in Nat /\ Half = 0 /\ Half' = 1
  BY <1>1, LenProperties DEF PlayInv, Half
<1>3. /\ Head(outLeft) = n /\ Len(outLeft') = Len(outLeft) - 1 /\ Len(outLeft) >= 1
      /\ \A i \in 1 .. Len(outLeft) - 1 : outLeft'[i] = outLeft[i + 1]
  <2>1. /\ Head(outLeft) = outLeft[1] /\ Len(outLeft) >= 1
        /\ Len(outLeft') = Len(outLeft) - 1
        /\ \A i \in 1 .. Len(outLeft) - 1 : outLeft'[i] = outLeft[i + 1]
    BY <1>1, PlayTypes, RestIs
  <2>2. outLeft[1] = n + 1 - 1
    BY <2>1, PlayTypes DEF PlayInv
  <2> QED
    BY <1>2, <2>1, <2>2
<1>4. /\ heard' \in Seq(Seq(Nat)) /\ Len(heard') = n + 1
      /\ \A i \in 1 .. n : heard'[i] = heard[i]
      /\ heard'[n + 1] = <<n>>
  <2>1. <<n>> \in Seq(Nat)
    BY <1>2
  <2> QED
    BY <1>1, <1>2, <1>3, <2>1, AppendProperties
<1> HIDE DEF n
<1>5. \A i \in 1 .. Len(heard') :
        heard'[i] = IF i = Len(heard') /\ leftWasRead' THEN <<i - 1>> ELSE <<i - 1, i - 1>>
  <2> SUFFICES ASSUME NEW i \in 1 .. n + 1
               PROVE  heard'[i] = IF i = n + 1 THEN <<i - 1>> ELSE <<i - 1, i - 1>>
    BY <1>1, <1>4
  <2>1. CASE i = n + 1
    BY <1>2, <1>4, <2>1
  <2>2. CASE i \in 1 .. n
    <3>1. heard[i] = <<i - 1, i - 1>>
      BY <1>1, <2>2 DEF PlayInv, n
    <3>2. i # n + 1
      BY <1>2, <2>2
    <3> QED
      BY <1>4, <2>2, <3>1, <3>2
  <2> QED
    BY <1>2, <2>1, <2>2
<1>6. \A i \in 1 .. Len(outLeft') : outLeft'[i] = Len(heard') + i - 1
  <2> SUFFICES ASSUME NEW i \in 1 .. Len(outLeft')
               PROVE  outLeft'[i] = n + 1 + i - 1
    BY <1>4
  <2>1. i \in 1 .. Len(outLeft) - 1 /\ i + 1 \in 1 .. Len(outLeft)
    BY <1>3, PlayTypes
  <2>2. outLeft[i + 1] = n + (i + 1) - 1
    BY <2>1 DEF PlayInv, n
  <2> QED
    BY <1>2, <1>3, <2>1, <2>2
<1>7. \A i \in 1 .. Len(outRight') : outRight'[i] = Len(heard') - Half' + i - 1
  <2> SUFFICES ASSUME NEW i \in 1 .. Len(outRight)
               PROVE  outRight[i] = n + 1 - 1 + i - 1
    BY <1>1, <1>2, <1>4
  <2>1. outRight[i] = n - 0 + i - 1
    BY <1>2 DEF PlayInv, n
  <2> QED
    BY <1>2, <2>1
<1>8. Len(outLeft') + Half' = Len(outRight') + (IF audio_pc' = "out_right" THEN 1 ELSE 0)
  <2>1. Len(outLeft) + Half = Len(outRight) + (IF audio_pc = "out_right" THEN 1 ELSE 0)
    BY DEF PlayInv
  <2>2. audio_pc' = audio_pc /\ Half = 0 /\ Half' = 1
    BY <1>1, <1>2
  <2>3. /\ Len(outLeft') = Len(outLeft) - 1 /\ Len(outRight') = Len(outRight)
        /\ Len(outLeft) \in Nat /\ Len(outRight) \in Nat
    BY <1>1, <1>3, PlayTypes
  <2> QED
    BY <2>1, <2>2, <2>3
<1>9. control' = 2 /\ audio_pc' # "fifo_clear" =>
        buffer_index' = Len(heard') - Half' + Len(outRight')
  BY <1>1, <1>2, <1>4, PlayTypes DEF PlayInv, n
<1>10. heard' # <<>>
  BY <1>2, <1>4, EmptySeq
<1>11. audio_pc' \in {"out_left", "out_right"} => Len(outRight') < Depth
  BY <1>1 DEF PlayInv
<1> QED
  BY <1>1, <1>4, <1>5, <1>6, <1>7, <1>8, <1>9, <1>10, <1>11 DEF PlayInv

\* The serializer takes the right half and completes the frame.
LEMMA PlayDacRight ==
  ASSUME AudioTypeOK, PlayInv, DacRight
  PROVE  PlayInv'
<1> DEFINE n == Len(heard)
<1>1. /\ control # 8 /\ leftWasRead /\ ~leftWasRead'
      /\ outRight' = Rest(outRight)
      /\ heard' = [heard EXCEPT ![n] = Append(heard[n], FirstOf(outRight))]
      /\ UNCHANGED <<outLeft, control, audio_pc, buffer_index>>
  BY DEF DacRight, ClearOut, cpu, buffers
<1>2. /\ heard \in Seq(Seq(Nat)) /\ n \in Nat /\ n >= 1 /\ Half = 1 /\ Half' = 0
      /\ outRight # <<>> /\ heard[n] = <<n - 1>>
  <2>1. heard # <<>> /\ heard \in Seq(Seq(Nat)) /\ outRight # <<>>
    BY <1>1 DEF PlayInv
  <2>2. n \in Nat /\ n >= 1
    BY <2>1, LenProperties, EmptySeq
  <2>3. heard[n] = <<n - 1>>
    <3>1. n \in 1 .. n
      BY <2>2
    <3> QED
      BY <1>1, <3>1 DEF PlayInv
  <2> QED
    BY <1>1, <2>1, <2>2, <2>3 DEF Half
<1>3. /\ FirstOf(outRight) = n - 1 /\ Len(outRight') = Len(outRight) - 1 /\ Len(outRight) >= 1
      /\ \A i \in 1 .. Len(outRight) - 1 : outRight'[i] = outRight[i + 1]
  <2>1. /\ FirstOf(outRight) = outRight[1] /\ Len(outRight) >= 1
        /\ Len(outRight') = Len(outRight) - 1
        /\ \A i \in 1 .. Len(outRight) - 1 : outRight'[i] = outRight[i + 1]
    BY <1>1, <1>2, PlayTypes, RestIs
  <2>2. outRight[1] = n - 1 + 1 - 1
    BY <1>2, <2>1, PlayTypes DEF PlayInv
  <2> QED
    BY <1>2, <2>1, <2>2
<1>4. /\ heard' \in Seq(Seq(Nat)) /\ Len(heard') = n
      /\ \A i \in 1 .. n - 1 : heard'[i] = heard[i]
      /\ heard'[n] = <<n - 1, n - 1>>
  <2>1. Append(heard[n], FirstOf(outRight)) = <<n - 1, n - 1>>
    BY <1>2, <1>3, PairIs
  <2>2. <<n - 1, n - 1>> \in Seq(Nat) /\ n \in 1 .. Len(heard)
    BY <1>2
  <2> DEFINE h == [heard EXCEPT ![n] = <<n - 1, n - 1>>]
  <2>3. /\ h \in Seq(Seq(Nat)) /\ Len(h) = n
        /\ \A j \in 1 .. n : h[j] = IF j = n THEN <<n - 1, n - 1>> ELSE heard[j]
    BY <1>2, <2>2, ExceptSeq
  <2>4. heard' = h
    BY <1>1, <2>1
  <2> HIDE DEF h
  <2>5. /\ h[n] = <<n - 1, n - 1>> /\ \A i \in 1 .. n - 1 : h[i] = heard[i]
    <3> HIDE DEF n
    <3> QED
      BY <1>2, <2>3
  <2> QED
    BY <2>3, <2>4, <2>5
<1> HIDE DEF n
<1>5. \A i \in 1 .. Len(heard') :
        heard'[i] = IF i = Len(heard') /\ leftWasRead' THEN <<i - 1>> ELSE <<i - 1, i - 1>>
  <2> SUFFICES ASSUME NEW i \in 1 .. n
               PROVE  heard'[i] = <<i - 1, i - 1>>
    BY <1>1, <1>4
  <2>1. CASE i = n
    BY <1>4, <2>1
  <2>2. CASE i \in 1 .. n - 1
    <3>1. heard[i] = <<i - 1, i - 1>>
      <4>1. i \in 1 .. n /\ i # n
        BY <1>2, <2>2
      <4> QED
        BY <4>1 DEF PlayInv, n
    <3> QED
      BY <1>4, <2>2, <3>1
  <2> QED
    BY <1>2, <2>1, <2>2
<1>6. \A i \in 1 .. Len(outLeft') : outLeft'[i] = Len(heard') + i - 1
  BY <1>1, <1>4 DEF PlayInv, n
<1>7. \A i \in 1 .. Len(outRight') : outRight'[i] = Len(heard') - Half' + i - 1
  <2> SUFFICES ASSUME NEW i \in 1 .. Len(outRight')
               PROVE  outRight'[i] = n - 0 + i - 1
    BY <1>2, <1>4
  <2>1. i \in 1 .. Len(outRight) - 1 /\ i + 1 \in 1 .. Len(outRight)
    BY <1>3, PlayTypes
  <2>2. outRight[i + 1] = n - 1 + (i + 1) - 1
    BY <1>2, <2>1 DEF PlayInv, n
  <2> QED
    BY <1>2, <1>3, <2>1, <2>2
<1>8. Len(outLeft') + Half' = Len(outRight') + (IF audio_pc' = "out_right" THEN 1 ELSE 0)
  <2>1. Len(outLeft) + Half = Len(outRight) + (IF audio_pc = "out_right" THEN 1 ELSE 0)
    BY DEF PlayInv
  <2>2. audio_pc' = audio_pc /\ Half = 1 /\ Half' = 0
    BY <1>1, <1>2
  <2>3. /\ Len(outRight') = Len(outRight) - 1 /\ Len(outLeft') = Len(outLeft)
        /\ Len(outLeft) \in Nat /\ Len(outRight) \in Nat
    BY <1>1, <1>3, PlayTypes
  <2> QED
    BY <2>1, <2>2, <2>3
<1>9. control' = 2 /\ audio_pc' # "fifo_clear" =>
        buffer_index' = Len(heard') - Half' + Len(outRight')
  <2>1. control = 2 /\ audio_pc # "fifo_clear" => buffer_index = n - Half + Len(outRight)
    BY DEF PlayInv, n
  <2>2. /\ audio_pc' = audio_pc /\ control' = control /\ buffer_index' = buffer_index
        /\ Half = 1 /\ Half' = 0
    BY <1>1, <1>2
  <2>3. Len(heard') = n /\ Len(outRight') = Len(outRight) - 1 /\ Len(outRight) \in Nat /\ n \in Nat
    BY <1>2, <1>3, <1>4, PlayTypes
  <2> QED
    BY <2>1, <2>2, <2>3
<1>10. audio_pc' \in {"out_left", "out_right"} => Len(outRight') < Depth
  BY <1>1, <1>3, PlayTypes DEF PlayInv
<1> QED
  BY <1>1, <1>4, <1>5, <1>6, <1>7, <1>8, <1>9, <1>10 DEF PlayInv

\* What the handler finds when it is about to write a half frame.
LEMMA PlayWriting ==
  ASSUME AudioTypeOK, ControlInv, PlayInv, audio_pc \in {"out_left", "out_right"}
  PROVE  /\ control = 2 /\ heard \in Seq(Seq(Nat)) /\ Len(heard) \in Nat /\ Half \in {0, 1}
         /\ buffer_index = Len(heard) - Half + Len(outRight) /\ Len(outRight) < Depth
         /\ buffer_index \in Index
         /\ audio_pc = "out_left" => Len(outLeft) = Len(outRight) - Half
<1>1. control = 2 /\ audio_pc # "fifo_clear"
  BY DEF ControlInv, Playing
<1>2. heard \in Seq(Seq(Nat)) /\ Len(heard) \in Nat /\ Half \in {0, 1} /\ Len(outRight) < Depth
  BY LenProperties DEF PlayInv, Half
<1>3. buffer_index = Len(heard) - Half + Len(outRight)
  BY <1>1 DEF PlayInv
<1>4. buffer_index \in Index
  BY DEF AudioTypeOK
<1>5. audio_pc = "out_left" => Len(outLeft) = Len(outRight) - Half
  <2>1. audio_pc = "out_left" => Len(outLeft) + Half = Len(outRight) + 0
    BY DEF PlayInv
  <2> QED
    BY <1>2, <2>1, PlayTypes
<1> QED
  BY <1>1, <1>2, <1>3, <1>4, <1>5

LEMMA PlayOutLeft ==
  ASSUME AudioTypeOK, ControlInv, PlayInv, OutLeft
  PROVE  PlayInv'
<1>1. /\ audio_pc = "out_left" /\ audio_pc' = "out_right" /\ outLeft' = Push(outLeft, buffer_index)
      /\ UNCHANGED <<outRight, leftWasRead, heard, control, buffer_index>>
  BY DEF OutLeft, buffers
<1>2. /\ control = 2 /\ Len(heard) \in Nat /\ Half \in {0, 1}
      /\ buffer_index = Len(heard) - Half + Len(outRight) /\ Len(outRight) < Depth
      /\ buffer_index \in Index /\ Len(outLeft) = Len(outRight) - Half
  BY <1>1, PlayWriting
<1>3. /\ Len(outLeft') = Len(outLeft) + 1
      /\ \A i \in 1 .. Len(outLeft) : outLeft'[i] = outLeft[i]
      /\ outLeft'[Len(outLeft) + 1] = buffer_index
  <2>1. outLeft \in Seq(Index) /\ Len(outLeft) < Depth /\ buffer_index \in Index
    BY <1>2, PlayTypes
  <2>2. /\ Len(Push(outLeft, buffer_index)) = Len(outLeft) + 1
        /\ \A i \in 1 .. Len(outLeft) : Push(outLeft, buffer_index)[i] = outLeft[i]
        /\ Push(outLeft, buffer_index)[Len(outLeft) + 1] = buffer_index
    BY <2>1, PushIs
  <2>3. outLeft' = Push(outLeft, buffer_index)
    BY <1>1
  <2> QED
    BY <2>2, <2>3
<1>4. \A i \in 1 .. Len(outLeft') : outLeft'[i] = Len(heard') + i - 1
  <2> SUFFICES ASSUME NEW i \in 1 .. Len(outLeft')
               PROVE  outLeft'[i] = Len(heard) + i - 1
    BY <1>1
  <2>1. CASE i \in 1 .. Len(outLeft)
    BY <1>3, <2>1 DEF PlayInv
  <2>2. CASE i = Len(outLeft) + 1
    BY <1>2, <1>3, <2>2, PlayTypes
  <2> QED
    BY <1>3, <2>1, <2>2, PlayTypes
<1>5. Half' = Half
  BY <1>1 DEF Half
<1>6. Len(outLeft') + Half' = Len(outRight') + (IF audio_pc' = "out_right" THEN 1 ELSE 0)
  <2>1. Len(outLeft') + Half' = Len(outRight') + 1
    BY <1>1, <1>2, <1>3, <1>5, PlayTypes
  <2> QED
    BY <1>1, <2>1
<1>7. buffer_index' = Len(heard') - Half' + Len(outRight')
  BY <1>1, <1>2, <1>5
<1>8. \A i \in 1 .. Len(outRight') : outRight'[i] = Len(heard') - Half' + i - 1
  BY <1>1, <1>5 DEF PlayInv
<1>9. /\ leftWasRead' => heard' # <<>> /\ outRight' # <<>>
      /\ heard' \in Seq(Seq(Nat))
      /\ \A i \in 1 .. Len(heard') :
           heard'[i] = IF i = Len(heard') /\ leftWasRead' THEN <<i - 1>> ELSE <<i - 1, i - 1>>
  BY <1>1 DEF PlayInv
<1> QED
  BY <1>1, <1>2, <1>4, <1>6, <1>7, <1>8, <1>9 DEF PlayInv

LEMMA PlayOutRight ==
  ASSUME AudioTypeOK, ControlInv, PlayInv, OutRight
  PROVE  PlayInv'
<1>1. /\ audio_pc = "out_right" /\ audio_pc' \in {"out_done", "out_space"}
      /\ outRight' = Push(outRight, buffer_index) /\ buffer_index' = buffer_index + 1
      /\ UNCHANGED <<outLeft, leftWasRead, heard, control>>
  BY DEF OutRight
<1>2. /\ control = 2 /\ Len(heard) \in Nat /\ Half \in {0, 1}
      /\ buffer_index = Len(heard) - Half + Len(outRight) /\ Len(outRight) < Depth
      /\ buffer_index \in Index
  BY <1>1, PlayWriting
<1>3. /\ Len(outRight') = Len(outRight) + 1
      /\ \A i \in 1 .. Len(outRight) : outRight'[i] = outRight[i]
      /\ outRight'[Len(outRight) + 1] = buffer_index
  <2>1. outRight \in Seq(Index) /\ Len(outRight) < Depth /\ buffer_index \in Index
    BY <1>2, PlayTypes
  <2>2. /\ Len(Push(outRight, buffer_index)) = Len(outRight) + 1
        /\ \A i \in 1 .. Len(outRight) : Push(outRight, buffer_index)[i] = outRight[i]
        /\ Push(outRight, buffer_index)[Len(outRight) + 1] = buffer_index
    BY <2>1, PushIs
  <2>3. outRight' = Push(outRight, buffer_index)
    BY <1>1
  <2> QED
    BY <2>2, <2>3
<1>4. Half' = Half
  BY <1>1 DEF Half
<1>5. \A i \in 1 .. Len(outRight') : outRight'[i] = Len(heard') - Half' + i - 1
  <2> SUFFICES ASSUME NEW i \in 1 .. Len(outRight')
               PROVE  outRight'[i] = Len(heard) - Half + i - 1
    BY <1>1, <1>4
  <2>1. CASE i \in 1 .. Len(outRight)
    BY <1>3, <2>1 DEF PlayInv
  <2>2. CASE i = Len(outRight) + 1
    BY <1>2, <1>3, <2>2, PlayTypes
  <2>3. Len(outRight) \in Nat /\ Len(outRight') = Len(outRight) + 1
    BY <1>3, PlayTypes
  <2>4. i \in 1 .. Len(outRight) \/ i = Len(outRight) + 1
    BY <2>3
  <2> QED
    BY <2>1, <2>2, <2>4
<1>6. Len(outLeft') + Half' = Len(outRight') + (IF audio_pc' = "out_right" THEN 1 ELSE 0)
  <2>1. Len(outLeft) + Half = Len(outRight) + 1
    BY <1>1 DEF PlayInv
  <2>2. Len(outLeft') + Half' = Len(outRight') + 0
    BY <1>1, <1>3, <1>4, <2>1, PlayTypes
  <2> QED
    BY <1>1, <2>2
<1>7. buffer_index' = Len(heard') - Half' + Len(outRight')
  BY <1>1, <1>2, <1>3, <1>4, PlayTypes
<1>8. \A i \in 1 .. Len(outLeft') : outLeft'[i] = Len(heard') + i - 1
  BY <1>1 DEF PlayInv
<1>9. /\ heard' \in Seq(Seq(Nat))
      /\ \A i \in 1 .. Len(heard') :
           heard'[i] = IF i = Len(heard') /\ leftWasRead' THEN <<i - 1>> ELSE <<i - 1, i - 1>>
  BY <1>1 DEF PlayInv
<1>10. leftWasRead' => heard' # <<>> /\ outRight' # <<>>
  <2>1. leftWasRead' => heard' # <<>>
    BY <1>1 DEF PlayInv
  <2>2. outRight' # <<>>
    BY <1>3, EmptySeq, PlayTypes
  <2> QED
    BY <2>1, <2>2
<1>11. control' # 8 /\ audio_pc' \notin {"out_left", "out_right"}
  BY <1>1, <1>2
<1> QED
  BY <1>5, <1>6, <1>7, <1>8, <1>9, <1>10, <1>11 DEF PlayInv

\* Steps that leave playback alone.
LEMMA PlayApart ==
  ASSUME PlayInv,
         UNCHANGED <<outLeft, outRight, leftWasRead, heard>>,
         control' = control \/ control' \notin {2, 8},
         \/ UNCHANGED audio_pc
         \/ audio_pc \notin {"out_right", "fifo_clear"} /\ audio_pc' \notin {"out_left", "out_right"}
         \/ control' # 2 /\ audio_pc # "out_right" /\ audio_pc' \notin {"out_left", "out_right"},
         UNCHANGED buffer_index \/ control' # 2 \/ audio_pc' = "fifo_clear"
  PROVE  PlayInv'
<1>1. Half' = Half
  BY DEF Half
<1>2. audio_pc' = "out_right" <=> audio_pc = "out_right"
  OBVIOUS
<1>3. Len(outLeft') + Half' = Len(outRight') + (IF audio_pc' = "out_right" THEN 1 ELSE 0)
  BY <1>1, <1>2 DEF PlayInv
<1>4. audio_pc' \in {"out_left", "out_right"} => Len(outRight') < Depth
  BY DEF PlayInv
<1>5. control' = 2 /\ audio_pc' # "fifo_clear" => buffer_index' = Len(heard') - Half' + Len(outRight')
  BY <1>1 DEF PlayInv
<1>6. /\ control' = 8 => outLeft' = <<>> /\ outRight' = <<>> /\ heard' = <<>> /\ ~leftWasRead'
      /\ leftWasRead' => heard' # <<>> /\ outRight' # <<>>
  BY DEF PlayInv
<1>7. /\ heard' \in Seq(Seq(Nat))
      /\ \A i \in 1 .. Len(heard') :
           heard'[i] = IF i = Len(heard') /\ leftWasRead' THEN <<i - 1>> ELSE <<i - 1, i - 1>>
      /\ \A i \in 1 .. Len(outLeft') : outLeft'[i] = Len(heard') + i - 1
      /\ \A i \in 1 .. Len(outRight') : outRight'[i] = Len(heard') - Half' + i - 1
  BY <1>1 DEF PlayInv
<1> QED
  BY <1>3, <1>4, <1>5, <1>6, <1>7 DEF PlayInv

LEMMA PlayStep ==
  ASSUME AudioTypeOK, ControlInv, BufferInv, PlayInv, [AudioNext]_audioVars
  PROVE  PlayInv'
<1>1. CASE \/ Interrupt \/ Dispatch \/ KeyRead \/ AudioRI \/ AudioWI \/ InSpace
           \/ (\E k \in Keys : PressKey(k)) \/ UNCHANGED audioVars
  <2>1. UNCHANGED <<outLeft, outRight, leftWasRead, heard, control, buffer_index>>
    BY <1>1 DEF Interrupt, Dispatch, KeyRead, AudioRI, AudioWI, InSpace, PressKey,
                device, cpu, buffers, audioVars
  <2>2. \/ UNCHANGED audio_pc
        \/ audio_pc \notin {"out_right", "fifo_clear"} /\ audio_pc' \notin {"out_left", "out_right"}
    BY <1>1 DEF Interrupt, Dispatch, KeyRead, AudioRI, AudioWI, InSpace, PressKey, cpu, audioVars
  <2> QED
    BY <2>1, <2>2, PlayApart
<1>2. CASE Codec
  <2>1. UNCHANGED <<outLeft, outRight, leftWasRead, heard, control, buffer_index, audio_pc>>
    BY <1>2 DEF Codec, AdcLeft, AdcRight, cpu, buffers
  <2> QED
    BY <2>1, PlayApart
<1>3. CASE Dac
  BY <1>3, PlayDacLeft, PlayDacRight DEF Dac
<1>4. CASE KeyClear
  <2>1. /\ UNCHANGED <<outLeft, outRight, leftWasRead, heard, control>>
        /\ audio_pc = "key_clear" /\ audio_pc' \in {"fifo_clear", "dispatch"}
        /\ audio_pc' = "fifo_clear" \/ UNCHANGED buffer_index
    BY <1>4 DEF KeyClear, device, buffers
  <2> QED
    BY <2>1, PlayApart
<1>5. CASE FifoClear
  <2>1. PICK v \in {4, 8} : WriteControl(v)
    BY <1>5 DEF FifoClear
  <2>2. audio_pc = "fifo_clear" /\ audio_pc' = "fifo_enable" /\ UNCHANGED buffer_index
    BY <1>5 DEF FifoClear, buffers
  <2>3. CASE v = 4
    <3>1. UNCHANGED <<outLeft, outRight, heard>> /\ control' = 4
      BY <2>1, <2>3 DEF WriteControl
    <3>2. UNCHANGED leftWasRead
      <4>1. v # 8
        BY <2>3
      <4> QED
        BY <2>1, <4>1, PlayTypes DEF WriteControl
    <3> QED
      BY <2>2, <3>1, <3>2, PlayApart
  <2>4. CASE v = 8
    <3>1. outLeft' = <<>> /\ outRight' = <<>> /\ heard' = <<>> /\ control' = 8 /\ ~leftWasRead'
      BY <2>1, <2>4 DEF WriteControl
    <3>2. Half' = 0 /\ Len(<<>>) = 0 /\ <<>> \in Seq(Seq(Nat)) /\ \A i \in Int : i \notin 1 .. 0
      BY <3>1, EmptySeq DEF Half
    <3> QED
      BY <2>2, <3>1, <3>2 DEF PlayInv
  <2> QED
    BY <2>3, <2>4
<1>6. CASE FifoEnable
  <2>1. /\ control = (IF KEY_value = {1} THEN 4 ELSE 8) /\ control' = (IF KEY_value = {1} THEN 1 ELSE 2)
        /\ audio_pc = "fifo_enable" /\ audio_pc' = "dispatch" /\ buffer_index = 0
        /\ UNCHANGED <<buffer_index, outLeft, outRight, heard>>
    BY <1>6 DEF FifoEnable, WriteControl, ControlInv, buffers
  <2>2. UNCHANGED leftWasRead
    <3>1. PICK v \in {1, 2} : WriteControl(v)
      BY <1>6 DEF FifoEnable
    <3>2. v # 8
      OBVIOUS
    <3> QED
      BY <3>1, <3>2, PlayTypes DEF WriteControl
  <2>3. CASE control' = 1
    BY <2>1, <2>2, <2>3, PlayApart
  <2>4. CASE control' = 2
    <3>1. control = 8
      BY <2>1, <2>4
    <3>2. outLeft' = <<>> /\ outRight' = <<>> /\ heard' = <<>> /\ ~leftWasRead'
      BY <2>1, <2>2, <3>1 DEF PlayInv
    <3>3. Half' = 0 /\ Len(<<>>) = 0 /\ <<>> \in Seq(Seq(Nat)) /\ \A i \in Int : i \notin 1 .. 0
      BY <3>2, EmptySeq DEF Half
    <3> QED
      BY <2>1, <2>4, <3>2, <3>3 DEF PlayInv
  <2> QED
    BY <2>1, <2>3, <2>4
<1>7. CASE InLeft \/ InRight
  <2>1. control = 1 /\ audio_pc \in {"in_left", "in_right"}
    BY <1>7 DEF InLeft, InRight, ControlInv, Storing
  <2>2. /\ UNCHANGED <<outLeft, outRight, leftWasRead, heard, control>>
        /\ audio_pc' \in {"in_right", "in_done", "in_space"}
    BY <1>7 DEF InLeft, InRight
  <2> QED
    BY <2>1, <2>2, PlayApart
<1>8. CASE InDone \/ OutDone
  <2>1. WriteControl(0) /\ audio_pc \in {"in_done", "out_done"} /\ audio_pc' \in {"in_space", "out_space"}
    BY <1>8 DEF InDone, OutDone
  <2>2. UNCHANGED <<outLeft, outRight, heard>> /\ control' = 0
    BY <2>1 DEF WriteControl
  <2>3. UNCHANGED leftWasRead
    <3>1. 0 # 8
      OBVIOUS
    <3> QED
      BY <2>1, <3>1, PlayTypes DEF WriteControl
  <2> QED
    BY <2>1, <2>2, <2>3, PlayApart
<1>9. CASE OutSpace
  <2>1. /\ audio_pc = "out_space"
        /\ UNCHANGED <<outLeft, outRight, leftWasRead, heard, control, buffer_index>>
    BY <1>9 DEF OutSpace, device, buffers
  <2>2. \/ audio_pc' = "dispatch"
        \/ audio_pc' = "out_left" /\ Len(outRight) < Depth
    BY <1>9 DEF OutSpace
  <2>3. Half' = Half
    BY <2>1 DEF Half
  <2>4. Len(outLeft') + Half' = Len(outRight') + (IF audio_pc' = "out_right" THEN 1 ELSE 0)
    BY <2>1, <2>2, <2>3 DEF PlayInv
  <2>5. /\ control' = 2 /\ audio_pc' # "fifo_clear" => buffer_index' = Len(heard') - Half' + Len(outRight')
        /\ audio_pc' \in {"out_left", "out_right"} => Len(outRight') < Depth
    BY <2>1, <2>2, <2>3 DEF PlayInv
  <2>6. /\ control' = 8 => outLeft' = <<>> /\ outRight' = <<>> /\ heard' = <<>> /\ ~leftWasRead'
        /\ leftWasRead' => heard' # <<>> /\ outRight' # <<>>
        /\ heard' \in Seq(Seq(Nat))
        /\ \A i \in 1 .. Len(heard') :
             heard'[i] = IF i = Len(heard') /\ leftWasRead' THEN <<i - 1>> ELSE <<i - 1, i - 1>>
        /\ \A i \in 1 .. Len(outLeft') : outLeft'[i] = Len(heard') + i - 1
        /\ \A i \in 1 .. Len(outRight') : outRight'[i] = Len(heard') - Half' + i - 1
    BY <2>1, <2>3 DEF PlayInv
  <2> QED
    BY <2>4, <2>5, <2>6 DEF PlayInv
<1>10. CASE OutLeft
  BY <1>10, PlayOutLeft
<1>11. CASE OutRight
  BY <1>11, PlayOutRight
<1> QED
  BY <1>1, <1>2, <1>3, <1>4, <1>5, <1>6, <1>7, <1>8, <1>9, <1>10, <1>11
  DEF AudioNext, Handler

-----------------------------------------------------------------------------
(* Lights. *)

LEMMA LedStep ==
  ASSUME AudioTypeOK, ControlInv, LedInv, [AudioNext]_audioVars
  PROVE  LedInv'
<1>1. buffer_index \in 0 .. BufSize /\ BufSize \in Nat \ {0} /\ control \in {0, 1, 2, 4, 8}
  BY SizesAssumption DEF AudioTypeOK
<1>2. CASE \/ Interrupt \/ Dispatch \/ KeyRead
           \/ Codec \/ Dac \/ (\E k \in Keys : PressKey(k)) \/ UNCHANGED audioVars
  <2>1. UNCHANGED <<led, control, buffer_index>>
    BY <1>2, CodecIs DEF Interrupt, Dispatch, KeyRead, PressKey, cpu, buffers, audioVars
  <2>2. UNCHANGED audio_pc \/ audio_pc' \notin Storing \cup Playing \cup {"in_space", "out_space"}
    BY <1>2, CodecIs DEF Interrupt, Dispatch, KeyRead, PressKey, cpu, audioVars, Storing, Playing
  <2> QED
    BY <2>1, <2>2 DEF LedInv
<1>3. CASE KeyClear
  <2>1. /\ UNCHANGED <<led, control>> /\ audio_pc' \in {"fifo_clear", "dispatch"}
        /\ buffer_index' = 0 \/ UNCHANGED buffer_index
    BY <1>3 DEF KeyClear, buffers
  <2> QED
    BY <1>1, <2>1 DEF LedInv, Storing, Playing
<1>4. CASE FifoClear \/ FifoEnable
  <2>1. /\ buffer_index = 0 /\ UNCHANGED buffer_index /\ audio_pc' \in {"fifo_enable", "dispatch"}
    BY <1>4 DEF FifoClear, FifoEnable, buffers, ControlInv
  <2>2. control' # 0
    BY <1>4 DEF FifoClear, FifoEnable, WriteControl
  <2> QED
    BY <2>1, <2>2 DEF LedInv, Storing, Playing
<1>5. CASE AudioRI
  <2>1. UNCHANGED <<control, buffer_index>> /\ audio_pc' \in {"in_space", "audio_WI"}
    BY <1>5 DEF AudioRI, buffers
  <2>2. CASE RI
    <3>1. control = 1 /\ led' = (IF buffer_index = 0 THEN 1 ELSE led)
      BY <1>5, <2>2 DEF AudioRI, RI
    <3>2. led' = 1
      BY <1>1, <3>1 DEF LedInv
    <3> QED
      BY <2>1, <3>1, <3>2 DEF LedInv
  <2>3. CASE ~RI
    <3>1. led' = led /\ audio_pc' = "audio_WI"
      BY <1>5, <2>3 DEF AudioRI
    <3> QED
      BY <2>1, <3>1 DEF LedInv, Storing, Playing
  <2> QED
    BY <2>2, <2>3
<1>6. CASE AudioWI
  <2>1. UNCHANGED <<control, buffer_index>> /\ audio_pc' \in {"out_space", "dispatch"}
    BY <1>6 DEF AudioWI, buffers
  <2>2. CASE WI
    <3>1. control = 2 /\ led' = (IF buffer_index = 0 THEN 2 ELSE led)
      BY <1>6, <2>2 DEF AudioWI, WI
    <3>2. led' = 2
      BY <1>1, <3>1 DEF LedInv
    <3> QED
      BY <2>1, <3>1, <3>2 DEF LedInv
  <2>3. CASE ~WI
    <3>1. led' = led /\ audio_pc' = "dispatch"
      BY <1>6, <2>3 DEF AudioWI
    <3> QED
      BY <2>1, <3>1 DEF LedInv, Storing, Playing
  <2> QED
    BY <2>2, <2>3
<1>7. CASE InSpace \/ InLeft
  <2>1. UNCHANGED <<led, control, buffer_index>> /\ audio_pc \in Storing \cup {"in_space"}
        /\ audio_pc' \in {"in_left", "in_right", "audio_WI"}
    BY <1>7 DEF InSpace, InLeft, buffers, Storing
  <2> QED
    BY <2>1 DEF LedInv, Storing, Playing
<1>8. CASE OutSpace \/ OutLeft
  <2>1. UNCHANGED <<led, control, buffer_index>> /\ audio_pc \in Playing \cup {"out_space"}
        /\ audio_pc' \in {"out_left", "out_right", "dispatch"}
    BY <1>8 DEF OutSpace, OutLeft, buffers, Playing
  <2> QED
    BY <2>1 DEF LedInv, Storing, Playing
<1>9. CASE InRight \/ OutRight
  <2>1. /\ UNCHANGED <<led, control>>
        /\ \/ control = 1 /\ audio_pc \in Storing
           \/ control = 2 /\ audio_pc \in Playing
    BY <1>9 DEF InRight, OutRight, ControlInv, Storing, Playing
  <2> QED
    BY <2>1 DEF LedInv
<1>10. CASE InDone \/ OutDone
  <2>1. control' = 0 /\ led' = 0
    BY <1>10 DEF InDone, OutDone, WriteControl
  <2> QED
    BY <2>1 DEF LedInv
<1> QED
  BY <1>2, <1>3, <1>4, <1>5, <1>6, <1>7, <1>8, <1>9, <1>10 DEF AudioNext, Handler

-----------------------------------------------------------------------------
(* The invariant and what it says. *)

LEMMA Initially == AudioInit => IInv
<1> SUFFICES ASSUME AudioInit PROVE IInv
  OBVIOUS
<1>1. \A S : <<>> \in Seq(S) /\ Len(<<>>) = 0
  BY EmptySeq
<1>2. DeviceTypeOK
  <2>1. /\ <<>> \in Seq(Sample) /\ <<>> \in Seq(Index) /\ Len(<<>>) = 0
        /\ 0 \in Sample /\ 0 <= Depth
    BY <1>1, SizesAssumption DEF Sample
  <2> QED
    BY <2>1 DEF AudioInit, DeviceTypeOK
<1>3. CpuTypeOK
  BY <1>1, SizesAssumption DEF AudioInit, CpuTypeOK, Program
<1>4. ControlInv /\ BufferInv /\ StreamInv /\ LedInv
  BY <1>1 DEF AudioInit, ControlInv, BufferInv, StreamInv, LedInv, Storing, Playing
<1>5. PlayInv
  <2>1. Half = 0 /\ \A i \in Int : i \notin 1 .. 0
    BY DEF AudioInit, Half
  <2> QED
    BY <1>1, <2>1 DEF AudioInit, PlayInv
<1> QED
  BY <1>2, <1>3, <1>4, <1>5, TypeParts DEF IInv

LEMMA Inductive == IInv /\ [AudioNext]_audioVars => IInv'
<1> SUFFICES ASSUME IInv, [AudioNext]_audioVars PROVE IInv'
  OBVIOUS
<1>1. AudioTypeOK /\ ControlInv /\ BufferInv /\ StreamInv /\ PlayInv /\ LedInv
  BY DEF IInv
<1>2. DeviceTypeOK' /\ CpuTypeOK'
  BY <1>1, DeviceStep, CpuStep
<1>3. AudioTypeOK'
  BY <1>2 DEF AudioTypeOK, DeviceTypeOK, CpuTypeOK
<1>4. ControlInv' /\ BufferInv' /\ StreamInv' /\ PlayInv' /\ LedInv'
  BY <1>1, ControlStep, BufferStep, StreamStep, PlayStep, LedStep
<1> QED
  BY <1>3, <1>4 DEF IInv

LEMMA Invariance == AudioSpec => []IInv
  BY Initially, Inductive, PTL DEF AudioSpec

(* The buffers are never indexed out of range and no FIFO exceeds its     *)
(* depth, whatever their sizes (AudioTypeOK).                              *)
THEOREM TypeCorrect == AudioSpec => []AudioTypeOK
<1>1. IInv => AudioTypeOK
  BY DEF IInv
<1> QED
  BY <1>1, Invariance, PTL

LEMMA RecordedMeans == IInv => RecordedAligned
<1> SUFFICES ASSUME IInv, control = 1, ~skewed, NEW i \in DOMAIN right_buffer
             PROVE  left_buffer[i] = (i - 1) % Frames /\ right_buffer[i] = (i - 1) % Frames
  BY DEF RecordedAligned
<1>1. i \in 1 .. Len(right_buffer)
  BY StreamTypes, LenProperties DEF IInv
<1>2. Len(right_buffer) \in Nat /\ Len(left_buffer) \in Nat /\ Len(left_buffer) >= Len(right_buffer)
  BY StreamTypes DEF IInv, BufferInv
<1>3. audio_pc # "fifo_clear"
  <2>1. right_buffer # <<>>
    BY <1>1, <1>2, StreamTypes, EmptySeq DEF IInv
  <2> QED
    BY <2>1 DEF IInv, BufferInv
<1>4. Stream
  BY <1>3 DEF IInv, StreamInv
<1>5. i \in 1 .. Len(left_buffer)
  BY <1>1, <1>2
<1> QED
  BY <1>1, <1>4, <1>5 DEF Stream

(* What the record interrupt stores are whole stereo frames in order from  *)
(* the first on, unless the FIFOs lost half a frame (RecordedAligned).     *)
THEOREM RecordedCorrect == AudioSpec => []RecordedAligned
  BY RecordedMeans, Invariance, PTL

\* Everything written is heard or queued, in order.
LEMMA LeftsAre ==
  ASSUME IInv, control = 2, audio_pc # "fifo_clear"
  PROVE  Lefts = Words(buffer_index + (IF audio_pc = "out_right" THEN 1 ELSE 0))
<1> DEFINE n == Len(heard)
           h == [i \in DOMAIN heard |-> heard[i][1]]
           m == buffer_index + (IF audio_pc = "out_right" THEN 1 ELSE 0)
           w == Words(m)
<1>1. AudioTypeOK /\ PlayInv
  BY DEF IInv
<1>2. heard \in Seq(Seq(Nat)) /\ n \in Nat /\ DOMAIN heard = 1 .. n
  BY <1>1, LenProperties DEF PlayInv
<1>3. m = n + Len(outLeft) /\ m \in Nat
  <2>1. buffer_index = n - Half + Len(outRight)
    BY <1>1 DEF PlayInv
  <2>2. Len(outLeft) + Half = Len(outRight) + (IF audio_pc = "out_right" THEN 1 ELSE 0)
    BY <1>1 DEF PlayInv
  <2>3. Half \in {0, 1}
    BY DEF Half
  <2>4. Len(outLeft) \in Nat /\ Len(outRight) \in Nat /\ n \in Nat
    BY <1>1, <1>2, PlayTypes
  <2>5. CASE audio_pc = "out_right"
    BY <2>1, <2>2, <2>3, <2>4, <2>5
  <2>6. CASE audio_pc # "out_right"
    BY <2>1, <2>2, <2>3, <2>4, <2>6
  <2> QED
    BY <2>5, <2>6
<1>4. h \in Seq(Nat) /\ Len(h) = n /\ \A i \in 1 .. n : h[i] = i - 1
  <2>1. \A i \in 1 .. n : heard[i][1] = i - 1
    <3> SUFFICES ASSUME NEW i \in 1 .. n PROVE heard[i][1] = i - 1
      OBVIOUS
    <3>1. heard[i] = <<i - 1>> \/ heard[i] = <<i - 1, i - 1>>
      BY <1>1 DEF PlayInv
    <3> QED
      BY <3>1
  <2>2. \A i \in 1 .. n : h[i] = i - 1 /\ i - 1 \in Nat
    BY <1>2, <2>1
  <2>3. h = [i \in 1 .. n |-> h[i]]
    BY <1>2
  <2> HIDE DEF h, n
  <2> QED
    <3>1. \A i \in 1 .. n : h[i] \in Nat
      BY <2>2
    <3>2. h \in Seq(Nat) /\ Len(h) = n
      BY <1>2, <2>3, <3>1, FunctionIsSeq
    <3> QED
      BY <2>2, <3>2
<1>5. w \in Seq(Nat) /\ Len(w) = m /\ \A i \in 1 .. m : w[i] = i - 1
  <2> HIDE DEF m
  <2>1. \A i \in 1 .. m : w[i] = i - 1 /\ i - 1 \in Nat
    BY <1>3 DEF Words
  <2>2. w = [i \in 1 .. m |-> i - 1]
    BY DEF Words
  <2> HIDE DEF w
  <2> QED
    BY <1>3, <2>1, <2>2, FunctionIsSeq
<1>6. outLeft \in Seq(Nat) /\ Len(outLeft) \in Nat
  BY <1>1, PlayTypes, SeqMonotonic
<1>7. \A i \in 1 .. Len(outLeft) : outLeft[i] = n + i - 1
  BY <1>1 DEF PlayInv
<1> HIDE DEF n, h, m, w
<1>8. /\ h \o outLeft \in Seq(Nat) /\ Len(h \o outLeft) = n + Len(outLeft)
      /\ \A i \in 1 .. n + Len(outLeft) :
           (h \o outLeft)[i] = IF i <= n THEN h[i] ELSE outLeft[i - n]
  BY <1>4, <1>6, ConcatProperties
<1>9. \A i \in 1 .. m : (h \o outLeft)[i] = w[i]
  <2> SUFFICES ASSUME NEW i \in 1 .. m PROVE (h \o outLeft)[i] = w[i]
    OBVIOUS
  <2>1. CASE i <= n
    BY <1>2, <1>3, <1>4, <1>5, <1>8, <2>1
  <2>2. CASE ~(i <= n)
    <3>1. i - n \in 1 .. Len(outLeft) /\ n + (i - n) - 1 = i - 1
      BY <1>2, <1>3, <1>6, <2>2
    <3> QED
      BY <1>3, <1>5, <1>7, <1>8, <2>2, <3>1
  <2> QED
    BY <2>1, <2>2
<1>10. h \o outLeft = w
  BY <1>3, <1>5, <1>8, <1>9, SeqEqual
<1> QED
  BY <1>10 DEF Lefts, h, w, m

LEMMA RightsAre ==
  ASSUME IInv, control = 2, audio_pc # "fifo_clear"
  PROVE  Rights = Words(buffer_index)
<1> DEFINE n == Len(heard) - (IF leftWasRead THEN 1 ELSE 0)
           h == [i \in 1 .. n |-> heard[i][2]]
           m == buffer_index
           w == Words(m)
<1>1. AudioTypeOK /\ PlayInv
  BY DEF IInv
<1>2. heard \in Seq(Seq(Nat)) /\ n \in Nat /\ n = Len(heard) - Half /\ Len(heard) \in Nat
  <2>1. heard \in Seq(Seq(Nat)) /\ Len(heard) \in Nat /\ (leftWasRead => Len(heard) # 0)
    BY <1>1, LenProperties, EmptySeq DEF PlayInv
  <2> QED
    BY <2>1 DEF Half
<1>3. m = n + Len(outRight) /\ m \in Nat
  BY <1>1, <1>2, PlayTypes DEF PlayInv
<1>4. h \in Seq(Nat) /\ Len(h) = n /\ \A i \in 1 .. n : h[i] = i - 1
  <2>1. \A i \in 1 .. n : heard[i][2] = i - 1
    <3> SUFFICES ASSUME NEW i \in 1 .. n PROVE heard[i][2] = i - 1
      OBVIOUS
    <3>1. i \in 1 .. Len(heard) /\ ~(i = Len(heard) /\ leftWasRead)
      BY <1>2 DEF Half
    <3>2. heard[i] = <<i - 1, i - 1>>
      BY <1>1, <3>1 DEF PlayInv
    <3> QED
      BY <3>2
  <2> HIDE DEF n
  <2>2. \A i \in 1 .. n : h[i] = i - 1 /\ i - 1 \in Nat
    BY <1>2, <2>1
  <2>3. h = [i \in 1 .. n |-> h[i]]
    OBVIOUS
  <2> HIDE DEF h
  <2> QED
    <3>1. \A i \in 1 .. n : h[i] \in Nat
      BY <2>2
    <3>2. h \in Seq(Nat) /\ Len(h) = n
      BY <1>2, <2>3, <3>1, FunctionIsSeq
    <3> QED
      BY <2>2, <3>2
<1>5. w \in Seq(Nat) /\ Len(w) = m /\ \A i \in 1 .. m : w[i] = i - 1
  <2> HIDE DEF m
  <2>1. \A i \in 1 .. m : w[i] = i - 1 /\ i - 1 \in Nat
    BY <1>3 DEF Words
  <2>2. w = [i \in 1 .. m |-> i - 1]
    BY DEF Words
  <2> HIDE DEF w
  <2> QED
    BY <1>3, <2>1, <2>2, FunctionIsSeq
<1>6. outRight \in Seq(Nat) /\ Len(outRight) \in Nat
  BY <1>1, PlayTypes, SeqMonotonic
<1>7. \A i \in 1 .. Len(outRight) : outRight[i] = n + i - 1
  BY <1>1, <1>2 DEF PlayInv
<1> HIDE DEF n, h, m, w
<1>8. /\ h \o outRight \in Seq(Nat) /\ Len(h \o outRight) = n + Len(outRight)
      /\ \A i \in 1 .. n + Len(outRight) :
           (h \o outRight)[i] = IF i <= n THEN h[i] ELSE outRight[i - n]
  BY <1>4, <1>6, ConcatProperties
<1>9. \A i \in 1 .. m : (h \o outRight)[i] = w[i]
  <2> SUFFICES ASSUME NEW i \in 1 .. m PROVE (h \o outRight)[i] = w[i]
    OBVIOUS
  <2>1. CASE i <= n
    BY <1>2, <1>3, <1>4, <1>5, <1>8, <2>1
  <2>2. CASE ~(i <= n)
    <3>1. i - n \in 1 .. Len(outRight) /\ n + (i - n) - 1 = i - 1
      BY <1>2, <1>3, <1>6, <2>2
    <3> QED
      BY <1>3, <1>5, <1>7, <1>8, <2>2, <3>1
  <2> QED
    BY <2>1, <2>2
<1>10. h \o outRight = w
  BY <1>3, <1>5, <1>8, <1>9, SeqEqual
<1> QED
  BY <1>10 DEF Rights, h, w, m, n

LEMMA PlaybackMeans == IInv => PlaybackInOrder
<1> SUFFICES ASSUME IInv PROVE PlaybackInOrder
  OBVIOUS
<1>1. ASSUME NEW i \in DOMAIN heard
      PROVE  \/ heard[i] = <<i - 1, i - 1>>
             \/ i = Len(heard) /\ leftWasRead /\ heard[i] = <<i - 1>>
  <2>1. heard \in Seq(Seq(Nat)) /\ PlayInv
    BY DEF IInv, PlayInv
  <2>2. i \in 1 .. Len(heard)
    BY <1>1, <2>1, LenProperties
  <2> QED
    BY <2>1, <2>2 DEF PlayInv
<1>2. control = 2 /\ audio_pc # "fifo_clear" =>
        /\ Lefts = Words(buffer_index + (IF audio_pc = "out_right" THEN 1 ELSE 0))
        /\ Rights = Words(buffer_index)
  BY LeftsAre, RightsAre
<1> QED
  BY <1>1, <1>2 DEF PlaybackInOrder

(* The listener hears the buffer from its start, left and right together,  *)
(* and no word is dropped or repeated, although the handler looks at the   *)
(* right FIFO only (PlaybackInOrder).                                      *)
THEOREM PlaybackCorrect == AudioSpec => []PlaybackInOrder
  BY PlaybackMeans, Invariance, PTL

LEMMA LedMeans == IInv => LedMode
  BY DEF IInv, AudioTypeOK, ControlInv, LedInv, LedMode

(* Between interrupts the lights tell what the audio port does (LedMode). *)
THEOREM LedCorrect == AudioSpec => []LedMode
  BY LedMeans, Invariance, PTL

=============================================================================
