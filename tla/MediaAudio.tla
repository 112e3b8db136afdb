----------------------------- MODULE MediaAudio -----------------------------
(***************************************************************************)
(* Record and playback of the interrupt-driven media demo                  *)
(* (app_software/media_interrupt_C: pushbutton_ISR.c, audio_ISR.c and the  *)
(* dispatch of exception_handler.c) over the DE2 audio core (Audio.v, its  *)
(* two deserializer FIFOs and two serializer FIFOs).                       *)
(*                                                                         *)
(* The processor takes one I/O access per step; between any two of them    *)
(* the codec moves half a stereo frame, or somebody presses a key.         *)
(* Interrupts do not nest.  A sample is the number of its frame since the  *)
(* recording was enabled, modulo Frames (0 for anything older); a word in  *)
(* an output FIFO is the buffer index it came from.  Of the buffers the    *)
(* model keeps what the recording in progress has written, until it is     *)
(* done; what earlier recordings left there is not told apart.  The        *)
(* globals record and play are never set and are left out.                 *)
(***************************************************************************)
EXTENDS Integers, Sequences, FiniteSets

CONSTANTS
  Depth,       \* words in a FIFO: 128 in the source
  Threshold,   \* interrupt when this many words can be moved: 96
  BufSize,     \* BUF_SIZE: 500000
  Frames,      \* frame numbers wrap here
  Keys,        \* the keys that are pressed, of KEY1..KEY3
  MaxPresses   \* bound on the number of key presses

ASSUME SizesAssumption ==
  /\ Depth \in Nat /\ Threshold \in 1 .. Depth
  /\ BufSize \in Nat \ {0} /\ Frames \in Nat \ {0} /\ MaxPresses \in Nat
  /\ Keys \subseteq 1 .. 3

Silence == -1             \* what an empty FIFO reads
Sample == 0 .. Frames - 1
Index  == 0 .. BufSize - 1

VARIABLES
  inLeft, inRight,     \* audio-in FIFOs
  outLeft, outRight,   \* audio-out FIFOs
  control,             \* last value written to the control register: 0, 1, 2, 4 or 8
  nextIn, frame,       \* the half the codec delivers next, and its frame
  leftWasRead,         \* left_channel_was_read of the serializer
  edge,                \* edge-capture register of the pushbutton port
  presses,             \* number of presses so far
  audio_pc, pending,         \* interrupt_handler: program point, ipending still to serve
  KEY_value,           \* local of pushbutton_ISR, {} outside it
  buffer_index, led,
  left_buffer, right_buffer,  \* what the current recording stored, from index 0
  skewed,              \* history: this recording's FIFOs lost half a frame
  heard                \* history: index pairs played since the output FIFOs were cleared

device == <<inLeft, inRight, outLeft, outRight, nextIn, frame, leftWasRead, skewed, heard>>
keys   == <<edge, presses>>
buffers == <<buffer_index, left_buffer, right_buffer>>
cpu    == <<audio_pc, pending, KEY_value, buffers, led>>
audioVars   == <<device, control, keys, cpu>>

-----------------------------------------------------------------------------
(* The audio core. *)
ClearIn  == control = 4        \* clear_read_fifos: the deserializer is held in reset
ClearOut == control = 8        \* clear_write_fifos

\* read_interrupt and write_interrupt: either channel reached the threshold.
RI == control = 1 /\ (Len(inLeft) >= Threshold \/ Len(inRight) >= Threshold)
WI == control = 2 /\ (Depth - Len(outLeft) >= Threshold \/ Depth - Len(outRight) >= Threshold)

\* A word enters a FIFO unless it is full.
Push(fifo, x) == IF Len(fifo) < Depth THEN Append(fifo, x) ELSE fifo
FirstOf(fifo)  == IF fifo = <<>> THEN Silence ELSE Head(fifo)
Rest(fifo)     == IF fifo = <<>> THEN <<>> ELSE Tail(fifo)

AdcLeft ==
  /\ nextIn = "left" /\ nextIn' = "right"
  /\ inLeft' = IF ClearIn THEN <<>> ELSE Push(inLeft, frame)
  /\ skewed' = (control \in {1, 4} /\ (skewed \/ ClearIn \/ Len(inLeft) = Depth))
  /\ UNCHANGED <<inRight, outLeft, outRight, frame, leftWasRead, heard, control, keys, cpu>>

AdcRight ==
  /\ nextIn = "right" /\ nextIn' = "left"
  /\ inRight' = IF ClearIn THEN <<>> ELSE Push(inRight, frame)
  /\ frame' = IF control = 1 THEN (frame + 1) % Frames ELSE 0
  /\ skewed' = (control = 1 /\ (skewed \/ Len(inRight) = Depth))
  /\ UNCHANGED <<inLeft, outLeft, outRight, leftWasRead, heard, control, keys, cpu>>

\* The serializer starts a frame only when both FIFOs hold a word.
DacLeft ==
  /\ ~ClearOut /\ ~leftWasRead
  /\ outLeft # <<>> /\ outRight # <<>>
  /\ outLeft' = Tail(outLeft) /\ leftWasRead' = TRUE
  /\ heard' = Append(heard, <<Head(outLeft)>>)
  /\ UNCHANGED <<inLeft, inRight, outRight, nextIn, frame, skewed, control, keys, cpu>>

DacRight ==
  /\ ~ClearOut /\ leftWasRead
  /\ outRight' = Rest(outRight) /\ leftWasRead' = FALSE
  /\ heard' = [heard EXCEPT ![Len(heard)] = Append(@, FirstOf(outRight))]
  /\ UNCHANGED <<inLeft, inRight, outLeft, nextIn, frame, skewed, control, keys, cpu>>

\* A write to the control register; a clear bit empties its FIFOs.
WriteControl(v) ==
  /\ control' = v
  /\ inLeft'  = IF v = 4 THEN <<>> ELSE inLeft
  /\ inRight' = IF v = 4 THEN <<>> ELSE inRight
  /\ skewed' = ((v = 4 /\ nextIn = "right") \/ (v = 1 /\ skewed))
  /\ outLeft'  = IF v = 8 THEN <<>> ELSE outLeft
  /\ outRight' = IF v = 8 THEN <<>> ELSE outRight
  /\ leftWasRead' = (leftWasRead /\ v # 8)
  /\ heard' = IF v = 8 THEN <<>> ELSE heard
  /\ frame' = IF v = 1 THEN 0 ELSE frame
  /\ UNCHANGED nextIn

\* KEY1..KEY3 set their bit of the edge-capture register.
PressKey(k) ==
  /\ presses < MaxPresses
  /\ presses' = presses + 1
  /\ edge' = edge \cup {k}
  /\ UNCHANGED <<device, control, cpu>>

-----------------------------------------------------------------------------
(* interrupt_handler. *)
irq == {l \in {"KEY", "audio"} : \/ l = "KEY" /\ edge # {}
                                 \/ l = "audio" /\ (RI \/ WI)}

Interrupt ==
  /\ audio_pc = "main" /\ irq # {}
  /\ pending' = irq
  /\ audio_pc' = "dispatch"
  /\ UNCHANGED <<device, control, keys, KEY_value, buffers, led>>

\* Serve the pending levels in order, then return to main.
Dispatch ==
  /\ audio_pc = "dispatch"
  /\ \/ /\ "KEY" \in pending
        /\ pending' = pending \ {"KEY"} /\ audio_pc' = "key_read"
     \/ /\ pending = {"audio"}
        /\ pending' = {} /\ audio_pc' = "audio_RI"
     \/ /\ pending = {}
        /\ audio_pc' = "main" /\ UNCHANGED pending
  /\ UNCHANGED <<device, control, keys, KEY_value, buffers, led>>

(* pushbutton_ISR. *)
KeyRead ==
  /\ audio_pc = "key_read"
  /\ KEY_value' = edge
  /\ audio_pc' = "key_clear"
  /\ UNCHANGED <<device, control, keys, pending, buffers, led>>

KeyClear_KeepsIndex ==
  /\ audio_pc = "key_clear"
  /\ edge' = {}
  /\ IF KEY_value \in {{1}, {2}}
     THEN audio_pc' = "fifo_clear" /\ UNCHANGED KEY_value
     ELSE KEY_value' = {} /\ audio_pc' = "dispatch"
  /\ UNCHANGED <<device, control, presses, pending, buffers, led>>

\* Any write clears the whole register; two keys at once match no branch.
KeyClear ==
  /\ audio_pc = "key_clear"
  /\ edge' = {}
  /\ IF KEY_value \in {{1}, {2}}
     THEN /\ buffer_index' = 0 /\ left_buffer' = <<>> /\ right_buffer' = <<>>
          /\ audio_pc' = "fifo_clear" /\ UNCHANGED KEY_value
     ELSE KEY_value' = {} /\ audio_pc' = "dispatch" /\ UNCHANGED buffers
  /\ UNCHANGED <<device, control, presses, pending, led>>

FifoClear ==
  /\ audio_pc = "fifo_clear"
  /\ WriteControl(IF KEY_value = {1} THEN 4 ELSE 8)
  /\ audio_pc' = "fifo_enable"
  /\ UNCHANGED <<keys, pending, KEY_value, buffers, led>>

FifoEnable ==
  /\ audio_pc = "fifo_enable"
  /\ WriteControl(IF KEY_value = {1} THEN 1 ELSE 2)
  /\ KEY_value' = {} /\ audio_pc' = "dispatch"
  /\ UNCHANGED <<keys, pending, buffers, led>>

(* audio_ISR, recording half. *)
AudioRI ==
  /\ audio_pc = "audio_RI"
  /\ IF RI
     THEN /\ led' = IF buffer_index = 0 THEN 1 ELSE led
          /\ audio_pc' = "in_space"
     ELSE audio_pc' = "audio_WI" /\ UNCHANGED led
  /\ UNCHANGED <<device, control, keys, pending, KEY_value, buffers>>

InSpace_CountsLeft ==
  /\ audio_pc = "in_space"
  /\ audio_pc' = IF inLeft # <<>> /\ buffer_index < BufSize THEN "in_left" ELSE "audio_WI"
  /\ UNCHANGED <<device, control, keys, pending, KEY_value, buffers, led>>

InSpace_NoBound ==
  /\ audio_pc = "in_space"
  /\ audio_pc' = IF inRight # <<>> THEN "in_left" ELSE "audio_WI"
  /\ UNCHANGED <<device, control, keys, pending, KEY_value, buffers, led>>

\* fifospace & 0xFF is the number of words in the right FIFO.
InSpace ==
  /\ audio_pc = "in_space"
  /\ audio_pc' = IF inRight # <<>> /\ buffer_index < BufSize THEN "in_left" ELSE "audio_WI"
  /\ UNCHANGED <<device, control, keys, pending, KEY_value, buffers, led>>

InLeft ==
  /\ audio_pc = "in_left"
  /\ left_buffer' = Append(left_buffer, FirstOf(inLeft))
  /\ inLeft' = Rest(inLeft)
  /\ audio_pc' = "in_right"
  /\ UNCHANGED <<inRight, outLeft, outRight, nextIn, frame, leftWasRead, skewed, heard,
                 control, keys, pending, KEY_value, buffer_index, right_buffer, led>>

InRight ==
  /\ audio_pc = "in_right"
  /\ right_buffer' = Append(right_buffer, FirstOf(inRight))
  /\ inRight' = Rest(inRight)
  /\ buffer_index' = buffer_index + 1
  /\ audio_pc' = IF buffer_index' = BufSize THEN "in_done" ELSE "in_space"
  /\ UNCHANGED <<inLeft, outLeft, outRight, nextIn, frame, leftWasRead, skewed, heard,
                 control, keys, pending, KEY_value, left_buffer, led>>

InDone_KeepsInterrupt ==
  /\ audio_pc = "in_done"
  /\ led' = 0
  /\ audio_pc' = "in_space"
  /\ UNCHANGED <<device, control, keys, pending, KEY_value, buffers>>

InDone ==
  /\ audio_pc = "in_done"
  /\ led' = 0
  /\ WriteControl(0)
  /\ audio_pc' = "in_space"
  /\ left_buffer' = <<>> /\ right_buffer' = <<>>     \* no recording in progress
  /\ UNCHANGED <<keys, pending, KEY_value, buffer_index>>

(* audio_ISR, playback half. *)
AudioWI ==
  /\ audio_pc = "audio_WI"
  /\ IF WI
     THEN /\ led' = IF buffer_index = 0 THEN 2 ELSE led
          /\ audio_pc' = "out_space"
     ELSE audio_pc' = "dispatch" /\ UNCHANGED led
  /\ UNCHANGED <<device, control, keys, pending, KEY_value, buffers>>

OutSpace_CountsLeft ==
  /\ audio_pc = "out_space"
  /\ audio_pc' = IF Len(outLeft) < Depth /\ buffer_index < BufSize THEN "out_left" ELSE "dispatch"
  /\ UNCHANGED <<device, control, keys, pending, KEY_value, buffers, led>>

\* fifospace & 0xFF0000 is the space in the right FIFO.
OutSpace ==
  /\ audio_pc = "out_space"
  /\ audio_pc' = IF Len(outRight) < Depth /\ buffer_index < BufSize THEN "out_left" ELSE "dispatch"
  /\ UNCHANGED <<device, control, keys, pending, KEY_value, buffers, led>>

OutLeft ==
  /\ audio_pc = "out_left"
  /\ outLeft' = Push(outLeft, buffer_index)
  /\ audio_pc' = "out_right"
  /\ UNCHANGED <<inLeft, inRight, outRight, nextIn, frame, leftWasRead, skewed, heard,
                 control, keys, pending, KEY_value, buffers, led>>

OutRight ==
  /\ audio_pc = "out_right"
  /\ outRight' = Push(outRight, buffer_index)
  /\ buffer_index' = buffer_index + 1
  /\ audio_pc' = IF buffer_index' = BufSize THEN "out_done" ELSE "out_space"
  /\ UNCHANGED <<inLeft, inRight, outLeft, nextIn, frame, leftWasRead, skewed, heard,
                 control, keys, pending, KEY_value, left_buffer, right_buffer, led>>

OutDone ==
  /\ audio_pc = "out_done"
  /\ led' = 0
  /\ WriteControl(0)
  /\ audio_pc' = "out_space"
  /\ UNCHANGED <<keys, pending, KEY_value, buffers>>

-----------------------------------------------------------------------------
AudioInit ==
  /\ inLeft = <<>> /\ inRight = <<>> /\ outLeft = <<>> /\ outRight = <<>>
  /\ control = 0 /\ nextIn = "left" /\ frame = 0 /\ leftWasRead = FALSE
  /\ edge = {} /\ presses = 0
  /\ audio_pc = "main" /\ pending = {} /\ KEY_value = {}
  /\ buffer_index = 0 /\ led = 0
  /\ left_buffer = <<>> /\ right_buffer = <<>>
  /\ skewed = FALSE /\ heard = <<>>

Codec == AdcLeft \/ AdcRight
Dac   == DacLeft \/ DacRight
Handler ==
  \/ Interrupt \/ Dispatch \/ KeyRead \/ KeyClear \/ FifoClear \/ FifoEnable
  \/ AudioRI \/ InSpace \/ InLeft \/ InRight \/ InDone
  \/ AudioWI \/ OutSpace \/ OutLeft \/ OutRight \/ OutDone

AudioNext == Codec \/ Dac \/ Handler \/ \E k \in Keys : PressKey(k)

\* The codec clocks and the processor run; nobody has to press a key.
AudioFairness == WF_audioVars(Codec) /\ WF_audioVars(Dac) /\ WF_audioVars(Handler)

AudioSpec == AudioInit /\ [][AudioNext]_audioVars /\ AudioFairness
-----------------------------------------------------------------------------
Program ==
  {"main", "dispatch", "key_read", "key_clear", "fifo_clear", "fifo_enable",
   "audio_RI", "in_space", "in_left", "in_right", "in_done",
   "audio_WI", "out_space", "out_left", "out_right", "out_done"}

(* Type invariant; in particular the buffer is never indexed out of range. *)
AudioTypeOK ==
  /\ inLeft \in Seq(Sample) /\ Len(inLeft) <= Depth
  /\ inRight \in Seq(Sample) /\ Len(inRight) <= Depth
  /\ outLeft \in Seq(Index) /\ Len(outLeft) <= Depth
  /\ outRight \in Seq(Index) /\ Len(outRight) <= Depth
  /\ control \in {0, 1, 2, 4, 8}
  /\ nextIn \in {"left", "right"} /\ frame \in Sample
  /\ leftWasRead \in BOOLEAN /\ skewed \in BOOLEAN
  /\ edge \subseteq Keys /\ presses \in 0 .. MaxPresses
  /\ audio_pc \in Program /\ pending \subseteq {"KEY", "audio"}
  /\ KEY_value \subseteq Keys
  /\ buffer_index \in 0 .. BufSize
  /\ audio_pc \in {"in_left", "in_right", "out_left", "out_right"} => buffer_index \in Index
  /\ left_buffer \in Seq(Sample \cup {Silence}) /\ Len(left_buffer) <= BufSize
  /\ right_buffer \in Seq(Sample \cup {Silence}) /\ Len(right_buffer) <= BufSize
  /\ led \in {0, 1, 2}

(* A recording holds whole stereo frames from its first one on, in order   *)
(* and without gaps, as long as the FIFOs have not lost a half frame  *)
(* (an overflow, or a KEY1 clear between the two halves of a frame: the    *)
(* ISR counts only the right FIFO, so it cannot tell).                     *)
RecordedAligned ==
  control = 1 /\ ~skewed =>
    \A i \in DOMAIN right_buffer :
      left_buffer[i] = (i - 1) % Frames /\ right_buffer[i] = (i - 1) % Frames

Lefts  == [i \in DOMAIN heard |-> heard[i][1]] \o outLeft
Rights == [i \in 1 .. Len(heard) - (IF leftWasRead THEN 1 ELSE 0) |-> heard[i][2]] \o outRight
Words(n) == [i \in 1 .. n |-> i - 1]

(* Since the last KEY2 the listener has heard the buffer from its start,   *)
(* left and right together; while it plays, what is heard and what is      *)
(* queued is everything written, no word dropped or repeated.  The ISR     *)
(* looks at the right FIFO only, but the serializer empties the left first.*)
PlaybackInOrder ==
  /\ \A i \in DOMAIN heard :
       \/ heard[i] = <<i - 1, i - 1>>
       \/ i = Len(heard) /\ leftWasRead /\ heard[i] = <<i - 1>>
  /\ control = 2 /\ audio_pc # "fifo_clear" =>
       /\ Lefts = Words(buffer_index + (IF audio_pc = "out_right" THEN 1 ELSE 0))
       /\ Rights = Words(buffer_index)

(* Between interrupts the green LEDs tell what the audio port is doing.    *)
LedMode ==
  audio_pc = "main" =>
    /\ control \in {0, 1, 2}
    /\ control = 0 => led = 0
    /\ control # 0 /\ buffer_index > 0 => led = control

(* Every recording and playback comes to an end once the keys are left     *)
(* alone, whatever the timing of the presses did to the FIFOs.             *)
AudioStops == <>[](control = 0 /\ led = 0)
=============================================================================
