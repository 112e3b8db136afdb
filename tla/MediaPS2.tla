------------------------------ MODULE MediaPS2 ------------------------------
(***************************************************************************)
(* The PS/2 and interval-timer half of the interrupt-driven media demo     *)
(* (app_software/media_interrupt_C): the main loop, which waits for        *)
(* timeout, moves the ALTERA text (module Bounce), reads byte1..byte3 and  *)
(* writes them to the HEX displays, and the two interrupt routines that    *)
(* set those variables.                                                    *)
(*                                                                         *)
(* An interrupt may fall between any two accesses the main loop makes to   *)
(* shared variables.  Within a routine nothing else runs, and what the     *)
(* devices do meanwhile commutes with it, so each routine is one action;   *)
(* one pass of interrupt_handler over two pending levels is two of them.   *)
(***************************************************************************)
EXTENDS Integers, Sequences, SequencesExt, FiniteSetsExt

CONSTANTS
  Bytes,      \* bytes the keyboard or mouse may send
  FifoSize,   \* words in the port's FIFO: 256
  MaxBytes    \* bound on the number of bytes sent

ASSUME BytesAssumption ==
  /\ Bytes \subseteq 0 .. 255 /\ {0, 170} \subseteq Bytes   \* 170 is 0xAA
  /\ FifoSize \in Nat \ {0} /\ MaxBytes \in Nat

VARIABLES
  fifo,                 \* Incoming_Data_FIFO
  stream,               \* history: the bytes that entered the FIFO
  TO,                   \* time-out bit of the interval timer, its interrupt
  timeout,
  byte,                 \* <<byte1, byte2, byte3>>
  commands,             \* history: 0xF4 commands sent to the port
  pc, args,             \* main: program point; what it has read of the bytes
  display,              \* segments of HEX0..HEX5
  ticked                \* history: the timer routine ran since the last refresh

port == <<fifo, stream>>
main == <<pc, args, display>>
vars == <<port, TO, timeout, byte, commands, main, ticked>>

NotRead == -1
-----------------------------------------------------------------------------
(* HEX_PS2. *)
\* Segment patterns and bytes are written in decimal: 124 is 0x7C.
seven_seg_decode_table ==
  <<63, 6, 91, 79, 102, 109, 124, 7,
    127, 103, 119, 124, 57, 94, 121, 113>>
Segments(d) == seven_seg_decode_table[d + 1]

\* (b1 << 16) | (b2 << 8) | b3, of which the low three bytes are shown.  A
\* char is signed: a byte from 0x80 up sets every bit to its left.
shift_buffer(b) ==
  LET Negative(i) == \E j \in i + 1 .. 3 : b[j] >= 128
  IN [i \in 1 .. 3 |-> IF Negative(i) THEN 255 ELSE b[i]]

\* hex_segs: HEX0 shows the low nibble of the last byte.
Shown(bytes) ==
  [i \in 0 .. 5 |-> LET b == bytes[3 - i \div 2]
                    IN Segments(IF i % 2 = 0 THEN b % 16 ELSE b \div 16)]
hex_segs(b) == Shown(shift_buffer(b))
-----------------------------------------------------------------------------
(* The devices. *)
SendByte(x) ==
  /\ Len(stream) < MaxBytes
  /\ Len(fifo) < FifoSize       \* a byte that finds the FIFO full is gone
  /\ fifo' = Append(fifo, x) /\ stream' = Append(stream, x)
  /\ UNCHANGED <<TO, timeout, byte, commands, main, ticked>>

Tick == TO' = TRUE /\ UNCHANGED <<port, timeout, byte, commands, main, ticked>>

(* The interrupt routines. *)
interval_timer_ISR ==
  /\ TO
  /\ TO' = FALSE /\ timeout' = 1 /\ ticked' = TRUE
  /\ UNCHANGED <<port, byte, commands, main>>

PS2_ISR_Swapped ==
  /\ fifo # <<>>
  /\ fifo' = Tail(fifo)
  /\ byte' = <<byte[2], byte[2], Head(fifo)>>
  /\ commands' = commands + (IF byte[2] = 170 /\ Head(fifo) = 0 THEN 1 ELSE 0)
  /\ UNCHANGED <<stream, TO, timeout, main, ticked>>

\* The interrupt is asserted as long as the FIFO holds a byte.
PS2_ISR ==
  /\ fifo # <<>>
  /\ fifo' = Tail(fifo)
  /\ byte' = <<byte[2], byte[3], Head(fifo)>>
  /\ commands' = commands + (IF byte'[2] = 170 /\ byte'[3] = 0 THEN 1 ELSE 0)
  /\ UNCHANGED <<stream, TO, timeout, main, ticked>>
-----------------------------------------------------------------------------
(* main. *)
Refresh ==
  /\ pc = "wait" /\ timeout = 1
  /\ ticked' = FALSE
  /\ pc' = "read"
  /\ UNCHANGED <<port, TO, timeout, byte, commands, args, display>>

\* The order in which the arguments are evaluated is the compiler's.
ReadByte(i) ==
  /\ pc = "read" /\ args[i] = NotRead
  /\ args' = [args EXCEPT ![i] = byte[i]]
  /\ pc' = IF NotRead \in Range(args') THEN "read" ELSE "hex_low"
  /\ UNCHANGED <<port, TO, timeout, byte, commands, display, ticked>>

HexLow ==
  /\ pc = "hex_low" /\ pc' = "hex_high"
  /\ display' = [i \in 0 .. 5 |-> IF i < 4 THEN hex_segs(args)[i] ELSE display[i]]
  /\ UNCHANGED <<port, TO, timeout, byte, commands, args, ticked>>

HexHigh_FirstWord ==
  /\ pc = "hex_high" /\ pc' = "clear"
  /\ display' = [i \in 0 .. 5 |-> IF i < 4 THEN display[i] ELSE hex_segs(args)[i - 4]]
  /\ UNCHANGED <<port, TO, timeout, byte, commands, args, ticked>>

HexHigh ==
  /\ pc = "hex_high" /\ pc' = "clear"
  /\ display' = [i \in 0 .. 5 |-> IF i < 4 THEN display[i] ELSE hex_segs(args)[i]]
  /\ UNCHANGED <<port, TO, timeout, byte, commands, args, ticked>>

ClearTimeout_Forgotten ==
  /\ pc = "clear" /\ pc' = "wait"
  /\ args' = [i \in 1 .. 3 |-> NotRead]
  /\ UNCHANGED <<port, TO, timeout, byte, commands, display, ticked>>

\* A timer interrupt that came during the refresh is forgotten here.
ClearTimeout ==
  /\ pc = "clear" /\ pc' = "wait"
  /\ timeout' = 0
  /\ args' = [i \in 1 .. 3 |-> NotRead]
  /\ UNCHANGED <<port, TO, byte, commands, display, ticked>>

-----------------------------------------------------------------------------
Init ==
  /\ fifo = <<>> /\ stream = <<>>
  /\ TO = FALSE /\ timeout = 0 /\ ticked = FALSE
  /\ byte = <<0, 0, 0>> /\ commands = 0
  /\ pc = "wait" /\ args = [i \in 1 .. 3 |-> NotRead]
  /\ display = [i \in 0 .. 5 |-> 0]

Main == Refresh \/ (\E i \in 1 .. 3 : ReadByte(i)) \/ HexLow \/ HexHigh \/ ClearTimeout
Next ==
  \/ Main \/ interval_timer_ISR \/ PS2_ISR \/ Tick
  \/ \E x \in Bytes : SendByte(x)

\* The processor runs the main loop and takes its interrupts, and the timer
\* is free running; nobody has to touch the keyboard.
Fairness ==
  /\ WF_vars(Main) /\ WF_vars(interval_timer_ISR) /\ WF_vars(PS2_ISR) /\ WF_vars(Tick)

Spec == Init /\ [][Next]_vars /\ Fairness
-----------------------------------------------------------------------------
TypeOK ==
  /\ fifo \in Seq(Bytes) /\ Len(fifo) <= FifoSize
  /\ stream \in Seq(Bytes) /\ Len(stream) <= MaxBytes
  /\ TO \in BOOLEAN /\ ticked \in BOOLEAN /\ timeout \in 0 .. 1
  /\ byte \in [1 .. 3 -> Bytes] /\ commands \in 0 .. MaxBytes
  /\ pc \in {"wait", "read", "hex_low", "hex_high", "clear"}
  /\ args \in [1 .. 3 -> Bytes \cup {NotRead}]
  /\ display \in [0 .. 5 -> 0 .. 255]

\* The bytes the interrupt routine has taken, after the zeros main put there.
taken == <<0, 0, 0>> \o SubSeq(stream, 1, Len(stream) - Len(fifo))
Enables == {i \in 2 .. Len(taken) : taken[i - 1] = 170 /\ taken[i] = 0}

(* byte1..byte3 are the last three bytes of the port, in order, and every  *)
(* self-test answer of a mouse (AA 00) among them got its enable command,  *)
(* wherever the interrupts cut the main loop.                              *)
LastThreeBytes ==
  /\ byte = SubSeq(taken, Len(taken) - 2, Len(taken))
  /\ commands = Cardinality(Enables)

(* The main loop never refreshes twice for one timer interrupt, although   *)
(* it clears timeout only at the end of the refresh.                       *)
RefreshOnlyOnTick == [][Refresh => ticked]_vars

(* When the keyboard falls silent the displays end up showing what         *)
(* HEX_PS2 makes of the last three bytes, and keep showing it: a byte that *)
(* arrives in the middle of a refresh is shown by a later one.             *)
DisplaySettles == <>[](display = hex_segs(byte))

(* "Displays the last three bytes of data received from the PS/2 port on   *)
(* the HEX displays" (media_interrupt.c).  First reading: the three bytes  *)
(* handed to HEX_PS2 were the last three at some moment.                   *)
NotTorn ==
  pc \notin {"wait", "read"} =>
    \E i \in 3 .. Len(taken) : args = SubSeq(taken, i - 2, i)

(* Second reading: what the displays show are the digits of the bytes      *)
(* handed to HEX_PS2.                                                      *)
ShowsItsArguments == pc = "clear" => display = Shown(args)
=============================================================================
