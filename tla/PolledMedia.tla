----------------------------- MODULE PolledMedia -----------------------------
(***************************************************************************)
(* The recorder of app_software/media_C/media.c, which polls the keys and  *)
(* the audio port in one loop, with the FIFOs of the port.  A step is one  *)
(* access to a device with the code up to the next; the PS/2 half of the   *)
(* loop shares no state with this one and is left out.  The i-th frame     *)
(* recorded since KEY1 was pressed stands at i - 1 in the buffer.          *)
(***************************************************************************)
EXTENDS Naturals

CONSTANTS
  PortWords,        \* frames in each FIFO of the audio port, 128
  ReadLevel,    \* BUF_THRESHOLD, 96
  BufferSize,       \* BUF_SIZE, 500000
  KeyPresses    \* bound: keys pressed in a run

ASSUME PolledAssumption ==
  /\ PortWords \in Nat \ {0} /\ ReadLevel \in 0 .. PortWords - 1
  /\ BufferSize \in Nat \ {0} /\ KeyPresses \in Nat

VARIABLES
  record, play, index,
  at,           \* place in the main loop
  ralc, wslc,   \* frames to be read; frames not yet played
  green_LED,    \* the lights of LEDG that are on
  pressed       \* keys pressed so far

polledVars == <<record, play, index, at, ralc, wslc, green_LED, pressed>>

PolledInit ==
  /\ record = FALSE /\ play = FALSE /\ index = 0
  /\ at = "keys" /\ ralc = 0 /\ wslc = 0 /\ green_LED = {} /\ pressed = 0

\* The codec; a frame that finds the FIFO full is lost.
FrameIn ==
  /\ ralc < PortWords /\ ralc' = ralc + 1
  /\ UNCHANGED <<record, play, index, at, wslc, green_LED, pressed>>

FrameOut ==
  /\ wslc > 0 /\ wslc' = wslc - 1
  /\ UNCHANGED <<record, play, index, at, ralc, green_LED, pressed>>

Branch(r, p) == IF r THEN "record" ELSE IF p THEN "play" ELSE "keys"

\* check_KEYs: the key has been released before anything happens.
NoKey ==
  /\ at = "keys" /\ at' = Branch(record, play)
  /\ UNCHANGED <<record, play, index, ralc, wslc, green_LED, pressed>>

\* Mutant: recording starts where the last run has stopped.
Key1_KeepsIndex ==
  /\ at = "keys" /\ pressed < KeyPresses
  /\ pressed' = pressed + 1
  /\ ralc' = 0 /\ record' = TRUE
  /\ at' = "record"
  /\ UNCHANGED <<play, index, wslc, green_LED>>

Key1 ==
  /\ at = "keys" /\ pressed < KeyPresses
  /\ pressed' = pressed + 1
  /\ index' = 0 /\ ralc' = 0 /\ record' = TRUE
  /\ at' = "record"
  /\ UNCHANGED <<play, wslc, green_LED>>

Key2 ==
  /\ at = "keys" /\ pressed < KeyPresses
  /\ pressed' = pressed + 1
  /\ index' = 0 /\ wslc' = 0 /\ play' = TRUE
  /\ at' = Branch(record, TRUE)
  /\ UNCHANGED <<record, ralc, green_LED>>

Record ==
  /\ at = "record"
  /\ green_LED' = {0}
  /\ at' = IF ralc > ReadLevel /\ index < BufferSize THEN "storing" ELSE "keys"
  /\ UNCHANGED <<record, play, index, ralc, wslc, pressed>>

\* One pass of the storing loop, up to its next look at fifospace.
Store ==
  /\ at = "storing"
  /\ ralc' = ralc - 1 /\ index' = index + 1
  /\ IF index' = BufferSize
       THEN record' = FALSE /\ green_LED' = {}
       ELSE UNCHANGED <<record, green_LED>>
  /\ at' = IF ralc' > 0 /\ index' < BufferSize THEN "storing" ELSE "keys"
  /\ UNCHANGED <<play, wslc, pressed>>

\* The space is compared without being shifted: one free word is enough.
Play ==
  /\ at = "play"
  /\ green_LED' = {1}
  /\ at' = IF wslc < PortWords /\ index < BufferSize THEN "playing" ELSE "keys"
  /\ UNCHANGED <<record, play, index, ralc, wslc, pressed>>

Output ==
  /\ at = "playing"
  /\ wslc' = wslc + 1 /\ index' = index + 1
  /\ IF index' = BufferSize
       THEN play' = FALSE /\ green_LED' = {}
       ELSE UNCHANGED <<play, green_LED>>
  /\ at' = IF wslc' < PortWords /\ index' < BufferSize THEN "playing" ELSE "keys"
  /\ UNCHANGED <<record, ralc, pressed>>

PolledLoop == NoKey \/ Record \/ Store \/ Play \/ Output
PolledNext == FrameIn \/ FrameOut \/ Key1 \/ Key2 \/ PolledLoop

\* The codec and the processor run; nobody has to press a key.
PolledFairness ==
  WF_polledVars(FrameIn) /\ WF_polledVars(FrameOut) /\ WF_polledVars(PolledLoop)

PolledSpec == PolledInit /\ [][PolledNext]_polledVars /\ PolledFairness

-----------------------------------------------------------------------------
(* Properties *)

PolledTypeOK ==
  /\ {record, play} \subseteq BOOLEAN
  /\ index \in 0 .. BufferSize
  /\ at \in {"keys", "record", "storing", "play", "playing"}
  /\ {ralc, wslc} \subseteq 0 .. PortWords
  /\ green_LED \subseteq {0, 1} /\ pressed \in 0 .. KeyPresses

\* A recording ends, whenever and whatever keys are pressed meanwhile, and
\* leaves a full buffer.
RecordEnds == record ~> (~record /\ index = BufferSize)

=============================================================================
