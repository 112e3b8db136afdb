------------------------------- MODULE MCMedia -------------------------------
(***************************************************************************)
(* The interrupt-driven demo of the DE2 media computer, seen from its      *)
(* displays (MediaPS2) or from its audio port (MediaAudio).  The two       *)
(* halves share no state but the processor, which is free for the one      *)
(* while the other is idle: a behaviour follows one of them and leaves     *)
(* the other as it was initially.                                          *)
(*                                                                         *)
(* Three bytes that can be told apart on the displays: 00 and AA, which    *)
(* make a mouse's self-test answer, and 1B, whose low digit is a b.  FIFOs *)
(* of two words; interrupts when a FIFO is full (empty); a buffer of three *)
(* words, so that a run ends in the middle of a burst; two key presses, so *)
(* that the second can fall anywhere in what the first has started.        *)
(***************************************************************************)
EXTENDS MCMediaPS2, MediaAudio

VARIABLE half

mediaVars == <<vars, audioVars, half>>

MediaInit ==
  /\ half \in {"displays", "audio"}
  /\ Init /\ AudioInit

Displays(A) == half = "displays" /\ A /\ UNCHANGED <<audioVars, half>>
Audio(A)    == half = "audio" /\ A /\ UNCHANGED <<vars, half>>

MediaNext == Displays(Next) \/ Audio(AudioNext)

\* The fairness of each half; one formula serves a task of both, because only
\* one of them is running.
MediaFairness ==
  /\ WF_mediaVars(Displays(Main) \/ Audio(Codec))
  /\ WF_mediaVars(Displays(interval_timer_ISR) \/ Audio(Dac))
  /\ WF_mediaVars(Displays(PS2_ISR) \/ Audio(Handler))
  /\ WF_mediaVars(Displays(Tick))

MediaSpec == MediaInit /\ [][MediaNext]_mediaVars /\ MediaFairness

\* The state of either half stays within its types.
MediaTypeOK == TypeOK /\ AudioTypeOK

\* DisplaySettles, where it is the displays that run.
DisplaysSettle == half = "displays" => DisplaySettles
=============================================================================
