------------------------------- MODULE Board --------------------------------
(***************************************************************************)
(* The small designs of the repository, one at a time on its board: SCOMP, *)
(* the clock and the display writer of lab 7, the timed state machine of   *)
(* HW 6, the bouncing word and the polled recorder of the media computer.  *)
(* A behaviour follows one of them, all of it; the others stay as they     *)
(* were initially.                                                         *)
(***************************************************************************)
EXTENDS Scomp, LcdClock, LcdWriter, TimedFsm, Bounce, PolledMedia

VARIABLE design

boardVars ==
  <<vars, clockVars, writerVars, fsmVars, bounceVars, polledVars, design>>

\* What is not on the board has one initial state.  Without a SCOMP on the
\* board there is no memory.
NoScomp ==
  /\ reset = 0 /\ state = "reset_pc" /\ memory = <<>> /\ memory_write = 0
  /\ instruction_register = 0 /\ memory_data_register = 0
  /\ register_AC = 0 /\ program_counter = 0

BoardInit ==
  /\ design \in {"scomp", "clock", "writer", "fsm", "word", "recorder"}
  /\ IF design = "scomp" THEN Init ELSE NoScomp
  /\ SW0 = 0                   \* the two positions are alike
  /\ design # "fsm" => counted = 0 /\ x = 0
  /\ LcdClockInit /\ WriterInit /\ FsmInit /\ BounceInit /\ PolledInit

ScompStays  == UNCHANGED vars
ClockStays  == UNCHANGED clockVars
WriterStays == UNCHANGED writerVars
SmallStays  == UNCHANGED <<fsmVars, bounceVars, polledVars>>

OnBoard(which, A) == design = which /\ A /\ UNCHANGED design
Scomp(A)    == OnBoard("scomp", A) /\ ClockStays /\ WriterStays /\ SmallStays
Clock(A)    == OnBoard("clock", A) /\ ScompStays /\ WriterStays /\ SmallStays
Writer(A)   == OnBoard("writer", A) /\ ScompStays /\ ClockStays /\ SmallStays
Small(which, A) == OnBoard(which, A) /\ ScompStays /\ ClockStays /\ WriterStays
Fsm(A)      == Small("fsm", A) /\ UNCHANGED <<bounceVars, polledVars>>
Screen(A)   == Small("word", A) /\ UNCHANGED <<fsmVars, polledVars>>
Recorder(A) == Small("recorder", A) /\ UNCHANGED <<fsmVars, bounceVars>>

BoardNext ==
  \/ Scomp(Next) \/ Clock(LcdClockNext) \/ Writer(WriterNext)
  \/ Fsm(FsmNext) \/ Screen(BounceNext) \/ Recorder(PolledNext)

\* The fairness each design's own module states; one formula serves a task of
\* each, because only one of them is on the board.
BoardFairness ==
  /\ WF_boardVars(Writer(Pulse \/ SecondEdge) \/ Screen(Move) \/ Recorder(FrameIn))
  /\ WF_boardVars(Recorder(FrameOut))
  /\ WF_boardVars(Recorder(PolledLoop))

BoardSpec == BoardInit /\ [][BoardNext]_boardVars /\ BoardFairness

\* The state of the design on the board stays within its types.
BoardTypeOK ==
  /\ design = "scomp" => TypeOK
  /\ LcdClockTypeOK /\ WriterTypeOK /\ FsmTypeOK /\ BounceTypeOK /\ PolledTypeOK

\* NameSettles, where it is the display writer that runs.
NameSettlesOnBoard == design = "writer" => NameSettles

\* KeepsCrossing, where it is the word that moves.
WordKeepsCrossing == design = "word" => KeepsCrossing
=============================================================================
