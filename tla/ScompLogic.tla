----------------------------- MODULE ScompLogic -----------------------------
(***************************************************************************)
(* SCOMP with the assumption that its logic unit makes words of words.  It *)
(* has a module of its own because TLC evaluates it for every two words:   *)
(* at the real size of 16 bits these are 2^32 pairs.                       *)
(***************************************************************************)
EXTENDS Scomp

ASSUME LogicTyped == \A a, b \in Word :
                       Xor(a, b) \in Word /\ Or(a, b) \in Word /\ And(a, b) \in Word
=============================================================================
