----------------------------- MODULE MCMediaPS2 -----------------------------
(***************************************************************************)
(* Three bytes that can be told apart on the displays: 00 and AA, which    *)
(* make a mouse's self-test answer, and 1B, whose low digit is a b.  Three *)
(* bytes are enough to replace byte1..byte3 completely in one refresh.     *)
(***************************************************************************)
EXTENDS MediaPS2

MCBytes == {0, 27, 170}
=============================================================================
