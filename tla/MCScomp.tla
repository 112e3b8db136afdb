------------------------------ MODULE MCScomp -------------------------------
(***************************************************************************)
(* SCOMP with four memory words of six bits (four opcode, two address      *)
(* bits): every program made of the words below, reset at any moment.      *)
(***************************************************************************)
EXTENDS ScompLogic

W == INSTANCE Bitwise

MCXor(a, b) == W!^^(a, b)
MCOr(a, b)  == W!|(a, b)
MCAnd(a, b) == W!&(a, b)

\* Words <<opcode, operand>> that make a program store into itself, execute an
\* unknown opcode (4), and feed X"FF" (here 3) to ADDI (11).
First  == {0*4 + 3, 2*4 + 3, 4*4 + 2}
Second == {1*4 + 3, 11*4 + 3, 7*4 + 2}
Third  == {3*4 + 0, 5*4 + 3}
Fourth == {3, 8*4 + 1}

MCPrograms ==
  { [a \in 0..3 |-> CASE a = 0 -> w0 [] a = 1 -> w1 [] a = 2 -> w2 [] a = 3 -> w3] :
      w0 \in First, w1 \in Second, w2 \in Third, w3 \in Fourth }
  \cup {[a \in 0..3 |-> IF a = 0 THEN 11*4 + 3 ELSE 3]}   \* ADDI spins
=============================================================================
