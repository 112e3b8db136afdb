---------------------------- MODULE ScompProgram ----------------------------
(***************************************************************************)
(* The repository's own test program for SCOMP, HW5/scomp/program.mif, and *)
(* what its comments say it computes.                                      *)
(***************************************************************************)
EXTENDS Scomp

Code == <<\h0260, \h0061, \h0162, \h0262, \h0261, \h0563, \h0164, \h0264,
          \h0261, \h0663, \h0165, \h0265, \h0261, \h0763, \h0166, \h0266,
          \h0261, \h0863, \h0167, \h0267, \h0261, \h0BFF, \h0168, \h0268, \h0318>>

\* program.mif, lines 10-53
Program ==
  [a \in 0..255 |->
     IF a <= 24 THEN Code[a + 1]
     ELSE CASE a = \h60 -> \hAAAA [] a = \h61 -> \h5555 [] a = \h63 -> \h3333
            [] OTHER -> 0]

\* The machine the program is written for: 256 words of 16 bits, and a logic
\* unit that does what the program relies on.
TestMachine ==
  /\ AddrSize = 256 /\ WordSize = 65536 /\ Programs = {Program}
  /\ Xor(\h5555, \h3333) = \h6666 /\ Or(\h5555, \h3333) = \h7777
  /\ And(\h5555, \h3333) = \h1111 /\ And(0, \h3333) = 0

\* The program is in its final loop, and no torn STORE has damaged its code.
Finished ==
  /\ state = "decode" /\ instruction_register = \h0318
  /\ \A a \in 0..24 : memory[a] = Program[a]

(* The values program.mif says its data words hold "after running          *)
(* program", for ADD, SUBT, XOR, OR and AND (lines 47-52), however often   *)
(* and whenever the reset line interrupted the run.                        *)
ProgramResults ==
  Finished =>
    /\ memory[\h62] = \hFFFF /\ memory[\h64] = \h2222 /\ memory[\h65] = \h6666
    /\ memory[\h66] = \h7777 /\ memory[\h67] = \h1111

(* program.mif line 53: "Data value of I - should be 5554 after running    *)
(* program" - the result of the X"FF" integer of ADDI (line 39).           *)
AddiResult == Finished => memory[\h68] = \h5554
=============================================================================
