--------------------------- MODULE MCScompProgram ---------------------------
(***************************************************************************)
(* SCOMP at its real size (256 words of 16 bits) running the repository's  *)
(* own test program, HW5/scomp/program.mif, with reset at any moment.      *)
(***************************************************************************)
EXTENDS ScompProgram

B == INSTANCE Bitwise
XorW(a, b) == B!^^(a, b)
OrW(a, b)  == B!|(a, b)
AndW(a, b) == B!&(a, b)

ProgramMif == {Program}

ASSUME OnTestMachine == TestMachine
=============================================================================
