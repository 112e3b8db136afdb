------------------------------- MODULE MCBoard -------------------------------
(***************************************************************************)
(* The small designs with the constants of their sources, SCOMP running    *)
(* the repository's own test program.                                      *)
(***************************************************************************)
EXTENDS Board, MCScompProgram
=============================================================================
