------------------------------ MODULE ScompISA ------------------------------
(***************************************************************************)
(* What SCOMP promises its programmer: one step per instruction, no clock, *)
(* no control states, no RAM port.  The instruction set is the one the     *)
(* execute states of HW5/scomp/scomp.vhd implement, its oddities included: *)
(*   - an unknown opcode makes the machine execute the word it addresses   *)
(*     and skip one program word;                                          *)
(*   - ADDI adds the word it addresses, and a word equal to X"FF"          *)
(*     subtracts one and makes the next program word the next addend;      *)
(*   - a reset that strikes a STORE may put the accumulator in word 0.     *)
(***************************************************************************)
EXTENDS Integers

CONSTANTS AddrSize, WordSize, Programs, Xor(_, _), Or(_, _), And(_, _)

VARIABLES
  pc, ac, mem,
  word,      \* the next instruction word, or the next addend of an ADDI
  adding     \* an ADDI is under way

vars == <<pc, ac, mem, word, adding>>

Op  == word \div AddrSize
Arg == word % AddrSize
Following == (pc + 1) % AddrSize

\* Continue with the instruction at address p of memory m.
Proceed(m, p) ==
  /\ mem' = m /\ pc' = p /\ word' = m[p]
  /\ adding' = FALSE

Is(op) == ~adding /\ Op = op

Init ==
  /\ mem \in Programs
  /\ pc = 0 /\ ac = 0 /\ word = mem[0] /\ adding = FALSE

Add   == Is(0) /\ ac' = (ac + mem[Arg]) % WordSize /\ Proceed(mem, Following)
Subt  == Is(5) /\ ac' = (ac - mem[Arg]) % WordSize /\ Proceed(mem, Following)
XorOp == Is(6) /\ ac' = Xor(ac, mem[Arg]) /\ Proceed(mem, Following)
OrOp  == Is(7) /\ ac' = Or(ac, mem[Arg])  /\ Proceed(mem, Following)
AndOp == Is(8) /\ ac' = And(ac, mem[Arg]) /\ Proceed(mem, Following)
Load  == Is(2) /\ ac' = mem[Arg] /\ Proceed(mem, Following)
Jump  == Is(3) /\ ac' = ac /\ Proceed(mem, Arg)
Store == Is(1) /\ ac' = ac /\ Proceed([mem EXCEPT ![Arg] = ac], Following)

Addi ==
  /\ Is(11)
  /\ adding' = TRUE /\ word' = mem[Arg] /\ pc' = Following
  /\ UNCHANGED <<ac, mem>>

AddWord ==
  /\ adding /\ word # AddrSize - 1
  /\ ac' = (ac + word) % WordSize
  /\ Proceed(mem, pc)

SubtractOne ==
  /\ adding /\ word = AddrSize - 1
  /\ ac' = (ac - 1) % WordSize
  /\ word' = mem[pc]
  /\ UNCHANGED <<pc, mem, adding>>

ExecuteOperand ==
  /\ ~adding /\ Op \notin {0, 1, 2, 3, 5, 6, 7, 8, 11}
  /\ word' = mem[Arg] /\ pc' = Following
  /\ UNCHANGED <<ac, mem, adding>>

Reset ==
  /\ \/ Proceed(mem, 0)
     \/ Is(1) /\ Proceed([mem EXCEPT ![0] = ac], 0)
  /\ ac' = 0

Next ==
  \/ Add \/ Subt \/ XorOp \/ OrOp \/ AndOp \/ Load \/ Jump \/ Store
  \/ Addi \/ AddWord \/ SubtractOne \/ ExecuteOperand \/ Reset

Spec == Init /\ [][Next]_vars
=============================================================================
