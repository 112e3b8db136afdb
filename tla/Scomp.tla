------------------------------- MODULE Scomp --------------------------------
(***************************************************************************)
(* The SCOMP teaching processor (HW5/scomp/scomp.vhd): one accumulator, a  *)
(* multi-cycle control FSM and a single-port synchronous RAM.              *)
(*                                                                         *)
(* One action is one rising clock edge in one control state; the RAM       *)
(* (altsyncram, registered address/data/wren, unregistered output) takes   *)
(* the same edge.  Reset is asynchronous: it moves the state register and  *)
(* nothing else, between any two clock edges.                              *)
(***************************************************************************)
EXTENDS Integers

CONSTANTS
  AddrSize,     \* number of memory words: 256 in the source
  WordSize,     \* number of values of a word: 65536 in the source
  Programs,     \* the initial memory contents (the .mif files)
  Xor(_, _), Or(_, _), And(_, _)   \* bitwise logic on words

Addr == 0 .. AddrSize - 1
Word == 0 .. WordSize - 1

ASSUME SizeAssumption == AddrSize \in Nat \ {0} /\ WordSize \in Nat \ {0}
ASSUME AddrInWord     == AddrSize <= WordSize
ASSUME ProgramsTyped  == Programs \subseteq [Addr -> Word]

VARIABLES
  reset,                 \* the reset input
  state,                 \* the control FSM
  instruction_register, memory_data_register,
  register_AC, program_counter, memory_write,
  memory                 \* the contents of the RAM

vars == <<reset, state, instruction_register, memory_data_register,
          register_AC, program_counter, memory_write, memory>>

regs == <<instruction_register, register_AC, program_counter, memory_write>>

AluStates == {"execute_add", "execute_subt", "execute_xor", "execute_or", "execute_and"}
States == AluStates \cup
  {"reset_pc", "fetch", "decode", "execute_addi", "execute_load", "execute_store",
   "execute_store2", "execute_store3", "execute_jump"}

Opcode(w)  == w \div AddrSize
Operand(w) == w % AddrSize
FF == AddrSize - 1                 \* X"FF": the low byte all ones

\* Mutant: XOR and OR exchanged in the decoder.
ExecState_Swapped(op) ==
  CASE op = 0  -> "execute_add"   [] op = 1 -> "execute_store"
    [] op = 2  -> "execute_load"  [] op = 3 -> "execute_jump"
    [] op = 5  -> "execute_subt"  [] op = 6 -> "execute_or"
    [] op = 7  -> "execute_xor"   [] op = 8 -> "execute_and"
    [] op = 11 -> "execute_addi"  [] OTHER  -> "fetch"

\* The control state a decoded opcode selects; any other opcode goes back to fetch.
ExecState(op) ==
  CASE op = 0  -> "execute_add"   [] op = 1 -> "execute_store"
    [] op = 2  -> "execute_load"  [] op = 3 -> "execute_jump"
    [] op = 5  -> "execute_subt"  [] op = 6 -> "execute_xor"
    [] op = 7  -> "execute_or"    [] op = 8 -> "execute_and"
    [] op = 11 -> "execute_addi"  [] OTHER  -> "fetch"

\* Mutant: SUBT subtracts the accumulator from the operand.
Alu_Reversed(s, ac, v) ==
  CASE s = "execute_add"  -> (ac + v) % WordSize
    [] s = "execute_subt" -> (v - ac) % WordSize
    [] s = "execute_xor"  -> Xor(ac, v)
    [] s = "execute_or"   -> Or(ac, v)
    [] s = "execute_and"  -> And(ac, v)

Alu(s, ac, v) ==
  CASE s = "execute_add"  -> (ac + v) % WordSize
    [] s = "execute_subt" -> (ac - v) % WordSize
    [] s = "execute_xor"  -> Xor(ac, v)
    [] s = "execute_or"   -> Or(ac, v)
    [] s = "execute_and"  -> And(ac, v)

\* Mutant: the last STORE state still presents the operand's address.
memory_address_register_Late ==
  CASE state = "reset_pc" -> 0
    [] state \in {"decode", "execute_store", "execute_store2", "execute_store3", "execute_jump"}
         -> Operand(instruction_register)
    [] OTHER -> program_counter

\* Mutant: the program counter is back on the port before the write.
memory_address_register_Early ==
  CASE state = "reset_pc" -> 0
    [] state \in {"decode", "execute_store", "execute_jump"} -> Operand(instruction_register)
    [] OTHER -> program_counter

\* The address on the RAM port, combinational in the control state.
memory_address_register ==
  CASE state = "reset_pc" -> 0
    [] state \in {"decode", "execute_store", "execute_store2", "execute_jump"}
         -> Operand(instruction_register)
    [] OTHER -> program_counter

(***************************************************************************)
(* The RAM on a clock edge: write if wren, then read (new data is seen by  *)
(* a read of the address being written).                                   *)
(***************************************************************************)
RamEdge ==
  /\ memory' = IF memory_write = 1
               THEN [memory EXCEPT ![memory_address_register] = register_AC]
               ELSE memory
  /\ memory_data_register' = memory'[memory_address_register]

-----------------------------------------------------------------------------
\* Power-up: the fitted FSM encodes reset_pc as its all-zero state.
Init ==
  /\ reset \in {0, 1}
  /\ state = "reset_pc"
  /\ instruction_register = 0 /\ memory_data_register = 0
  /\ register_AC = 0 /\ program_counter = 0 /\ memory_write = 0
  /\ memory \in Programs

Edge(s) == reset = 0 /\ state = s /\ RamEdge /\ UNCHANGED reset

Reset_pc ==
  /\ Edge("reset_pc")
  /\ program_counter' = 0 /\ register_AC' = 0 /\ memory_write' = 0
  /\ state' = "fetch"
  /\ UNCHANGED instruction_register

\* Mutant: the program counter does not wrap.
Fetch_NoWrap ==
  /\ Edge("fetch")
  /\ instruction_register' = memory_data_register
  /\ program_counter' = program_counter + 1
  /\ memory_write' = 0
  /\ state' = "decode"
  /\ UNCHANGED register_AC

Fetch ==
  /\ Edge("fetch")
  /\ instruction_register' = memory_data_register
  /\ program_counter' = (program_counter + 1) % AddrSize
  /\ memory_write' = 0
  /\ state' = "decode"
  /\ UNCHANGED register_AC

Decode ==
  /\ Edge("decode")
  /\ state' = ExecState(Opcode(instruction_register))
  /\ UNCHANGED regs

Execute_alu ==
  /\ \E s \in AluStates : Edge(s)
  /\ register_AC' = Alu(state, register_AC, memory_data_register)
  /\ state' = "fetch"
  /\ UNCHANGED <<instruction_register, program_counter, memory_write>>

\* Operand X"FF" subtracts one and does not leave the state: the transition
\* to fetch is inside the ELSE branch.
Execute_addi ==
  /\ Edge("execute_addi")
  /\ IF memory_data_register = FF
     THEN /\ register_AC' = (register_AC - 1) % WordSize
          /\ UNCHANGED state
     ELSE /\ register_AC' = (register_AC + memory_data_register) % WordSize
          /\ state' = "fetch"
  /\ UNCHANGED <<instruction_register, program_counter, memory_write>>

Execute_store ==
  /\ Edge("execute_store")
  /\ memory_write' = 1
  /\ state' = "execute_store2"
  /\ UNCHANGED <<instruction_register, register_AC, program_counter>>

\* Mutant: the write enable is left up for fetch to clear.
Execute_store2_KeepsWriting ==
  /\ Edge("execute_store2")
  /\ state' = "execute_store3"
  /\ UNCHANGED regs

Execute_store2 ==
  /\ Edge("execute_store2")
  /\ memory_write' = 0
  /\ state' = "execute_store3"
  /\ UNCHANGED <<instruction_register, register_AC, program_counter>>

Execute_store3 ==
  /\ Edge("execute_store3")
  /\ state' = "fetch"
  /\ UNCHANGED regs

Execute_load ==
  /\ Edge("execute_load")
  /\ register_AC' = memory_data_register
  /\ state' = "fetch"
  /\ UNCHANGED <<instruction_register, program_counter, memory_write>>

\* Mutant: the jump forgets to leave its state.
Execute_jump_Stays ==
  /\ Edge("execute_jump")
  /\ program_counter' = Operand(instruction_register)
  /\ UNCHANGED <<state, instruction_register, register_AC, memory_write>>

Execute_jump ==
  /\ Edge("execute_jump")
  /\ program_counter' = Operand(instruction_register)
  /\ state' = "fetch"
  /\ UNCHANGED <<instruction_register, register_AC, memory_write>>

\* A clock edge while reset is high: the reset branch shadows every register
\* assignment, so the registers hold, but the RAM is still clocked.
HeldEdge ==
  /\ reset = 1
  /\ RamEdge
  /\ UNCHANGED <<reset, state, regs>>

AssertReset ==
  /\ reset = 0
  /\ reset' = 1 /\ state' = "reset_pc"
  /\ UNCHANGED <<memory_data_register, memory, regs>>

ReleaseReset ==
  /\ reset = 1
  /\ reset' = 0
  /\ UNCHANGED <<state, memory_data_register, memory, regs>>

ClockEdge ==
  \/ Reset_pc \/ Fetch \/ Decode \/ Execute_alu \/ Execute_addi
  \/ Execute_store \/ Execute_store2 \/ Execute_store3
  \/ Execute_load \/ Execute_jump \/ HeldEdge

Next == ClockEdge \/ AssertReset \/ ReleaseReset

\* The clock is free running and a reset button is let go; nobody has to press it.
Fairness == WF_vars(ClockEdge) /\ WF_vars(ReleaseReset)

Spec == Init /\ [][Next]_vars /\ Fairness

-----------------------------------------------------------------------------
(* Type invariant of the registers, the RAM and the control state. *)
TypeOK ==
  /\ reset \in {0, 1} /\ memory_write \in {0, 1}
  /\ state \in States
  /\ instruction_register \in Word /\ memory_data_register \in Word
  /\ register_AC \in Word
  /\ program_counter \in Addr
  /\ memory \in [Addr -> Word]

(* The write enable is up only in the second state of a STORE, or in       *)
(* reset_pc when the asynchronous reset cut that state short.              *)
WriteEnableInv ==
  /\ memory_write = 1 => state \in {"execute_store2", "reset_pc"}
  /\ state = "execute_store2" => memory_write = 1
  /\ reset = 1 => state = "reset_pc"

(* Each control state that carries an instruction out was chosen for that  *)
(* instruction by decode.                                                  *)
ControlInv ==
  /\ state \in AluStates \cup {"execute_addi", "execute_load", "execute_store", "execute_jump"}
       => ExecState(Opcode(instruction_register)) = state
  /\ state \in {"execute_store2", "execute_store3"}
       => ExecState(Opcode(instruction_register)) = "execute_store"

(* The RAM output is the word the control state is about to consume: in    *)
(* fetch the word at the program counter - or, after an unknown opcode,    *)
(* the word that opcode addressed; in the execute states the operand - or, *)
(* in a repeated ADDI, the word at the program counter.                    *)
PortInv ==
  /\ state = "fetch" =>
       \/ memory_data_register = memory[program_counter]
       \/ /\ ExecState(Opcode(instruction_register)) = "fetch"
          /\ memory_data_register = memory[Operand(instruction_register)]
  /\ state \in AluStates \cup {"execute_load"} =>
       memory_data_register = memory[Operand(instruction_register)]
  /\ state = "execute_addi" =>
       memory_data_register \in {memory[Operand(instruction_register)], memory[program_counter]}

(* The RAM changes only by a STORE writing the accumulator to its operand, *)
(* or by a cut-short STORE writing it to word 0; and the accumulator and   *)
(* program counter a STORE uses do not move under it.                      *)
OnlyStoresWrite ==
  [][memory' # memory =>
       \/ /\ state = "execute_store2"
          /\ memory' = [memory EXCEPT ![Operand(instruction_register)] = register_AC]
          /\ UNCHANGED <<register_AC, program_counter, instruction_register>>
       \/ /\ state = "reset_pc"
          /\ memory' = [memory EXCEPT ![0] = register_AC]]_vars

(* An ADDI whose operand was X"FF" and whose next program word is X"FF"    *)
(* too: execute_addi never leaves.                                         *)
Spinning == state = "execute_addi" /\ memory[program_counter] = FF

(* The processor keeps fetching instructions unless it spins in ADDI or    *)
(* somebody keeps pressing reset: no control state is a dead end.          *)
InstructionsComplete ==
  \/ []<>(state = "fetch")
  \/ <>[]Spinning
  \/ []<>(reset = 1)

(* What the comment of execute_store2 says: "This state ensures that the   *)
(* memory address is valid until after memory_write goes inactive".        *)
AddressValidDuringWrite ==
  memory_write = 1 => memory_address_register = Operand(instruction_register)

-----------------------------------------------------------------------------
(* The refinement mapping.  An instruction commits on the edge that leaves *)
(* its execute state (a STORE: its second state); a reset commits when it  *)
(* strikes, the write it could not stop included.                          *)
isaMem ==
  IF state = "reset_pc" /\ memory_write = 1
  THEN [memory EXCEPT ![0] = register_AC] ELSE memory
isaPc ==
  CASE state = "reset_pc" -> 0
    [] state \in {"fetch", "execute_addi", "execute_store3"} -> program_counter
    [] OTHER -> (program_counter - 1) % AddrSize
isaAc == IF state = "reset_pc" THEN 0 ELSE register_AC
isaWord ==
  CASE state = "reset_pc" -> isaMem[0]
    [] state \in {"fetch", "execute_addi"} -> memory_data_register
    [] state = "execute_store3" -> memory[program_counter]
    [] OTHER -> instruction_register

ISA == INSTANCE ScompISA WITH
  pc <- isaPc, ac <- isaAc, mem <- isaMem, word <- isaWord,
  adding <- (state = "execute_addi")

(* SCOMP implements its instruction set: every clock edge and every reset  *)
(* is one instruction, one reset or nothing to the programmer.             *)
ImplementsISA == ISA!Spec

=============================================================================
