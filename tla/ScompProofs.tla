----------------------------- MODULE ScompProofs ----------------------------
(***************************************************************************)
(* Proofs about the SCOMP processor for every memory size, word size,      *)
(* program and bitwise logic.                                              *)
(***************************************************************************)
EXTENDS ScompLogic, ScompProgram, TLAPS

\* The low part of a word is an address, and reductions stay in range.
LEMMA Reduce ==
  ASSUME NEW x \in Int
  PROVE  x % AddrSize \in Addr /\ x % WordSize \in Word
BY SizeAssumption DEF Addr, Word

LEMMA ZeroTyped == 0 \in Addr /\ 0 \in Word
BY SizeAssumption DEF Addr, Word

LEMMA ExecStateTyped ==
  ASSUME NEW op PROVE ExecState(op) \in States \ {"reset_pc", "decode", "execute_store2", "execute_store3"}
BY DEF ExecState, States, AluStates

\* What the arithmetic unit makes of two words is a word.
LEMMA AluTyped ==
  ASSUME NEW s \in AluStates, NEW a \in Word, NEW b \in Word
  PROVE  Alu(s, a, b) \in Word
<1>1. a + b \in Int /\ a - b \in Int
  BY SizeAssumption DEF Word
<1>2. QED BY <1>1, Reduce, LogicTyped DEF Alu, AluStates

\* The RAM port always carries an address.
LEMMA PortTyped == TypeOK => memory_address_register \in Addr
<1> SUFFICES ASSUME TypeOK PROVE memory_address_register \in Addr
  OBVIOUS
<1>1. instruction_register \in Int
  BY SizeAssumption DEF TypeOK, Word
<1>2. Operand(instruction_register) \in Addr
  BY <1>1, Reduce DEF Operand
<1>3. QED BY <1>2, ZeroTyped DEF TypeOK, memory_address_register

\* A RAM edge keeps the memory and its output typed.
LEMMA RamTyped == TypeOK /\ RamEdge =>
  memory' \in [Addr -> Word] /\ memory_data_register' \in Word
BY PortTyped DEF TypeOK, RamEdge

-----------------------------------------------------------------------------
(* The types: at power-up, and after every edge. *)
LEMMA TypeInitially == Init => TypeOK
  BY ZeroTyped, ProgramsTyped DEF Init, TypeOK, States

LEMMA TypeStep == TypeOK /\ [Next]_vars => TypeOK'
<1> SUFFICES ASSUME TypeOK, [Next]_vars PROVE TypeOK'
  OBVIOUS
<1>0. ASSUME RamEdge PROVE memory' \in [Addr -> Word] /\ memory_data_register' \in Word
  BY <1>0, RamTyped
<1>1. CASE Reset_pc
  BY <1>1, <1>0, ZeroTyped DEF Reset_pc, Edge, TypeOK, States
<1>2. CASE Fetch
  <2>1. program_counter + 1 \in Int
    BY SizeAssumption DEF TypeOK, Addr
  <2>2. program_counter' \in Addr
    BY <1>2, <2>1, Reduce DEF Fetch
  <2>3. QED BY <1>2, <1>0, <2>2 DEF Fetch, Edge, TypeOK, States
<1>3. CASE Decode
  BY <1>3, <1>0, ExecStateTyped DEF Decode, Edge, TypeOK, regs
<1>4. CASE Execute_alu
  <2>1. PICK s \in AluStates : Edge(s)
    BY <1>4 DEF Execute_alu
  <2>2. register_AC' \in Word
    BY <1>4, <2>1, AluTyped DEF Execute_alu, Edge, TypeOK
  <2>3. QED BY <1>4, <1>0, <2>1, <2>2 DEF Execute_alu, Edge, TypeOK, States
<1>5. CASE Execute_addi
  <2>1. register_AC - 1 \in Int /\ register_AC + memory_data_register \in Int
    BY SizeAssumption DEF TypeOK, Word
  <2>2. register_AC' \in Word
    BY <1>5, <2>1, Reduce DEF Execute_addi
  <2>3. QED BY <1>5, <1>0, <2>2 DEF Execute_addi, Edge, TypeOK, States
<1>6. CASE Execute_store
  BY <1>6, <1>0 DEF Execute_store, Edge, TypeOK, States
<1>7. CASE Execute_store2
  BY <1>7, <1>0 DEF Execute_store2, Edge, TypeOK, States
<1>8. CASE Execute_store3
  BY <1>8, <1>0 DEF Execute_store3, Edge, TypeOK, States, regs
<1>9. CASE Execute_load
  BY <1>9, <1>0 DEF Execute_load, Edge, TypeOK, States
<1>10. CASE Execute_jump
  <2>1. instruction_register \in Int
    BY SizeAssumption DEF TypeOK, Word
  <2>2. program_counter' \in Addr
    BY <1>10, <2>1, Reduce DEF Execute_jump, Operand
  <2>3. QED BY <1>10, <1>0, <2>2 DEF Execute_jump, Edge, TypeOK, States
<1>11. CASE HeldEdge
  BY <1>11, <1>0 DEF HeldEdge, TypeOK, regs
<1>12. CASE AssertReset
  BY <1>12 DEF AssertReset, TypeOK, States, regs
<1>13. CASE ReleaseReset
  BY <1>13 DEF ReleaseReset, TypeOK, regs
<1>14. CASE UNCHANGED vars
  BY <1>14 DEF vars, TypeOK
<1>15. QED
  BY <1>1, <1>2, <1>3, <1>4, <1>5, <1>6, <1>7, <1>8, <1>9, <1>10, <1>11, <1>12,
     <1>13, <1>14 DEF Next, ClockEdge

(* The registers, the RAM and the control state keep their types, whatever *)
(* the program does and whenever reset strikes.                            *)
THEOREM TypeCorrect == Spec => []TypeOK
BY TypeInitially, TypeStep, PTL DEF Spec

-----------------------------------------------------------------------------
(***************************************************************************)
(* PortInv alone is not inductive: that a read sees the memory unchanged   *)
(* needs the write enable down (WriteEnableInv), that a fetch after an     *)
(* unknown opcode sees its operand needs ControlInv.                       *)
(***************************************************************************)
IInv == TypeOK /\ WriteEnableInv /\ ControlInv /\ PortInv

\* Outside execute_store2 and reset_pc a clock edge only reads the memory.
LEMMA ReadEdge ==
  ASSUME IInv, RamEdge, state \notin {"execute_store2", "reset_pc"}
  PROVE  memory' = memory /\ memory_data_register' = memory[memory_address_register]
BY DEF IInv, TypeOK, WriteEnableInv, RamEdge

LEMMA EnableStep == IInv /\ [Next]_vars => WriteEnableInv'
<1> SUFFICES ASSUME IInv, [Next]_vars PROVE WriteEnableInv'
  OBVIOUS
<1> USE DEF IInv, TypeOK, WriteEnableInv
<1>1. CASE Reset_pc \/ Fetch \/ Execute_addi \/ Execute_store \/ Execute_store2 \/
           Execute_store3 \/ Execute_load \/ Execute_jump
  BY <1>1 DEF Reset_pc, Fetch, Execute_addi, Execute_store, Execute_store2, Execute_store3,
              Execute_load, Execute_jump, Edge, regs
<1>2. CASE Decode
  BY <1>2, ExecStateTyped DEF Decode, Edge, regs
<1>3. CASE Execute_alu
  BY <1>3 DEF Execute_alu, Edge, AluStates
<1>4. CASE HeldEdge \/ AssertReset \/ ReleaseReset \/ UNCHANGED vars
  BY <1>4 DEF HeldEdge, AssertReset, ReleaseReset, vars, regs
<1>5. QED BY <1>1, <1>2, <1>3, <1>4 DEF Next, ClockEdge

LEMMA ControlStep == IInv /\ [Next]_vars => ControlInv'
<1> SUFFICES ASSUME IInv, [Next]_vars PROVE ControlInv'
  OBVIOUS
<1> USE DEF IInv, ControlInv, AluStates
<1>1. CASE Reset_pc \/ Fetch \/ Execute_alu \/ Execute_load \/ Execute_jump \/ Execute_store3
  BY <1>1 DEF Reset_pc, Fetch, Execute_alu, Execute_load, Execute_jump, Execute_store3
<1>2. CASE Decode
  BY <1>2, ExecStateTyped DEF Decode, regs
<1>3. CASE Execute_addi \/ Execute_store \/ Execute_store2
  BY <1>3 DEF Execute_addi, Execute_store, Execute_store2, Edge
<1>4. CASE HeldEdge \/ AssertReset \/ ReleaseReset \/ UNCHANGED vars
  BY <1>4 DEF HeldEdge, AssertReset, ReleaseReset, vars, regs
<1>5. QED BY <1>1, <1>2, <1>3, <1>4 DEF Next, ClockEdge

LEMMA PortStep == IInv /\ [Next]_vars => PortInv'
<1> SUFFICES ASSUME IInv, [Next]_vars PROVE PortInv'
  OBVIOUS
<1>1. CASE Reset_pc
  BY <1>1 DEF Reset_pc, Edge, RamEdge, PortInv, AluStates, memory_address_register
<1>2. CASE Fetch \/ Execute_store \/ Execute_store2
  BY <1>2 DEF Fetch, Execute_store, Execute_store2, PortInv, AluStates
<1>3. CASE Decode
  <2>1. memory' = memory /\ memory_data_register' = memory[Operand(instruction_register)]
    BY <1>3, ReadEdge DEF Decode, Edge, memory_address_register
  <2>2. QED BY <1>3, <2>1 DEF Decode, PortInv, regs
<1>4. CASE Execute_alu \/ Execute_addi \/ Execute_load \/ Execute_store3
  <2>1. state \in AluStates \cup {"execute_addi", "execute_load", "execute_store3"} /\ RamEdge
    BY <1>4 DEF Execute_alu, Execute_addi, Execute_load, Execute_store3, Edge
  <2>2. memory_address_register = program_counter
    BY <2>1 DEF memory_address_register, AluStates
  <2>3. memory' = memory /\ memory_data_register' = memory[program_counter]
    BY <2>1, <2>2, ReadEdge DEF AluStates
  <2>4. program_counter' = program_counter /\ state' \in {"fetch", state}
    BY <1>4 DEF Execute_alu, Execute_addi, Execute_load, Execute_store3, regs
  <2>5. state' = "fetch" \/ state = "execute_addi"
    BY <1>4 DEF Execute_alu, Execute_addi, Execute_load, Execute_store3, Edge
  <2>6. QED BY <2>3, <2>4, <2>5 DEF PortInv, AluStates
<1>5. CASE Execute_jump
  <2>1. memory' = memory /\ memory_data_register' = memory[Operand(instruction_register)]
    BY <1>5, ReadEdge DEF Execute_jump, Edge, memory_address_register
  <2>2. QED BY <1>5, <2>1 DEF Execute_jump, PortInv, AluStates
<1>6. CASE HeldEdge \/ AssertReset
  <2>1. state' = "reset_pc"
    BY <1>6 DEF HeldEdge, AssertReset, IInv, WriteEnableInv
  <2>2. QED BY <2>1 DEF PortInv, AluStates
<1>7. CASE ReleaseReset \/ UNCHANGED vars
  BY <1>7 DEF ReleaseReset, vars, regs, IInv, PortInv
<1>8. QED BY <1>1, <1>2, <1>3, <1>4, <1>5, <1>6, <1>7 DEF Next, ClockEdge

LEMMA IInvInitially == Init => IInv
  BY TypeInitially DEF Init, IInv, WriteEnableInv, ControlInv, PortInv, AluStates

LEMMA IInvStep == IInv /\ [Next]_vars => IInv'
<1>1. IInv /\ [Next]_vars => TypeOK'
  BY TypeStep DEF IInv
<1>2. QED BY <1>1, EnableStep, ControlStep, PortStep DEF IInv

LEMMA Inductive == Spec => []IInv
  BY IInvInitially, IInvStep, PTL DEF Spec

(* The RAM output is always the word the control state is about to use,    *)
(* whatever the program stores over itself.                                *)
THEOREM PortCorrect == Spec => []PortInv
<1>1. IInv => PortInv
  BY DEF IInv
<1>2. QED BY <1>1, Inductive, PTL

(* The write enable is up only in execute_store2 or after a reset that cut *)
(* it short.                                                               *)
THEOREM WriteEnableCorrect == Spec => []WriteEnableInv
<1>1. IInv => WriteEnableInv
  BY DEF IInv
<1>2. QED BY <1>1, Inductive, PTL

(* The memory changes only by a STORE to its operand or by a STORE that    *)
(* reset cut short, to word 0.                                             *)
THEOREM OnlyStoresWriteCorrect == Spec => OnlyStoresWrite
<1>1. ASSUME IInv, [Next]_vars, memory' # memory
      PROVE  \/ /\ state = "execute_store2"
                /\ memory' = [memory EXCEPT ![Operand(instruction_register)] = register_AC]
                /\ UNCHANGED <<register_AC, program_counter, instruction_register>>
             \/ /\ state = "reset_pc"
                /\ memory' = [memory EXCEPT ![0] = register_AC]
  <2>1. RamEdge
    BY <1>1 DEF Next, ClockEdge, Reset_pc, Fetch, Decode, Execute_alu, Execute_addi,
       Execute_store, Execute_store2, Execute_store3, Execute_load, Execute_jump, HeldEdge,
       Edge, AssertReset, ReleaseReset, vars
  <2>2. state \in {"execute_store2", "reset_pc"}
    BY <1>1, <2>1, ReadEdge
  <2>3. memory' = [memory EXCEPT ![memory_address_register] = register_AC]
    BY <1>1, <2>1 DEF RamEdge
  <2>4. CASE state = "reset_pc"
    BY <2>3, <2>4 DEF memory_address_register
  <2>5. CASE state = "execute_store2"
    <3>1. Execute_store2
      BY <1>1, <2>5 DEF IInv, WriteEnableInv, Next, ClockEdge, Reset_pc, Fetch, Decode,
         Execute_alu, Execute_addi, Execute_store, Execute_store3, Execute_load,
         Execute_jump, HeldEdge, Edge, AssertReset, ReleaseReset, vars, AluStates
    <3>2. QED BY <2>3, <2>5, <3>1 DEF Execute_store2, memory_address_register
  <2>6. QED BY <2>2, <2>4, <2>5
<1>2. IInv /\ [Next]_vars =>
        [memory' # memory =>
           \/ /\ state = "execute_store2"
              /\ memory' = [memory EXCEPT ![Operand(instruction_register)] = register_AC]
              /\ UNCHANGED <<register_AC, program_counter, instruction_register>>
           \/ /\ state = "reset_pc"
              /\ memory' = [memory EXCEPT ![0] = register_AC]]_vars
  BY <1>1
<1>3. QED BY <1>2, Inductive, PTL DEF Spec, OnlyStoresWrite

-----------------------------------------------------------------------------
(***************************************************************************)
(* The refinement.  Step by step: a clock edge that leaves an execute      *)
(* state is the instruction, the others are invisible.                     *)
(***************************************************************************)
isaVars == <<isaPc, isaAc, isaMem, isaWord, state = "execute_addi">>

\* Counting one up and one down around the address space is the identity.
LEMMA WrapAround ==
  ASSUME NEW p \in Addr
  PROVE  (((p + 1) % AddrSize) - 1) % AddrSize = p /\ (((p - 1) % AddrSize) + 1) % AddrSize = p
<1>1. p \in Int /\ 0 <= p /\ p < AddrSize /\ AddrSize \in Nat \ {0}
  BY SizeAssumption DEF Addr
<1>2. \A x \in Int : 0 <= x /\ x < AddrSize => x % AddrSize = x
  BY SizeAssumption
<1>3. AddrSize % AddrSize = 0
  BY SizeAssumption
<1>4. (-1) % AddrSize = AddrSize - 1
  BY SizeAssumption
<1>5. CASE p + 1 < AddrSize /\ p > 0
  BY <1>1, <1>2, <1>5
<1>6. CASE p = 0
  BY <1>1, <1>2, <1>3, <1>4, <1>6
<1>7. CASE p + 1 = AddrSize
  BY <1>1, <1>2, <1>3, <1>4, <1>7
<1>8. QED BY <1>1, <1>5, <1>6, <1>7

\* What the programmer sees while an instruction is being carried out.
LEMMA Executing ==
  ASSUME IInv, state \in States \ {"reset_pc", "fetch", "execute_addi", "execute_store3"}
  PROVE  /\ isaPc = (program_counter - 1) % AddrSize /\ ISA!Following = program_counter
         /\ isaAc = register_AC /\ isaMem = memory /\ isaWord = instruction_register
         /\ ISA!Op = Opcode(instruction_register) /\ ISA!Arg = Operand(instruction_register)
         /\ ISA!Op \in Int
<1>1. isaPc = (program_counter - 1) % AddrSize /\ isaAc = register_AC /\ isaMem = memory
      /\ isaWord = instruction_register
  BY DEF isaPc, isaAc, isaMem, isaWord, States, AluStates
<1>2. ISA!Following = program_counter
  BY <1>1, WrapAround DEF ISA!Following, IInv, TypeOK
<1>3. Opcode(instruction_register) \in Int
  BY SizeAssumption DEF IInv, TypeOK, Word, Opcode
<1>4. QED BY <1>1, <1>2, <1>3 DEF ISA!Op, ISA!Arg, Opcode, Operand

\* What the programmer sees when fetch has the word at the program counter.
LEMMA Fetching ==
  ASSUME state' = "fetch"
  PROVE  /\ isaPc' = program_counter' /\ isaAc' = register_AC' /\ isaMem' = memory'
         /\ isaWord' = memory_data_register' /\ (state = "execute_addi")' = FALSE
BY DEF isaPc, isaAc, isaMem, isaWord

\* An opcode leads to one execute state only.
LEMMA Decoded ==
  ASSUME NEW op \in Int
  PROVE  /\ ExecState(op) = "execute_add"   <=> op = 0
         /\ ExecState(op) = "execute_store" <=> op = 1
         /\ ExecState(op) = "execute_load"  <=> op = 2
         /\ ExecState(op) = "execute_jump"  <=> op = 3
         /\ ExecState(op) = "execute_subt"  <=> op = 5
         /\ ExecState(op) = "execute_xor"   <=> op = 6
         /\ ExecState(op) = "execute_or"    <=> op = 7
         /\ ExecState(op) = "execute_and"   <=> op = 8
         /\ ExecState(op) = "execute_addi"  <=> op = 11
         /\ ExecState(op) = "fetch" <=> op \notin {0, 1, 2, 3, 5, 6, 7, 8, 11}
<1>1. ExecState(op) = "execute_add" <=> op = 0
  BY DEF ExecState
<1>2. ExecState(op) = "execute_store" <=> op = 1
  BY DEF ExecState
<1>3. ExecState(op) = "execute_load" <=> op = 2
  BY DEF ExecState
<1>4. ExecState(op) = "execute_jump" <=> op = 3
  BY DEF ExecState
<1>5. ExecState(op) = "execute_subt" <=> op = 5
  BY DEF ExecState
<1>6. ExecState(op) = "execute_xor" <=> op = 6
  BY DEF ExecState
<1>7. ExecState(op) = "execute_or" <=> op = 7
  BY DEF ExecState
<1>8. ExecState(op) = "execute_and" <=> op = 8
  BY DEF ExecState
<1>9. ExecState(op) = "execute_addi" <=> op = 11
  BY DEF ExecState
<1>10. ExecState(op) = "fetch" <=> op \notin {0, 1, 2, 3, 5, 6, 7, 8, 11}
  BY DEF ExecState
<1>11. QED BY <1>1, <1>2, <1>3, <1>4, <1>5, <1>6, <1>7, <1>8, <1>9, <1>10

LEMMA AluStep == ASSUME IInv, Execute_alu PROVE ISA!Next
<1>1. PICK s \in AluStates : Edge(s)
  BY DEF Execute_alu
<1>2. state \in AluStates /\ state' = "fetch" /\ RamEdge
  BY <1>1 DEF Execute_alu, Edge
<1>3. memory' = memory /\ memory_data_register' = memory[program_counter]
  BY <1>2, ReadEdge DEF AluStates, memory_address_register
<1>4. /\ ISA!Following = program_counter /\ isaAc = register_AC /\ isaMem = memory
      /\ ISA!Op = Opcode(instruction_register) /\ ISA!Arg = Operand(instruction_register)
      /\ ISA!Op \in Int
  BY <1>2, Executing DEF States, AluStates
<1>5. ISA!Proceed(isaMem, ISA!Following) /\ isaAc' = register_AC'
  BY <1>2, <1>3, <1>4, Fetching DEF ISA!Proceed, Execute_alu
<1>6. memory_data_register = isaMem[ISA!Arg]
  BY <1>2, <1>4 DEF IInv, PortInv
<1>7. ExecState(ISA!Op) = state
  BY <1>2, <1>4 DEF IInv, ControlInv
<1>8. register_AC' = Alu(state, isaAc, isaMem[ISA!Arg])
  BY <1>4, <1>6 DEF Execute_alu
<1>9. CASE state = "execute_add"
  <2>1. ISA!Op = 0
    BY <1>4, <1>7, <1>9, Decoded
  <2>2. QED BY <1>5, <1>8, <1>9, <2>1 DEF Alu, ISA!Is, ISA!Add, ISA!Next
<1>10. CASE state = "execute_subt"
  <2>1. ISA!Op = 5
    BY <1>4, <1>7, <1>10, Decoded
  <2>2. QED BY <1>5, <1>8, <1>10, <2>1 DEF Alu, ISA!Is, ISA!Subt, ISA!Next
<1>11. CASE state = "execute_xor"
  <2>1. ISA!Op = 6
    BY <1>4, <1>7, <1>11, Decoded
  <2>2. QED BY <1>5, <1>8, <1>11, <2>1 DEF Alu, ISA!Is, ISA!XorOp, ISA!Next
<1>12. CASE state = "execute_or"
  <2>1. ISA!Op = 7
    BY <1>4, <1>7, <1>12, Decoded
  <2>2. QED BY <1>5, <1>8, <1>12, <2>1 DEF Alu, ISA!Is, ISA!OrOp, ISA!Next
<1>13. CASE state = "execute_and"
  <2>1. ISA!Op = 8
    BY <1>4, <1>7, <1>13, Decoded
  <2>2. QED BY <1>5, <1>8, <1>13, <2>1 DEF Alu, ISA!Is, ISA!AndOp, ISA!Next
<1>14. QED BY <1>2, <1>9, <1>10, <1>11, <1>12, <1>13 DEF AluStates

LEMMA LoadStep == ASSUME IInv, Execute_load PROVE ISA!Load
<1>1. state = "execute_load" /\ state' = "fetch" /\ RamEdge
  BY DEF Execute_load, Edge
<1>2. memory' = memory /\ memory_data_register' = memory[program_counter]
  BY <1>1, ReadEdge DEF memory_address_register
<1>3. /\ ISA!Following = program_counter /\ isaMem = memory /\ ISA!Op \in Int
      /\ ISA!Op = Opcode(instruction_register) /\ ISA!Arg = Operand(instruction_register)
  BY <1>1, Executing DEF States
<1>4. ISA!Proceed(isaMem, ISA!Following) /\ isaAc' = isaMem[ISA!Arg]
  BY <1>1, <1>2, <1>3, Fetching DEF ISA!Proceed, Execute_load, IInv, PortInv
<1>5. ISA!Op = 2
  BY <1>1, <1>3, Decoded DEF IInv, ControlInv
<1>6. QED BY <1>1, <1>4, <1>5 DEF ISA!Is, ISA!Load

LEMMA JumpStep == ASSUME IInv, Execute_jump PROVE ISA!Jump
<1>1. state = "execute_jump" /\ state' = "fetch" /\ RamEdge
  BY DEF Execute_jump, Edge
<1>2. memory' = memory /\ memory_data_register' = memory[Operand(instruction_register)]
  BY <1>1, ReadEdge DEF memory_address_register
<1>3. /\ isaMem = memory /\ isaAc = register_AC /\ ISA!Op \in Int
      /\ ISA!Op = Opcode(instruction_register) /\ ISA!Arg = Operand(instruction_register)
  BY <1>1, Executing DEF States
<1>4. ISA!Proceed(isaMem, ISA!Arg) /\ isaAc' = isaAc
  BY <1>1, <1>2, <1>3, Fetching DEF ISA!Proceed, Execute_jump
<1>5. ISA!Op = 3
  BY <1>1, <1>3, Decoded DEF IInv, ControlInv
<1>6. QED BY <1>1, <1>4, <1>5 DEF ISA!Is, ISA!Jump

\* A STORE commits on the edge that writes the memory.
LEMMA StoreStep == ASSUME IInv, Execute_store2 PROVE ISA!Store
<1>1. state = "execute_store2" /\ state' = "execute_store3" /\ RamEdge /\ memory_write = 1
  BY DEF Execute_store2, Edge, IInv, WriteEnableInv
<1>2. memory' = [memory EXCEPT ![Operand(instruction_register)] = register_AC]
  BY <1>1 DEF RamEdge, memory_address_register
<1>3. /\ ISA!Following = program_counter /\ isaMem = memory /\ isaAc = register_AC
      /\ ISA!Op = Opcode(instruction_register) /\ ISA!Arg = Operand(instruction_register)
      /\ ISA!Op \in Int
  BY <1>1, Executing DEF States
<1>4. /\ isaPc' = program_counter' /\ isaAc' = register_AC' /\ isaMem' = memory'
      /\ isaWord' = memory'[program_counter'] /\ (state = "execute_addi")' = FALSE
  BY <1>1 DEF isaPc, isaAc, isaMem, isaWord
<1>5. ISA!Proceed([isaMem EXCEPT ![ISA!Arg] = isaAc], ISA!Following) /\ isaAc' = isaAc
  BY <1>2, <1>3, <1>4 DEF ISA!Proceed, Execute_store2
<1>6. ISA!Op = 1
  BY <1>1, <1>3, Decoded DEF IInv, ControlInv
<1>7. QED BY <1>1, <1>5, <1>6 DEF ISA!Is, ISA!Store

\* Decode commits an unknown opcode, and starts an ADDI.
LEMMA DecodeStep == ASSUME IInv, Decode PROVE ISA!Next \/ UNCHANGED isaVars
<1>1. state = "decode" /\ RamEdge /\ UNCHANGED regs
  BY DEF Decode, Edge
<1>2. memory' = memory /\ memory_data_register' = memory[Operand(instruction_register)]
  BY <1>1, ReadEdge DEF memory_address_register
<1>3. /\ isaPc = (program_counter - 1) % AddrSize
      /\ ISA!Following = program_counter /\ isaMem = memory /\ isaAc = register_AC
      /\ ISA!Op = Opcode(instruction_register) /\ ISA!Arg = Operand(instruction_register)
      /\ ISA!Op \in Int /\ isaWord = instruction_register
  BY <1>1, Executing DEF States
<1>4. state' = ExecState(ISA!Op)
  BY <1>3 DEF Decode
<1>5. CASE state' = "fetch"
  BY <1>1, <1>2, <1>3, <1>4, <1>5, Fetching, Decoded DEF regs, ISA!ExecuteOperand, ISA!Next
<1>6. CASE state' = "execute_addi"
  <2>1. /\ isaPc' = program_counter /\ isaAc' = register_AC /\ isaMem' = memory
        /\ isaWord' = memory_data_register' /\ (state = "execute_addi")' = TRUE
    BY <1>1, <1>2, <1>6 DEF isaPc, isaAc, isaMem, isaWord, regs
  <2>2. ISA!Op = 11
    BY <1>3, <1>4, <1>6, Decoded
  <2>3. QED BY <1>1, <1>2, <1>3, <2>1, <2>2 DEF ISA!Is, ISA!Addi, ISA!Next
<1>7. CASE state' \notin {"fetch", "execute_addi"}
  <2>1. state' \in States \ {"fetch", "execute_addi", "reset_pc", "execute_store3"}
    BY <1>4, <1>7, ExecStateTyped
  <2>2. /\ isaPc' = (program_counter' - 1) % AddrSize /\ isaAc' = register_AC'
        /\ isaMem' = memory' /\ isaWord' = instruction_register'
    BY <2>1 DEF isaPc, isaAc, isaMem, isaWord
  <2>3. QED BY <1>1, <1>2, <1>3, <2>1, <2>2 DEF isaVars, regs
<1>8. QED BY <1>5, <1>6, <1>7

LEMMA AddiStep == ASSUME IInv, Execute_addi PROVE ISA!AddWord \/ ISA!SubtractOne
<1>1. state = "execute_addi" /\ RamEdge /\ program_counter' = program_counter
  BY DEF Execute_addi, Edge
<1>2. memory' = memory /\ memory_data_register' = memory[program_counter]
  BY <1>1, ReadEdge DEF memory_address_register
<1>3. isaPc = program_counter /\ isaAc = register_AC /\ isaMem = memory
      /\ isaWord = memory_data_register
  BY <1>1 DEF isaPc, isaAc, isaMem, isaWord
<1>4. CASE memory_data_register = FF
  <2>1. state' = "execute_addi" /\ register_AC' = (register_AC - 1) % WordSize
    BY <1>1, <1>4 DEF Execute_addi
  <2>2. isaPc' = program_counter' /\ isaAc' = register_AC' /\ isaMem' = memory'
        /\ isaWord' = memory_data_register' /\ (state = "execute_addi")' = TRUE
    BY <2>1 DEF isaPc, isaAc, isaMem, isaWord
  <2>3. QED BY <1>1, <1>2, <1>3, <1>4, <2>1, <2>2 DEF FF, ISA!SubtractOne
<1>5. CASE memory_data_register # FF
  <2>1. state' = "fetch" /\ register_AC' = (register_AC + memory_data_register) % WordSize
    BY <1>5 DEF Execute_addi
  <2>2. QED BY <1>1, <1>2, <1>3, <1>5, <2>1, Fetching DEF FF, ISA!AddWord, ISA!Proceed
<1>6. QED BY <1>4, <1>5

\* A reset commits when it strikes; nothing it does afterwards is visible.
LEMMA ResetStep == ASSUME IInv, AssertReset PROVE ISA!Reset \/ UNCHANGED isaVars
<1>1. /\ isaPc' = 0 /\ isaAc' = 0 /\ isaWord' = isaMem'[0] /\ (state = "execute_addi")' = FALSE
      /\ isaMem' = IF memory_write = 1 THEN [memory EXCEPT ![0] = register_AC] ELSE memory
  BY DEF AssertReset, regs, isaPc, isaAc, isaMem, isaWord
<1>2. CASE state = "reset_pc"
  <2>1. /\ isaPc = 0 /\ isaAc = 0 /\ isaWord = isaMem[0]
        /\ isaMem = IF memory_write = 1 THEN [memory EXCEPT ![0] = register_AC] ELSE memory
    BY <1>2 DEF isaPc, isaAc, isaMem, isaWord
  <2>2. QED BY <1>1, <1>2, <2>1 DEF isaVars
<1>3. CASE memory_write = 0 /\ state # "reset_pc"
  <2>1. isaMem' = memory
    BY <1>1, <1>3
  <2>2. isaMem = memory
    BY <1>3 DEF isaMem
  <2>3. ISA!Proceed(isaMem, 0)
    BY <1>1, <2>1, <2>2 DEF ISA!Proceed
  <2>4. QED BY <1>1, <2>3 DEF ISA!Reset
<1>4. CASE state = "execute_store2"
  <2>1. /\ isaMem = memory /\ isaAc = register_AC /\ ISA!Op \in Int
        /\ ISA!Op = Opcode(instruction_register)
    BY <1>4, Executing DEF States
  <2>2. ISA!Op = 1
    BY <1>4, <2>1, Decoded DEF IInv, ControlInv
  <2>3. memory_write = 1
    BY <1>4 DEF IInv, WriteEnableInv
  <2>4. ISA!Proceed([isaMem EXCEPT ![0] = isaAc], 0)
    BY <1>1, <2>1, <2>3 DEF ISA!Proceed
  <2>5. QED BY <1>1, <1>4, <2>2, <2>4 DEF ISA!Reset, ISA!Is
<1>5. QED BY <1>2, <1>3, <1>4 DEF IInv, TypeOK, WriteEnableInv

\* Edges the programmer does not see.
LEMMA SilentStep ==
  ASSUME IInv, Reset_pc \/ HeldEdge \/ Fetch \/ Execute_store \/ Execute_store3 \/ ReleaseReset
  PROVE  UNCHANGED isaVars
<1>1. ASSUME state = "reset_pc", RamEdge
      PROVE  memory' = isaMem /\ memory_data_register' = isaMem[0]
  BY <1>1 DEF RamEdge, memory_address_register, isaMem
<1>2. ASSUME state = "reset_pc"
      PROVE  isaPc = 0 /\ isaAc = 0 /\ isaWord = isaMem[0]
  BY <1>2 DEF isaPc, isaAc, isaWord
<1>3. CASE Reset_pc
  BY <1>1, <1>2, <1>3, Fetching DEF Reset_pc, Edge, isaVars
<1>4. CASE HeldEdge
  <2>1. state = "reset_pc" /\ state' = "reset_pc" /\ RamEdge /\ UNCHANGED regs
    BY <1>4 DEF HeldEdge, IInv, WriteEnableInv
  <2>2. isaMem' = isaMem
    BY <1>1, <2>1, ZeroTyped DEF isaMem, regs, IInv, TypeOK
  <2>3. isaPc' = 0 /\ isaAc' = 0 /\ isaWord' = isaMem'[0] /\ (state = "execute_addi")' = FALSE
    BY <2>1 DEF isaPc, isaAc, isaWord
  <2>4. QED BY <1>2, <2>1, <2>2, <2>3 DEF isaVars
<1>5. CASE Fetch
  <2>1. state = "fetch" /\ state' = "decode" /\ memory' = memory
        /\ program_counter' = (program_counter + 1) % AddrSize
        /\ instruction_register' = memory_data_register /\ register_AC' = register_AC
    BY <1>5, ReadEdge DEF Fetch, Edge
  <2>2. (program_counter' - 1) % AddrSize = program_counter
    BY <2>1, WrapAround DEF IInv, TypeOK
  <2>3. QED BY <2>1, <2>2 DEF isaVars, isaPc, isaAc, isaMem, isaWord
<1>6. CASE Execute_store
  <2>1. state = "execute_store" /\ state' = "execute_store2" /\ memory' = memory
        /\ UNCHANGED <<instruction_register, register_AC, program_counter>>
    BY <1>6, ReadEdge DEF Execute_store, Edge
  <2>2. QED BY <2>1 DEF isaVars, isaPc, isaAc, isaMem, isaWord
<1>7. CASE Execute_store3
  <2>1. state = "execute_store3" /\ state' = "fetch" /\ memory' = memory
        /\ UNCHANGED regs /\ memory_data_register' = memory[program_counter]
    BY <1>7, ReadEdge DEF Execute_store3, Edge, memory_address_register
  <2>2. QED BY <2>1, Fetching DEF isaVars, isaPc, isaAc, isaMem, isaWord, regs
<1>8. CASE ReleaseReset
  BY <1>8 DEF ReleaseReset, isaVars, isaPc, isaAc, isaMem, isaWord, regs
<1>9. QED BY <1>3, <1>4, <1>5, <1>6, <1>7, <1>8

\* Every step of the processor is an instruction, a reset or nothing at all.
LEMMA MapsInitially == Init => ISA!Init
  BY DEF Init, ISA!Init, isaPc, isaAc, isaMem, isaWord

LEMMA MapsStep == IInv /\ [Next]_vars => ISA!Next \/ UNCHANGED isaVars
<1> SUFFICES ASSUME IInv, [Next]_vars PROVE ISA!Next \/ UNCHANGED isaVars
  OBVIOUS
<1>1. CASE UNCHANGED vars
  BY <1>1 DEF vars, isaVars, isaPc, isaAc, isaMem, isaWord
<1>2. CASE Execute_alu \/ Execute_load \/ Execute_jump \/ Execute_store2 \/ Execute_addi
  BY <1>2, AluStep, LoadStep, JumpStep, StoreStep, AddiStep DEF ISA!Next
<1>3. CASE Decode
  BY <1>3, DecodeStep
<1>4. CASE AssertReset
  BY <1>4, ResetStep DEF ISA!Next
<1>5. CASE Reset_pc \/ HeldEdge \/ Fetch \/ Execute_store \/ Execute_store3 \/ ReleaseReset
  BY <1>5, SilentStep
<1>6. QED BY <1>1, <1>2, <1>3, <1>4, <1>5 DEF Next, ClockEdge

(* SCOMP implements its instruction set, for every program, every memory   *)
(* and word size, and resets at any moment.                                *)
THEOREM Refinement == Spec => ImplementsISA
<1>1. IInv /\ [Next]_vars => [ISA!Next]_ISA!vars
  BY MapsStep DEF isaVars, ISA!vars
<1>2. QED BY MapsInitially, <1>1, Inductive, PTL DEF Spec, ISA!Spec, ImplementsISA

-----------------------------------------------------------------------------
(***************************************************************************)
(* The test program of the repository.  What its data words hold in the    *)
(* end follows from an invariant of the programmer's view (isaPc, isaAc,   *)
(* isaMem, isaWord), which by the refinement takes one step per            *)
(* instruction: what the accumulator holds in front of each instruction,   *)
(* what is stored so far, and - the reset line being free to cut a STORE   *)
(* short at any time - what can get into word 0 and what the program does  *)
(* with such a first instruction.                                          *)
(***************************************************************************)

\* What a STORE of the program that is cut short puts over the first word.
Torn == {0, \h1111, \h2222, \h5555, \h6666, \h7777, \hFFFF}

Adding == state = "execute_addi"
Intact == isaMem[0] = \h0260

\* The words the program computes, and the words it never writes.
Results == {98, 100, 101, 102, 103, 104}

MemoryInv ==
  /\ isaMem[0] \in {\h0260} \cup Torn
  /\ \A a \in Addr \ ({0} \cup Results) : isaMem[a] = Program[a]
  /\ isaMem[102] \in {0, \h7777}

\* In front of each instruction behind the fourth, the accumulator is known.
AccumulatorInv ==
  /\ isaPc \in 0 .. 24
  /\ isaPc = 0 => isaAc = 0
  /\ isaPc \in {5, 9, 13, 17} \cup 21 .. 24 => isaAc = \h5555
  /\ isaPc \in 6 .. 8   => isaAc = \h2222
  /\ isaPc \in 10 .. 12 => isaAc = \h6666
  /\ isaPc \in 14 .. 16 => isaAc = \h7777
  /\ isaPc \in 18 .. 20 => isaAc = \h1111

StoredInv ==
  /\ isaPc \in 3 .. 24 /\ Intact => isaMem[98] = \hFFFF
  /\ isaPc \in 7 .. 24  => isaMem[100] = \h2222
  /\ isaPc \in 11 .. 24 => isaMem[101] = \h6666
  /\ isaPc \in 15 .. 24 => isaMem[102] = \h7777
  /\ isaPc \in 19 .. 24 => isaMem[103] = \h1111
  /\ isaPc \in 23 .. 24 => isaMem[104] = \h5555

\* The first instructions: as written, or whatever a damaged first word makes of
\* them - if it is no instruction, the word it addresses is executed in place of
\* the second one, and so on.
BeginningInv ==
  /\ Intact /\ isaPc = 1 => isaAc = \hAAAA
  /\ Intact /\ isaPc = 2 => isaAc = \hFFFF
  /\ ~Intact /\ isaPc = 1 => isaAc = 0 /\ isaWord \in {\h0061, \h0863, 0, \h7777}
  /\ ~Intact /\ isaPc = 2 => isaAc \in Torn /\ isaWord \in {\h0162, 0}

FetchedInv ==
  /\ Adding => isaPc = 22 /\ isaWord = 0
  /\ ~Adding /\ (Intact \/ isaPc \notin {1, 2}) => isaWord = isaMem[isaPc]

ProgramInv ==
  /\ MemoryInv /\ AccumulatorInv /\ StoredInv /\ BeginningInv /\ FetchedInv

LEMMA Sizes ==
  ASSUME TestMachine
  PROVE  /\ 0 \in Addr /\ 96 \in Addr /\ 97 \in Addr /\ 98 \in Addr /\ 99 \in Addr
         /\ 100 \in Addr /\ 101 \in Addr /\ 102 \in Addr /\ 103 \in Addr /\ 104 \in Addr
         /\ 34 \in Addr /\ 85 \in Addr /\ 119 \in Addr /\ 255 \in Addr
         /\ \A a \in 0 .. 24 : a \in Addr
BY DEF TestMachine, Addr

LEMMA TheCode ==
  /\ Code[1] = 608 /\ Code[2] = 97 /\ Code[3] = 354 /\ Code[4] = 610 /\ Code[5] = 609
  /\ Code[6] = 1379 /\ Code[7] = 356 /\ Code[8] = 612 /\ Code[9] = 609 /\ Code[10] = 1635
  /\ Code[11] = 357 /\ Code[12] = 613 /\ Code[13] = 609 /\ Code[14] = 1891 /\ Code[15] = 358
  /\ Code[16] = 614 /\ Code[17] = 609 /\ Code[18] = 2147 /\ Code[19] = 359 /\ Code[20] = 615
  /\ Code[21] = 609 /\ Code[22] = 3071 /\ Code[23] = 360 /\ Code[24] = 616 /\ Code[25] = 792
BY DEF Code

LEMMA TheProgram ==
  /\ Program[0] = 608 /\ Program[1] = 97 /\ Program[2] = 354 /\ Program[3] = 610
  /\ Program[4] = 609 /\ Program[5] = 1379 /\ Program[6] = 356 /\ Program[7] = 612
  /\ Program[8] = 609 /\ Program[9] = 1635 /\ Program[10] = 357 /\ Program[11] = 613
  /\ Program[12] = 609 /\ Program[13] = 1891 /\ Program[14] = 358 /\ Program[15] = 614
  /\ Program[16] = 609 /\ Program[17] = 2147 /\ Program[18] = 359 /\ Program[19] = 615
  /\ Program[20] = 609 /\ Program[21] = 3071 /\ Program[22] = 360 /\ Program[23] = 616
  /\ Program[24] = 792
BY TheCode DEF Program

LEMMA TheData ==
  /\ Program[96] = \hAAAA /\ Program[97] = \h5555 /\ Program[99] = \h3333
  /\ Program[34] = 0 /\ Program[85] = 0 /\ Program[119] = 0 /\ Program[255] = 0
  /\ Program[102] = 0
BY DEF Program

\* The words of the program and its data, behind the first one.
LEMMA Kept ==
  ASSUME TestMachine, MemoryInv
  PROVE  /\ isaMem[1] = 97 /\ isaMem[2] = 354 /\ isaMem[3] = 610 /\ isaMem[4] = 609
         /\ isaMem[5] = 1379 /\ isaMem[6] = 356 /\ isaMem[7] = 612 /\ isaMem[8] = 609
         /\ isaMem[9] = 1635 /\ isaMem[10] = 357 /\ isaMem[11] = 613 /\ isaMem[12] = 609
         /\ isaMem[13] = 1891 /\ isaMem[14] = 358 /\ isaMem[15] = 614 /\ isaMem[16] = 609
         /\ isaMem[17] = 2147 /\ isaMem[18] = 359 /\ isaMem[19] = 615 /\ isaMem[20] = 609
         /\ isaMem[21] = 3071 /\ isaMem[22] = 360 /\ isaMem[23] = 616 /\ isaMem[24] = 792
         /\ isaMem[96] = \hAAAA /\ isaMem[97] = \h5555 /\ isaMem[99] = \h3333
         /\ isaMem[34] = 0 /\ isaMem[85] = 0 /\ isaMem[119] = 0 /\ isaMem[255] = 0
<1>1. \A a \in 1 .. 24 : isaMem[a] = Program[a]
  <2>1. \A a \in 1 .. 24 : a \in Addr \ ({0} \cup Results)
    BY Sizes DEF Results
  <2> QED BY <2>1 DEF MemoryInv
<1>2. /\ isaMem[96] = Program[96] /\ isaMem[97] = Program[97] /\ isaMem[99] = Program[99]
      /\ isaMem[34] = Program[34] /\ isaMem[85] = Program[85] /\ isaMem[119] = Program[119]
      /\ isaMem[255] = Program[255]
  BY Sizes DEF MemoryInv, Results
<1>3. QED BY <1>1, <1>2, TheProgram, TheData

LEMMA IsaTyped == TypeOK => isaMem \in [Addr -> Word] /\ isaAc \in Word
BY ZeroTyped DEF TypeOK, isaMem, isaAc

\* The opcode and the operand of a word, of the words there are.
LEMMA Opcodes ==
  ASSUME TestMachine
  PROVE  /\ ISA!Op = isaWord \div 256 /\ ISA!Arg = isaWord % 256
         /\ \A a \in 0 .. 254 : isaPc = a => ISA!Following = a + 1
BY DEF TestMachine, ISA!Op, ISA!Arg, ISA!Following

\* A STORE that can be cut short has one of the known values to write.
LEMMA TearsOff ==
  ASSUME TestMachine, ProgramInv, ISA!Is(1)
  PROVE  isaAc \in Torn
<1>1. ~Adding /\ isaWord \div 256 = 1
  BY Opcodes DEF ISA!Is, Adding
<1>2. CASE isaPc = 0
  BY <1>2 DEF ProgramInv, AccumulatorInv, Torn
<1>3. CASE isaPc = 1
  <2>1. isaWord \in {97, 2147, 0, \h7777}
    BY <1>1, <1>3, Kept DEF ProgramInv, FetchedInv, BeginningInv
  <2>2. QED BY <1>1, <2>1
<1>4. CASE isaPc = 2
  BY <1>4 DEF ProgramInv, BeginningInv, Torn
<1>5. CASE isaPc \in 3 .. 24
  <2>1. isaWord = isaMem[isaPc]
    BY <1>1, <1>5 DEF ProgramInv, FetchedInv
  <2>2. isaPc \notin {3, 4}
    BY <1>1, <2>1, Kept DEF ProgramInv
  <2>3. QED BY <1>5, <2>2 DEF ProgramInv, AccumulatorInv, Torn
<1>6. QED BY <1>2, <1>3, <1>4, <1>5 DEF ProgramInv, AccumulatorInv

\* A reset: the program starts again, with a first word that may be damaged.
LEMMA ProgramReset ==
  ASSUME TestMachine, TypeOK, ProgramInv, ISA!Reset, ~Adding'
  PROVE  ProgramInv'
<1>1. isaMem \in [Addr -> Word] /\ 0 \in Addr
  BY IsaTyped, Sizes
<1>2. isaPc' = 0 /\ isaAc' = 0 /\ isaWord' = isaMem'[0]
  BY DEF ISA!Reset, ISA!Proceed
<1>3. ~Adding' /\ AccumulatorInv' /\ StoredInv' /\ BeginningInv' /\ FetchedInv'
  BY <1>2 DEF AccumulatorInv, StoredInv, BeginningInv, FetchedInv
<1>4. MemoryInv'
  <2>1. CASE isaMem' = isaMem
    BY <2>1 DEF ProgramInv, MemoryInv
  <2>2. CASE ISA!Is(1) /\ isaMem' = [isaMem EXCEPT ![0] = isaAc]
    <3>1. isaAc \in Torn
      BY <2>2, TearsOff
    <3>2. isaMem'[0] = isaAc /\ \A a \in Addr : a # 0 => isaMem'[a] = isaMem[a]
      BY <1>1, <2>2
    <3>3. isaMem'[102] = isaMem[102]
      BY <3>2, Sizes
    <3>4. QED BY <3>1, <3>2, <3>3 DEF ProgramInv, MemoryInv
  <2>3. QED BY <2>1, <2>2 DEF ISA!Reset, ISA!Proceed
<1>5. QED BY <1>3, <1>4 DEF ProgramInv

\* Which instruction it is, says the opcode.
LEMMA Chosen ==
  ASSUME ISA!Next, ~ISA!Reset, ~Adding
  PROVE  /\ (ISA!Op = 0 => ISA!Add) /\ (ISA!Op = 5 => ISA!Subt)
         /\ (ISA!Op = 6 => ISA!XorOp) /\ (ISA!Op = 7 => ISA!OrOp)
         /\ (ISA!Op = 8 => ISA!AndOp) /\ (ISA!Op = 2 => ISA!Load)
         /\ (ISA!Op = 3 => ISA!Jump) /\ (ISA!Op = 1 => ISA!Store)
         /\ ISA!Op = 11 => ISA!Addi
         /\ ISA!Op \notin {0, 1, 2, 3, 5, 6, 7, 8, 11} => ISA!ExecuteOperand
BY DEF ISA!Next, ISA!Is, Adding, ISA!Add, ISA!Subt, ISA!XorOp, ISA!OrOp, ISA!AndOp, ISA!Load,
       ISA!Jump, ISA!Store, ISA!Addi, ISA!AddWord, ISA!SubtractOne, ISA!ExecuteOperand

\* Behind the beginning, where there is one way on: an instruction that writes
\* nothing and leaves the accumulator its next place expects.
GoesOn(p) ==
  /\ isaMem' = isaMem /\ isaPc' = p /\ isaWord' = isaMem'[p] /\ ~Adding'

LEMMA GoesOnStep ==
  ASSUME ProgramInv, isaPc \in 3 .. 24, NEW p \in 3 .. 24, GoesOn(p), p = isaPc + 1 \/ p = 24,
         p = 24 => isaPc \in 23 .. 24,
         p \notin {7, 11, 15, 19, 23}, AccumulatorInv'
  PROVE  ProgramInv'
<1>1. MemoryInv'
  BY DEF GoesOn, ProgramInv, MemoryInv
<1>2. StoredInv'
  BY DEF GoesOn, ProgramInv, StoredInv, Intact
<1>3. BeginningInv' /\ FetchedInv'
  BY DEF GoesOn, BeginningInv, FetchedInv
<1>4. QED BY <1>1, <1>2, <1>3 DEF ProgramInv

\* LOAD of the second operand, 5555.
LEMMA OperandStep ==
  ASSUME TestMachine, ProgramInv, ISA!Next, ~ISA!Reset, isaPc \in {4, 8, 12, 16, 20}
  PROVE  ProgramInv'
<1>1. ~Adding /\ isaWord = isaMem[isaPc]
  BY DEF ProgramInv, FetchedInv
<1>2. isaWord = 609
  BY <1>1, Kept DEF ProgramInv
<1>3. ISA!Op = 2 /\ ISA!Arg = 97 /\ ISA!Following = isaPc + 1
  BY <1>2, Opcodes
<1>4. ISA!Load
  BY <1>1, <1>3, Chosen
<1>5. GoesOn(isaPc + 1) /\ isaAc' = \h5555
  BY <1>3, <1>4, Kept DEF ISA!Load, ISA!Proceed, GoesOn, Adding, ProgramInv
<1>6. AccumulatorInv'
  BY <1>5 DEF GoesOn, AccumulatorInv
<1>7. QED BY <1>5, <1>6, GoesOnStep

\* LOAD of the result just stored.
LEMMA ReloadStep ==
  ASSUME TestMachine, ProgramInv, ISA!Next, ~ISA!Reset, isaPc \in {3, 7, 11, 15, 19, 23}
  PROVE  ProgramInv'
<1>1. ~Adding /\ isaWord = isaMem[isaPc]
  BY DEF ProgramInv, FetchedInv
<1>2. /\ (isaPc = 3 => isaWord = 610) /\ (isaPc = 7 => isaWord = 612)
      /\ (isaPc = 11 => isaWord = 613) /\ (isaPc = 15 => isaWord = 614)
      /\ (isaPc = 19 => isaWord = 615) /\ (isaPc = 23 => isaWord = 616)
  BY <1>1, Kept DEF ProgramInv
<1>3. ISA!Op = 2 /\ ISA!Following = isaPc + 1
  BY <1>2, Opcodes
<1>4. /\ (isaPc = 7 => ISA!Arg = 100) /\ (isaPc = 11 => ISA!Arg = 101)
      /\ (isaPc = 15 => ISA!Arg = 102) /\ (isaPc = 19 => ISA!Arg = 103)
      /\ isaPc = 23 => ISA!Arg = 104
  BY <1>2, Opcodes
<1>5. ISA!Load
  BY <1>1, <1>3, Chosen
<1>6. GoesOn(isaPc + 1) /\ isaAc' = isaMem[ISA!Arg]
  BY <1>3, <1>5 DEF ISA!Load, ISA!Proceed, GoesOn, Adding
<1>7. AccumulatorInv'
  BY <1>4, <1>6 DEF GoesOn, AccumulatorInv, ProgramInv, StoredInv
<1>8. QED BY <1>6, <1>7, GoesOnStep

\* SUBT, XOR, OR and AND of 5555 and 3333.
LEMMA ComputeStep ==
  ASSUME TestMachine, ProgramInv, ISA!Next, ~ISA!Reset, isaPc \in {5, 9, 13, 17}
  PROVE  ProgramInv'
<1>1. ~Adding /\ isaWord = isaMem[isaPc] /\ isaAc = \h5555
  BY DEF ProgramInv, FetchedInv, AccumulatorInv
<1>2. /\ (isaPc = 5 => isaWord = 1379) /\ (isaPc = 9 => isaWord = 1635)
      /\ (isaPc = 13 => isaWord = 1891) /\ (isaPc = 17 => isaWord = 2147)
  BY <1>1, Kept DEF ProgramInv
<1>3. /\ (isaPc = 5 => ISA!Op = 5) /\ (isaPc = 9 => ISA!Op = 6)
      /\ (isaPc = 13 => ISA!Op = 7) /\ (isaPc = 17 => ISA!Op = 8)
  BY <1>2, Opcodes
<1>4. ISA!Arg = 99 /\ ISA!Following = isaPc + 1
  BY <1>2, Opcodes
<1>5. isaMem[ISA!Arg] = \h3333
  BY <1>4, Kept DEF ProgramInv
<1>6. CASE isaPc = 5
  <2>1. ISA!Subt
    BY <1>1, <1>3, <1>6, Chosen
  <2>2. GoesOn(isaPc + 1) /\ isaAc' = (\h5555 - \h3333) % WordSize
    BY <1>1, <1>4, <1>5, <2>1 DEF ISA!Subt, ISA!Proceed, GoesOn, Adding
  <2>3. isaAc' = \h2222
    BY <2>2 DEF TestMachine
  <2>4. AccumulatorInv'
    BY <1>6, <2>2, <2>3 DEF GoesOn, AccumulatorInv
  <2>5. QED BY <1>6, <2>2, <2>4, GoesOnStep
<1>7. CASE isaPc = 9
  <2>1. ISA!XorOp
    BY <1>1, <1>3, <1>7, Chosen
  <2>2. GoesOn(isaPc + 1) /\ isaAc' = \h6666
    BY <1>1, <1>4, <1>5, <2>1 DEF ISA!XorOp, ISA!Proceed, GoesOn, Adding, TestMachine
  <2>3. AccumulatorInv'
    BY <1>7, <2>2 DEF GoesOn, AccumulatorInv
  <2>4. QED BY <1>7, <2>2, <2>3, GoesOnStep
<1>8. CASE isaPc = 13
  <2>1. ISA!OrOp
    BY <1>1, <1>3, <1>8, Chosen
  <2>2. GoesOn(isaPc + 1) /\ isaAc' = \h7777
    BY <1>1, <1>4, <1>5, <2>1 DEF ISA!OrOp, ISA!Proceed, GoesOn, Adding, TestMachine
  <2>3. AccumulatorInv'
    BY <1>8, <2>2 DEF GoesOn, AccumulatorInv
  <2>4. QED BY <1>8, <2>2, <2>3, GoesOnStep
<1>9. CASE isaPc = 17
  <2>1. ISA!AndOp
    BY <1>1, <1>3, <1>9, Chosen
  <2>2. GoesOn(isaPc + 1) /\ isaAc' = \h1111
    BY <1>1, <1>4, <1>5, <2>1 DEF ISA!AndOp, ISA!Proceed, GoesOn, Adding, TestMachine
  <2>3. AccumulatorInv'
    BY <1>9, <2>2 DEF GoesOn, AccumulatorInv
  <2>4. QED BY <1>9, <2>2, <2>3, GoesOnStep
<1>10. QED BY <1>6, <1>7, <1>8, <1>9

\* STORE of a result, behind the beginning.
LEMMA StoreResultStep ==
  ASSUME TestMachine, TypeOK, ProgramInv, ISA!Next, ~ISA!Reset, isaPc \in {6, 10, 14, 18, 22}, ~Adding
  PROVE  ProgramInv'
<1>1. isaMem \in [Addr -> Word] /\ isaWord = isaMem[isaPc]
  BY IsaTyped DEF ProgramInv, FetchedInv
<1>2. /\ (isaPc = 6 => isaWord = 356) /\ (isaPc = 10 => isaWord = 357)
      /\ (isaPc = 14 => isaWord = 358) /\ (isaPc = 18 => isaWord = 359)
      /\ (isaPc = 22 => isaWord = 360)
  BY <1>1, Kept DEF ProgramInv
<1>3. ISA!Op = 1 /\ ISA!Following = isaPc + 1
  BY <1>2, Opcodes
<1>4. /\ (isaPc = 6 => ISA!Arg = 100) /\ (isaPc = 10 => ISA!Arg = 101)
      /\ (isaPc = 14 => ISA!Arg = 102) /\ (isaPc = 18 => ISA!Arg = 103)
      /\ (isaPc = 22 => ISA!Arg = 104)
  BY <1>2, Opcodes
<1>5. ISA!Store
  BY <1>3, Chosen
<1>6. /\ isaMem' = [isaMem EXCEPT ![ISA!Arg] = isaAc] /\ isaAc' = isaAc
      /\ isaPc' = isaPc + 1 /\ isaWord' = isaMem'[isaPc + 1] /\ ~Adding'
  BY <1>3, <1>5 DEF ISA!Store, ISA!Proceed, Adding
<1>7. ISA!Arg \in Results /\ ISA!Arg \in Addr
  BY <1>4, Sizes DEF Results
<1>8. isaMem'[ISA!Arg] = isaAc /\ \A a \in Addr : a # ISA!Arg => isaMem'[a] = isaMem[a]
  BY <1>1, <1>6, <1>7
<1>9. /\ isaMem'[0] = isaMem[0] /\ isaMem'[98] = isaMem[98]
      /\ (isaPc # 6 => isaMem'[100] = isaMem[100])
      /\ (isaPc # 10 => isaMem'[101] = isaMem[101])
      /\ (isaPc # 14 => isaMem'[102] = isaMem[102])
      /\ (isaPc # 18 => isaMem'[103] = isaMem[103])
  BY <1>4, <1>8, Sizes
<1>10. AccumulatorInv'
  BY <1>6 DEF ProgramInv, AccumulatorInv
<1>11. isaPc = 14 => isaMem'[102] = \h7777
  BY <1>4, <1>8 DEF ProgramInv, AccumulatorInv
<1>12. MemoryInv'
  BY <1>7, <1>8, <1>9, <1>11 DEF ProgramInv, MemoryInv, Results
<1>13. /\ (isaPc = 6 => isaMem'[100] = \h2222) /\ (isaPc = 10 => isaMem'[101] = \h6666)
       /\ (isaPc = 18 => isaMem'[103] = \h1111) /\ (isaPc = 22 => isaMem'[104] = \h5555)
  BY <1>4, <1>8 DEF ProgramInv, AccumulatorInv
<1>14. StoredInv'
  BY <1>6, <1>9, <1>11, <1>13 DEF ProgramInv, StoredInv, Intact
<1>15. BeginningInv' /\ FetchedInv'
  BY <1>6 DEF BeginningInv, FetchedInv
<1>16. QED BY <1>10, <1>12, <1>14, <1>15 DEF ProgramInv

\* ADDI of the word at FF, which is 0, and its addition.
LEMMA AddZeroStep ==
  ASSUME TestMachine, TypeOK, ProgramInv, ISA!Next, ~ISA!Reset, isaPc = 21 \/ Adding
  PROVE  ProgramInv'
<1>1. CASE ~Adding
  <2>1. isaPc = 21 /\ isaWord = isaMem[21]
    BY <1>1 DEF ProgramInv, FetchedInv
  <2>2. isaWord = 3071
    BY <2>1, Kept DEF ProgramInv
  <2>3. ISA!Op = 11 /\ ISA!Arg = 255 /\ ISA!Following = 22
    BY <2>1, <2>2, Opcodes
  <2>4. ISA!Addi
    BY <1>1, <2>3, Chosen
  <2>5. Adding' /\ isaWord' = 0 /\ isaPc' = 22 /\ isaAc' = isaAc /\ isaMem' = isaMem
    BY <2>3, <2>4, Kept DEF ISA!Addi, Adding, ProgramInv
  <2>6. MemoryInv' /\ FetchedInv' /\ BeginningInv'
    BY <2>5 DEF ProgramInv, MemoryInv, FetchedInv, BeginningInv
  <2>7. AccumulatorInv' /\ StoredInv'
    BY <2>1, <2>5 DEF ProgramInv, AccumulatorInv, StoredInv, Intact
  <2>8. QED BY <2>6, <2>7 DEF ProgramInv
<1>2. CASE Adding
  <2>1. isaPc = 22 /\ isaWord = 0 /\ isaAc = \h5555
    BY <1>2 DEF ProgramInv, FetchedInv, AccumulatorInv
  <2>2. ISA!AddWord
    <3>1. ISA!AddWord \/ ISA!SubtractOne
      BY <1>2 DEF ISA!Next, ISA!Is, Adding, ISA!Add, ISA!Subt, ISA!XorOp, ISA!OrOp, ISA!AndOp,
                  ISA!Load, ISA!Jump, ISA!Store, ISA!Addi, ISA!ExecuteOperand
    <3>2. ~ISA!SubtractOne
      BY <2>1 DEF ISA!SubtractOne, TestMachine
    <3>3. QED BY <3>1, <3>2
  <2>3. ~Adding' /\ isaPc' = 22 /\ isaMem' = isaMem /\ isaWord' = isaMem'[22]
    BY <2>1, <2>2 DEF ISA!AddWord, ISA!Proceed, Adding
  <2>4. isaAc' = \h5555
    BY <2>1, <2>2 DEF ISA!AddWord, TestMachine
  <2>5. MemoryInv' /\ FetchedInv' /\ BeginningInv'
    BY <2>3 DEF ProgramInv, MemoryInv, FetchedInv, BeginningInv
  <2>6. AccumulatorInv' /\ StoredInv'
    BY <2>1, <2>3, <2>4 DEF ProgramInv, AccumulatorInv, StoredInv, Intact
  <2>7. QED BY <2>5, <2>6 DEF ProgramInv
<1>3. QED BY <1>1, <1>2

\* The final loop.
LEMMA LoopStep ==
  ASSUME TestMachine, ProgramInv, ISA!Next, ~ISA!Reset, isaPc = 24
  PROVE  ProgramInv'
<1>1. ~Adding /\ isaWord = isaMem[24]
  BY DEF ProgramInv, FetchedInv
<1>2. isaWord = 792
  BY <1>1, Kept DEF ProgramInv
<1>3. ISA!Op = 3 /\ ISA!Arg = 24
  BY <1>2, Opcodes
<1>4. ISA!Jump
  BY <1>1, <1>3, Chosen
<1>5. GoesOn(24) /\ isaAc' = isaAc
  BY <1>3, <1>4 DEF ISA!Jump, ISA!Proceed, GoesOn, Adding
<1>6. AccumulatorInv'
  BY <1>5 DEF GoesOn, AccumulatorInv, ProgramInv
<1>7. QED BY <1>5, <1>6, GoesOnStep

\* The first instruction.
LEMMA FirstStep ==
  ASSUME TestMachine, TypeOK, ProgramInv, ISA!Next, ~ISA!Reset, isaPc = 0
  PROVE  ProgramInv'
<1>1. ~Adding /\ isaWord = isaMem[0] /\ isaAc = 0 /\ ISA!Following = 1
  BY Opcodes DEF ProgramInv, FetchedInv, AccumulatorInv
<1>2. SUFFICES /\ isaMem' = isaMem /\ isaPc' = 1 /\ ~Adding'
               /\ (Intact => isaAc' = \hAAAA /\ isaWord' = isaMem'[1])
               /\ (~Intact => isaAc' = 0 /\ isaWord' \in {97, 2147, 0, \h7777})
  <2>1. MemoryInv' /\ AccumulatorInv' /\ StoredInv'
    BY <1>2 DEF ProgramInv, MemoryInv, AccumulatorInv, StoredInv
  <2>2. BeginningInv' /\ FetchedInv'
    BY <1>2 DEF BeginningInv, FetchedInv, Intact
  <2>3. QED BY <2>1, <2>2 DEF ProgramInv
<1>3. CASE Intact
  <2>1. ISA!Op = 2 /\ ISA!Arg = 96
    BY <1>1, <1>3, Opcodes DEF Intact
  <2>2. ISA!Load
    BY <1>1, <2>1, Chosen
  <2>3. QED BY <1>1, <1>3, <2>1, <2>2, Kept DEF ISA!Load, ISA!Proceed, Adding, ProgramInv
<1>4. CASE isaMem[0] = 0
  <2>1. ISA!Op = 0 /\ ISA!Arg = 0
    BY <1>1, <1>4, Opcodes
  <2>2. ISA!Add
    BY <1>1, <2>1, Chosen
  <2>3. isaAc' = (0 + 0) % WordSize /\ ISA!Proceed(isaMem, 1)
    BY <1>1, <1>4, <2>1, <2>2 DEF ISA!Add
  <2>4. isaAc' = 0
    BY <2>3 DEF TestMachine
  <2>5. QED BY <1>4, <2>3, <2>4, Kept DEF ISA!Proceed, Adding, ProgramInv, Intact
<1>5. CASE isaMem[0] \in Torn \ {0}
  <2>1. ISA!Op \notin {0, 1, 2, 3, 5, 6, 7, 8, 11}
    BY <1>1, <1>5, Opcodes DEF Torn
  <2>2. isaMem[ISA!Arg] \in {2147, 0, \h7777}
    <3>1. ISA!Arg \in {17, 34, 85, 102, 119, 255}
      BY <1>1, <1>5, Opcodes DEF Torn
    <3>2. QED BY <3>1, Kept DEF ProgramInv, MemoryInv
  <2>3. ISA!ExecuteOperand
    BY <1>1, <2>1, Chosen
  <2>4. QED BY <1>1, <1>5, <2>2, <2>3 DEF ISA!ExecuteOperand, Adding, Intact, Torn
<1>6. QED BY <1>3, <1>4, <1>5 DEF ProgramInv, MemoryInv, Intact

\* The second instruction, or the word that takes its place.
LEMMA SecondStep ==
  ASSUME TestMachine, TypeOK, ProgramInv, ISA!Next, ~ISA!Reset, isaPc = 1
  PROVE  ProgramInv'
<1>1. ~Adding /\ ISA!Following = 2
  BY Opcodes DEF ProgramInv, FetchedInv
<1>2. SUFFICES /\ isaMem' = isaMem /\ isaPc' = 2 /\ ~Adding'
               /\ (Intact => isaAc' = \hFFFF /\ isaWord' = isaMem'[2])
               /\ (~Intact => isaAc' \in Torn /\ isaWord' \in {354, 0})
  <2>1. MemoryInv' /\ AccumulatorInv' /\ StoredInv'
    BY <1>2 DEF ProgramInv, MemoryInv, AccumulatorInv, StoredInv
  <2>2. BeginningInv' /\ FetchedInv'
    BY <1>2 DEF BeginningInv, FetchedInv, Intact
  <2>3. QED BY <2>1, <2>2 DEF ProgramInv
<1>3. Intact => isaWord = 97 /\ isaAc = \hAAAA
  BY <1>1, Kept DEF ProgramInv, FetchedInv, BeginningInv
<1>4. ~Intact => isaAc = 0 /\ isaWord \in {97, 2147, 0, \h7777}
  BY DEF ProgramInv, BeginningInv
<1>5. isaMem[2] = 354 /\ isaMem[97] = \h5555 /\ isaMem[99] = \h3333 /\ isaMem[119] = 0
  BY Kept DEF ProgramInv
<1>6. CASE isaWord = 97
  <2>1. ISA!Op = 0 /\ ISA!Arg = 97
    BY <1>6, Opcodes
  <2>2. ISA!Add
    BY <1>1, <2>1, Chosen
  <2>3. isaAc' = (isaAc + \h5555) % WordSize /\ ISA!Proceed(isaMem, 2)
    BY <1>1, <1>5, <2>1, <2>2 DEF ISA!Add
  <2>4. (Intact => isaAc' = \hFFFF) /\ (~Intact => isaAc' = \h5555)
    BY <1>3, <1>4, <2>3 DEF TestMachine
  <2>5. QED BY <1>5, <2>3, <2>4 DEF ISA!Proceed, Adding, Torn
<1>7. CASE ~Intact /\ isaWord = 2147
  <2>1. ISA!Op = 8 /\ ISA!Arg = 99
    BY <1>7, Opcodes
  <2>2. ISA!AndOp
    BY <1>1, <2>1, Chosen
  <2>3. isaAc' = 0 /\ ISA!Proceed(isaMem, 2)
    BY <1>1, <1>4, <1>5, <1>7, <2>1, <2>2 DEF ISA!AndOp, TestMachine
  <2>4. QED BY <1>5, <1>7, <2>3 DEF ISA!Proceed, Adding, Torn
<1>8. CASE ~Intact /\ isaWord = 0
  <2>1. ISA!Op = 0 /\ ISA!Arg = 0
    BY <1>8, Opcodes
  <2>2. ISA!Add
    BY <1>1, <2>1, Chosen
  <2>3. isaAc' = (0 + isaMem[0]) % WordSize /\ ISA!Proceed(isaMem, 2)
    BY <1>1, <1>4, <1>8, <2>1, <2>2 DEF ISA!Add
  <2>4. isaMem[0] \in Torn
    BY <1>8 DEF ProgramInv, MemoryInv, Intact
  <2>5. isaAc' = isaMem[0]
    BY <2>3, <2>4 DEF TestMachine, Torn
  <2>6. QED BY <1>5, <1>8, <2>3, <2>4, <2>5 DEF ISA!Proceed, Adding
<1>9. CASE ~Intact /\ isaWord = \h7777
  <2>1. ISA!Op = 119 /\ ISA!Arg = 119
    BY <1>9, Opcodes
  <2>2. ISA!ExecuteOperand
    BY <1>1, <2>1, Chosen
  <2>3. QED BY <1>1, <1>4, <1>5, <1>9, <2>1, <2>2 DEF ISA!ExecuteOperand, Adding, Torn
<1>10. QED BY <1>3, <1>4, <1>6, <1>7, <1>8, <1>9

\* The first STORE, if it is not skipped.
LEMMA ThirdStep ==
  ASSUME TestMachine, TypeOK, ProgramInv, ISA!Next, ~ISA!Reset, isaPc = 2
  PROVE  ProgramInv'
<1>1. ~Adding /\ ISA!Following = 3 /\ isaMem \in [Addr -> Word]
  BY Opcodes, IsaTyped DEF ProgramInv, FetchedInv
<1>2. isaMem[2] = 354 /\ isaMem[3] = 610
  BY Kept DEF ProgramInv
<1>3. CASE isaWord = 354
  <2>1. ISA!Op = 1 /\ ISA!Arg = 98
    BY <1>3, Opcodes
  <2>2. ISA!Store
    BY <1>1, <2>1, Chosen
  <2>3. /\ isaMem' = [isaMem EXCEPT ![98] = isaAc] /\ isaPc' = 3 /\ isaAc' = isaAc
        /\ isaWord' = isaMem'[3] /\ ~Adding'
    BY <1>1, <2>1, <2>2 DEF ISA!Store, ISA!Proceed, Adding
  <2>4. isaMem'[98] = isaAc /\ \A a \in Addr : a # 98 => isaMem'[a] = isaMem[a]
    BY <1>1, <2>3, Sizes
  <2>5. isaMem'[0] = isaMem[0] /\ isaMem'[102] = isaMem[102]
    BY <2>4, Sizes
  <2>6. MemoryInv'
    BY <2>4, <2>5 DEF ProgramInv, MemoryInv, Results
  <2>7. Intact => isaAc = \hFFFF
    BY DEF ProgramInv, BeginningInv
  <2>8. AccumulatorInv' /\ StoredInv' /\ BeginningInv' /\ FetchedInv'
    BY <2>3, <2>4, <2>5, <2>7 DEF AccumulatorInv, StoredInv, BeginningInv, FetchedInv, Intact
  <2>9. QED BY <2>6, <2>8 DEF ProgramInv
<1>4. CASE ~Intact /\ isaWord = 0
  <2>1. ISA!Op = 0
    BY <1>4, Opcodes
  <2>2. ISA!Add
    BY <1>1, <2>1, Chosen
  <2>3. isaMem' = isaMem /\ isaPc' = 3 /\ isaWord' = isaMem'[3] /\ ~Adding'
    BY <1>1, <2>2 DEF ISA!Add, ISA!Proceed, Adding
  <2>4. MemoryInv'
    BY <2>3 DEF ProgramInv, MemoryInv
  <2>5. AccumulatorInv' /\ StoredInv' /\ BeginningInv' /\ FetchedInv'
    BY <1>4, <2>3 DEF AccumulatorInv, StoredInv, BeginningInv, FetchedInv, Intact
  <2>6. QED BY <2>4, <2>5 DEF ProgramInv
<1>5. Intact => isaWord = 354
  BY <1>1, <1>2 DEF ProgramInv, FetchedInv
<1>6. ~Intact => isaWord \in {354, 0}
  BY DEF ProgramInv, BeginningInv
<1>7. QED BY <1>3, <1>4, <1>5, <1>6

LEMMA ProgramStep ==
  ASSUME TestMachine, IInv, ProgramInv, [Next]_vars
  PROVE  ProgramInv'
<1>1. TypeOK
  BY DEF IInv
<1>2. CASE UNCHANGED isaVars
  BY <1>2 DEF isaVars, ProgramInv, MemoryInv, AccumulatorInv, StoredInv, BeginningInv, FetchedInv,
              Intact, Adding
<1>3. CASE ISA!Next /\ ISA!Reset
  <2>1. ~Adding'
    BY <1>3 DEF ISA!Reset, ISA!Proceed, Adding
  <2>2. QED BY <1>1, <1>3, <2>1, ProgramReset
<1>4. CASE ISA!Next /\ ~ISA!Reset
  <2>1. CASE Adding
    BY <1>1, <1>4, <2>1, AddZeroStep
  <2>2. CASE ~Adding /\ isaPc \in {0, 1, 2}
    BY <1>1, <1>4, <2>2, FirstStep, SecondStep, ThirdStep
  <2>3. CASE ~Adding /\ isaPc \in {4, 8, 12, 16, 20}
    BY <1>4, <2>3, OperandStep
  <2>4. CASE ~Adding /\ isaPc \in {3, 7, 11, 15, 19, 23}
    BY <1>4, <2>4, ReloadStep
  <2>5. CASE ~Adding /\ isaPc \in {5, 9, 13, 17}
    BY <1>4, <2>5, ComputeStep
  <2>6. CASE ~Adding /\ isaPc \in {6, 10, 14, 18, 22}
    BY <1>1, <1>4, <2>6, StoreResultStep
  <2>7. CASE ~Adding /\ isaPc = 21
    BY <1>1, <1>4, <2>7, AddZeroStep
  <2>8. CASE ~Adding /\ isaPc = 24
    BY <1>4, <2>8, LoopStep
  <2>9. isaPc \in 0 .. 24
    BY DEF ProgramInv, AccumulatorInv
  <2>10. QED BY <2>1, <2>2, <2>3, <2>4, <2>5, <2>6, <2>7, <2>8, <2>9
<1>5. QED BY <1>2, <1>3, <1>4, MapsStep

LEMMA ProgramInitially == ASSUME TestMachine, Init PROVE ProgramInv
<1>1. isaMem = Program /\ isaPc = 0 /\ isaAc = 0 /\ isaWord = isaMem[0] /\ ~Adding
  BY DEF Init, TestMachine, isaMem, isaPc, isaAc, isaWord, Adding
<1>2. isaMem[0] = 608 /\ isaMem[102] = 0
  BY <1>1, TheProgram, TheData
<1>3. MemoryInv
  BY <1>1, <1>2 DEF MemoryInv
<1>4. AccumulatorInv /\ StoredInv /\ BeginningInv /\ FetchedInv
  BY <1>1 DEF AccumulatorInv, StoredInv, BeginningInv, FetchedInv
<1>5. QED BY <1>3, <1>4 DEF ProgramInv

\* The final jump is executed only where the program has it.
LEMMA InTheLoop ==
  ASSUME TestMachine, TypeOK, ProgramInv, Finished
  PROVE  isaMem = memory /\ Intact /\ isaPc = 24
<1>1. state = "decode" /\ instruction_register = 792 /\ isaMem = memory /\ ~Adding
  BY DEF Finished, isaMem, Adding
<1>2. isaWord = 792
  BY <1>1 DEF isaWord
<1>3. Intact
  <2>1. memory[0] = Program[0]
    BY DEF Finished
  <2>2. QED BY <1>1, <2>1, TheProgram DEF Intact
<1>4. isaWord = isaMem[isaPc] /\ isaPc \in 0 .. 24
  <2>1. isaPc \notin {1, 2} \/ Intact
    BY <1>3
  <2>2. QED BY <1>1, <2>1 DEF ProgramInv, FetchedInv, AccumulatorInv
<1>5. isaPc = 24
  BY <1>2, <1>3, <1>4, Kept DEF ProgramInv, Intact
<1>6. QED BY <1>1, <1>3, <1>5

LEMMA ProgramMeans ==
  ASSUME TestMachine
  PROVE  IInv /\ ProgramInv => ProgramResults
<1> SUFFICES ASSUME IInv, ProgramInv, Finished PROVE ProgramResults
  BY DEF ProgramResults
<1>1. TypeOK
  BY DEF IInv
<1>2. isaMem = memory /\ Intact /\ isaPc = 24
  BY <1>1, InTheLoop
<1>3. StoredInv
  BY DEF ProgramInv
<1>4. QED BY <1>2, <1>3 DEF StoredInv, ProgramResults

LEMMA ProgramInvariance == ASSUME TestMachine PROVE Spec => []ProgramInv
<1>1. Init => ProgramInv
  BY ProgramInitially
<1>2. IInv /\ ProgramInv /\ [Next]_vars => ProgramInv'
  BY ProgramStep
<1>3. QED BY <1>1, <1>2, Inductive, PTL DEF Spec

(* The test program computes what program.mif says of ADD, SUBT, XOR, OR   *)
(* and AND, however often and whenever reset strikes: a STORE that reset   *)
(* cuts short hits word 0 and nothing else, and as long as that word is    *)
(* the program's own, all results are there when it ends.                  *)
THEOREM ProgramCorrect == ASSUME TestMachine PROVE Spec => []ProgramResults
  BY ProgramMeans, ProgramInvariance, Inductive, PTL

(* The word at 68, which program.mif announces as 5554, is always 5555.    *)
THEOREM AddiEnds ==
  ASSUME TestMachine PROVE Spec => [](Finished => memory[\h68] = \h5555)
<1>1. IInv /\ ProgramInv => (Finished => memory[\h68] = \h5555)
  <2> SUFFICES ASSUME IInv, ProgramInv, Finished PROVE memory[\h68] = \h5555
    OBVIOUS
  <2>1. TypeOK
    BY DEF IInv
  <2>2. isaMem = memory /\ isaPc = 24
    BY <2>1, InTheLoop
  <2>3. QED BY <2>2 DEF ProgramInv, StoredInv
<1>2. QED BY <1>1, ProgramInvariance, Inductive, PTL

\* The STOREs the program executes write its results.
LEMMA StoresResults ==
  ASSUME TestMachine, ProgramInv, ISA!Is(1)
  PROVE  ISA!Arg \in Results
<1>1. ~Adding /\ isaWord \div 256 = 1
  BY Opcodes DEF ISA!Is, Adding
<1>2. isaWord \in {354, 356, 357, 358, 359, 360}
  <2>1. CASE isaPc = 0
    <3>1. isaWord \in {608} \cup Torn
      BY <1>1, <2>1 DEF ProgramInv, FetchedInv, MemoryInv
    <3>2. QED BY <1>1, <3>1 DEF Torn
  <2>2. CASE isaPc \in {1, 2}
    <3>1. isaWord \in {97, 2147, 0, \h7777, 354}
      BY <1>1, <2>2, Kept DEF ProgramInv, FetchedInv, BeginningInv
    <3>2. QED BY <1>1, <3>1
  <2>3. CASE isaPc \in 3 .. 24
    <3>1. isaWord = isaMem[isaPc]
      BY <1>1, <2>3 DEF ProgramInv, FetchedInv
    <3>2. QED BY <1>1, <2>3, <3>1, Kept DEF ProgramInv
  <2>4. QED BY <2>1, <2>2, <2>3 DEF ProgramInv, AccumulatorInv
<1>3. QED BY <1>2, Opcodes DEF Results

(* A first word that a torn STORE has damaged is never repaired: whatever  *)
(* the damaged program goes on to do, the loader has to put it back.       *)
DamageStays == [][~Intact => ~Intact']_vars

THEOREM DamageIsPermanent == ASSUME TestMachine PROVE Spec => DamageStays
<1>1. ASSUME IInv, ProgramInv, [Next]_vars, ~Intact PROVE ~Intact'
  <2>1. isaMem \in [Addr -> Word] /\ 0 \in Addr
    BY <1>1, IsaTyped, Sizes DEF IInv
  <2>2. CASE UNCHANGED isaVars
    BY <1>1, <2>2 DEF isaVars, Intact
  <2>3. CASE ISA!Reset
    <3>1. CASE isaMem' = isaMem
      BY <1>1, <3>1 DEF Intact
    <3>2. CASE ISA!Is(1) /\ isaMem' = [isaMem EXCEPT ![0] = isaAc]
      <4>1. isaMem'[0] \in Torn
        BY <1>1, <2>1, <3>2, TearsOff
      <4>2. QED BY <4>1 DEF Intact, Torn
    <3>3. QED BY <2>3, <3>1, <3>2 DEF ISA!Reset, ISA!Proceed
  <2>4. CASE ISA!Store
    <3>1. ISA!Arg \in Results /\ isaMem' = [isaMem EXCEPT ![ISA!Arg] = isaAc]
      BY <1>1, <2>4, StoresResults DEF ISA!Store, ISA!Proceed
    <3>2. isaMem'[0] = isaMem[0]
      BY <2>1, <3>1 DEF Results
    <3>3. QED BY <1>1, <3>2 DEF Intact
  <2>5. CASE ISA!Next /\ ~ISA!Reset /\ ~ISA!Store
    <3>1. isaMem' = isaMem
      BY <2>5 DEF ISA!Next, ISA!Add, ISA!Subt, ISA!XorOp, ISA!OrOp, ISA!AndOp, ISA!Load, ISA!Jump,
                  ISA!Addi, ISA!AddWord, ISA!SubtractOne, ISA!ExecuteOperand, ISA!Proceed
    <3>2. QED BY <1>1, <3>1 DEF Intact
  <2>6. QED BY <1>1, <2>2, <2>3, <2>4, <2>5, MapsStep
<1>2. IInv /\ ProgramInv /\ [Next]_vars => [~Intact => ~Intact']_vars
  BY <1>1
<1>3. QED BY <1>2, ProgramInvariance, Inductive, PTL DEF Spec, DamageStays

-----------------------------------------------------------------------------
(***************************************************************************)
(* No control state is a dead end (InstructionsComplete).  Counted in      *)
(* clock edges, the next fetch is never more than four away, but for an    *)
(* ADDI that has found two words FF.  What the provers cannot see is that  *)
(* an edge is always possible; it is the theorem's hypothesis ClockRuns.   *)
(***************************************************************************)
Fetches == state = "fetch"
InOneEdge ==
  \/ state \in AluStates \cup {"reset_pc", "execute_load", "execute_jump", "execute_store3"}
  \/ state = "execute_addi" /\ memory_data_register # FF
InTwoEdges ==
  \/ state = "execute_store2"
  \/ state = "execute_addi" /\ memory_data_register = FF /\ memory[program_counter] # FF
InThreeEdges == state = "execute_store"
Decodes == state = "decode"
Stuck ==
  state = "execute_addi" /\ memory_data_register = FF /\ memory[program_counter] = FF

LEMMA SomewhereOnTheWay ==
  IInv => Fetches \/ InOneEdge \/ InTwoEdges \/ InThreeEdges \/ Decodes \/ Stuck
  BY DEF IInv, TypeOK, States, Fetches, InOneEdge, InTwoEdges, InThreeEdges, Decodes, Stuck

\* An ADDI that repeats consumes the word at the program counter next.
LEMMA RepeatedAddi ==
  ASSUME IInv, Execute_addi, memory_data_register = FF
  PROVE  /\ state' = "execute_addi"
         /\ memory' = memory /\ program_counter' = program_counter
         /\ memory_data_register' = memory[program_counter]
<1>1. state = "execute_addi" /\ RamEdge
  BY DEF Execute_addi, Edge
<1>2. memory_address_register = program_counter
  BY <1>1 DEF memory_address_register
<1> QED
  BY <1>1, <1>2, ReadEdge DEF Execute_addi

LEMMA EdgeNearer ==
  ASSUME IInv, ClockEdge, reset = 0
  PROVE  /\ InOneEdge => Fetches'
         /\ InTwoEdges => InOneEdge'
         /\ InThreeEdges => InTwoEdges'
         /\ Decodes => Fetches' \/ InOneEdge' \/ InTwoEdges' \/ InThreeEdges' \/ Stuck'
         /\ Stuck => Stuck'
<1> USE DEF Fetches, InOneEdge, InTwoEdges, InThreeEdges, Decodes, Stuck, AluStates
<1>1. CASE Reset_pc \/ Fetch \/ Execute_load \/ Execute_jump \/ Execute_store3
  BY <1>1 DEF Reset_pc, Fetch, Execute_load, Execute_jump, Execute_store3, Edge
<1>2. CASE Execute_alu
  BY <1>2 DEF Execute_alu, Edge
<1>3. CASE Execute_store \/ Execute_store2
  BY <1>3 DEF Execute_store, Execute_store2, Edge
<1>4. CASE Decode
  <2>1. state = "decode" /\ state' \in States \ {"reset_pc", "decode", "execute_store2", "execute_store3"}
    BY <1>4, ExecStateTyped DEF Decode, Edge
  <2> QED
    BY <2>1 DEF States
<1>5. CASE Execute_addi
  <2>1. state = "execute_addi"
    BY <1>5 DEF Execute_addi, Edge
  <2>2. CASE memory_data_register = FF
    BY <1>5, <2>1, <2>2, RepeatedAddi
  <2>3. CASE memory_data_register # FF
    BY <1>5, <2>1, <2>3 DEF Execute_addi
  <2> QED
    BY <2>2, <2>3
<1> QED
  BY <1>1, <1>2, <1>3, <1>4, <1>5 DEF ClockEdge, HeldEdge

\* While nobody presses reset, only the clock moves the processor.
LEMMA OnlyEdges ==
  ASSUME IInv, [Next]_vars, reset = 0, reset' = 0
  PROVE  ClockEdge \/ UNCHANGED vars
  BY DEF Next, AssertReset, ReleaseReset

LEMMA StaysOnTheWay ==
  ASSUME UNCHANGED vars
  PROVE  /\ InOneEdge => InOneEdge'
         /\ InTwoEdges => InTwoEdges'
         /\ InThreeEdges => InThreeEdges'
         /\ Decodes => Decodes'
         /\ Stuck => Stuck'
  BY DEF vars, InOneEdge, InTwoEdges, InThreeEdges, Decodes, Stuck

\* A clock edge can always happen: it has something to change.
ClockRuns == [](reset = 0 => ENABLED <<ClockEdge>>_vars)

\* The processor keeps fetching, whatever the program, unless an ADDI spins
\* on two words FF for ever or reset is pressed again and again: the clock of
\* scomp.vhd carries every control state back to fetch.
THEOREM KeepsFetching == Spec /\ ClockRuns => InstructionsComplete
<1> DEFINE Free == reset = 0
           Pressed == reset = 1
<1>1. IInv => Free \/ Pressed
  BY DEF IInv, TypeOK
<1>2. ASSUME IInv, [Next]_vars, Free, Free'
      PROVE  /\ InOneEdge => InOneEdge' \/ Fetches'
             /\ InTwoEdges => InTwoEdges' \/ InOneEdge'
             /\ InThreeEdges => InThreeEdges' \/ InTwoEdges'
             /\ Stuck => Stuck'
  BY <1>2, OnlyEdges, StaysOnTheWay, EdgeNearer
<1>3. ASSUME IInv, <<ClockEdge>>_vars, Free
      PROVE  /\ InOneEdge => Fetches'
             /\ InTwoEdges => InOneEdge'
             /\ InThreeEdges => InTwoEdges'
             /\ Decodes => Fetches' \/ InOneEdge' \/ InTwoEdges' \/ InThreeEdges' \/ Stuck'
  BY <1>3, EdgeNearer
<1>4. ASSUME IInv, [Next]_vars, Free, Free', Decodes
      PROVE  Decodes' \/ Fetches' \/ InOneEdge' \/ InTwoEdges' \/ InThreeEdges' \/ Stuck'
  BY <1>4, OnlyEdges, StaysOnTheWay, EdgeNearer
<1>5. Stuck => Spinning
  BY DEF Stuck, Spinning
<1>6. Free <=> reset = 0
  OBVIOUS
<1>7. Fetches <=> state = "fetch"
  BY DEF Fetches
<1>8. Pressed <=> reset = 1
  OBVIOUS
<1> HIDE DEF Free, Pressed
<1> QED
  BY <1>1, <1>2, <1>3, <1>4, <1>5, <1>6, <1>7, <1>8, SomewhereOnTheWay, Inductive, PTL
  DEF Spec, Fairness, ClockRuns, InstructionsComplete
=============================================================================
