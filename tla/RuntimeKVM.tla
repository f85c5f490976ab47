----------------------------- MODULE RuntimeKVM -----------------------------
(***************************************************************************)
(* The bytecode interpreter: RuntimeKVMLoad and RuntimeKVMRun of           *)
(* compiler/Backend/VirtualMachines/RuntimeKVM/RuntimeKVM.c and the reader *)
(* of compiler/Backend/Bytecode/Reader.c.                                  *)
(*                                                                         *)
(* The bytes of the program are the environment's choice, made when a byte *)
(* is read: InstructionPointer never goes back, so that no byte is read    *)
(* twice.  One action is one iteration of the loop of RuntimeKVMRun.       *)
(***************************************************************************)
EXTENDS Integers

CONSTANTS
    RegisterCount,   \* KVM->RegisterCount
    Operands,        \* the register numbers the bytecode names, bytes
    IntBound,        \* 2^31 for int32_t
    Modulus,         \* 2^32 for the uint32_t InstructionPointer
    MaxSize,         \* bound: bytes of a program
    Stray,           \* what memcpy finds behind the end of the bytecode
    NoRegisters      \* KVM->Registers when its calloc failed, which nothing tests

ASSUME RegisterAssumption == RegisterCount \in Nat /\ Operands \subseteq Nat /\ 0 \in Operands
ASSUME IntAssumption == IntBound \in Nat \ {0}
\* The pointer is read up to four bytes behind the end of the program.
ASSUME SizeAssumption == MaxSize \in Nat /\ Modulus \in Nat /\ MaxSize + 4 < Modulus
ASSUME StrayAssumption ==
    Stray \notin Int /\ NoRegisters \notin [0..(RegisterCount - 1) -> Int \cup {Stray}]

VARIABLES
    Registers,
    HasBytecode,     \* KVM->Bytecode # NULL
    BytecodeSize,
    InstructionPointer,
    Running,
    pc,              \* where the call on the stack stands; loop in RuntimeKVMRun
    Result           \* what RuntimeKVMRun returned

runtimeVars ==
    <<Registers, HasBytecode, BytecodeSize, InstructionPointer, Running, pc, Result>>

Int32 == (-IntBound)..(IntBound - 1)
RegisterIndex == 0..(RegisterCount - 1)

RuntimeTypeOK ==
    /\ Registers \in [RegisterIndex -> Int32] \cup {NoRegisters}
    /\ HasBytecode \in BOOLEAN
    /\ BytecodeSize \in 0..MaxSize
    /\ InstructionPointer \in 0..(Modulus - 1)
    /\ Running \in BOOLEAN
    /\ pc \in {"idle", "begun", "loaded", "loop", "returned", "faulted", "destroyed"}
    /\ Result \in {0, 1}

\* Mutant: ip moves on at the end of the program too.
ReadU8Onward(ip) ==
    (IF ip < BytecodeSize THEN Operands ELSE {0}) \X {(ip + 1) % Modulus}

\* The outcomes of KVMReaderReadU8 at ip for the bytes of a register operand: the
\* byte and the next ip.  At the end of the program it is 0 and ip stays.
ReadU8(ip) ==
    IF ip < BytecodeSize THEN Operands \X {(ip + 1) % Modulus} ELSE {<<0, ip>>}

\* What memcpy copies: the constant, or bytes of unrelated memory as soon as one of
\* the four lies behind the end.
Copied(ip) == IF ip + 4 <= BytecodeSize THEN Int32 ELSE {Stray}

\* Mutant: the end is compared with where the constant starts.
ReadI32Early(ip) ==
    (IF ip >= BytecodeSize THEN {0} ELSE Copied(ip)) \X {(ip + 4) % Modulus}

\* KVMReaderReadI32 copies first, advances, and only then compares the pointer with
\* the size: a constant that ends with the program reads as 0.
ReadI32(ip) ==
    (IF (ip + 4) % Modulus >= BytecodeSize THEN {0} ELSE Copied(ip)) \X {(ip + 4) % Modulus}

\* int32_t addition: two's complement, as the build wraps it.
Wrap(n) == ((n + IntBound) % (2 * IntBound)) - IntBound

-----------------------------------------------------------------------------
\* RuntimeKVMLoad, the size bytes of bytecode, or NULL unless present.
RuntimeKVMLoad(present, size) ==
    /\ HasBytecode' = present
    /\ BytecodeSize' = size
    /\ UNCHANGED <<Registers, InstructionPointer, Running, Result>>

Return(result) ==
    /\ pc' = "returned"
    /\ Result' = result

\* RuntimeKVMRun up to its loop.
RuntimeKVMStart ==
    /\ IF HasBytecode
       THEN /\ pc' = "loop"
            /\ Running' = TRUE
            /\ InstructionPointer' = 0
            /\ UNCHANGED Result
       ELSE Return(0) /\ UNCHANGED <<Running, InstructionPointer>>
    /\ UNCHANGED <<Registers, HasBytecode, BytecodeSize>>

\* while (KVM->Running && InstructionPointer < BytecodeSize): the opcode is read.
Iteration ==
    /\ pc = "loop"
    /\ Running
    /\ InstructionPointer < BytecodeSize
    /\ UNCHANGED <<HasBytecode, BytecodeSize>>

\* Mutant: the type of the pointer holds an index of the bytecode, not its size.
Operand1Narrow == (InstructionPointer + 1) % MaxSize

Operand1 == (InstructionPointer + 1) % Modulus

\* Mutant: the registers are read before their numbers are tested.
AccessUntested(named, registers) ==
    IF Registers = NoRegisters
    THEN pc' = "faulted" /\ UNCHANGED Registers
    ELSE IF named \subseteq RegisterIndex
    THEN Registers' = registers /\ UNCHANGED pc
    ELSE UNCHANGED <<Registers, pc>>

\* The case of an instruction on registers: out of range it does nothing; without
\* registers it dereferences NULL.
Access(named, registers) ==
    IF ~(named \subseteq RegisterIndex)
    THEN UNCHANGED <<Registers, pc>>
    ELSE IF Registers = NoRegisters
    THEN pc' = "faulted" /\ UNCHANGED Registers
    ELSE Registers' = registers /\ UNCHANGED pc

Nop ==
    /\ Iteration
    /\ InstructionPointer' = Operand1
    /\ UNCHANGED <<Registers, Running, pc, Result>>

LoadConst ==
    /\ Iteration
    /\ \E register \in ReadU8(Operand1) : \E value \in ReadI32(register[2]) :
          /\ InstructionPointer' = value[2]
          /\ Access({register[1]}, [Registers EXCEPT ![register[1]] = value[1]])
    /\ UNCHANGED <<Running, Result>>

Add ==
    /\ Iteration
    /\ \E destination \in ReadU8(Operand1) :
       \E source1 \in ReadU8(destination[2]) :
       \E source2 \in ReadU8(source1[2]) :
          /\ InstructionPointer' = source2[2]
          /\ Access({destination[1], source1[1], source2[1]},
                    [Registers EXCEPT ![destination[1]] =
                        Wrap(Registers[source1[1]] + Registers[source2[1]])])
    /\ UNCHANGED <<Running, Result>>

PrintRegister ==
    /\ Iteration
    /\ \E register \in ReadU8(Operand1) :
          /\ InstructionPointer' = register[2]
          /\ Access({register[1]}, Registers)
    /\ UNCHANGED <<Running, Result>>

Halt ==
    /\ Iteration
    /\ InstructionPointer' = Operand1
    /\ Running' = FALSE
    /\ UNCHANGED <<Registers, pc, Result>>

UnknownOpcode ==
    /\ Iteration
    /\ InstructionPointer' = Operand1
    /\ Return(0)
    /\ UNCHANGED <<Registers, Running>>

LeaveLoop ==
    /\ pc = "loop"
    /\ ~Running \/ InstructionPointer >= BytecodeSize
    /\ Return(1)
    /\ UNCHANGED <<Registers, HasBytecode, BytecodeSize, InstructionPointer, Running>>

RuntimeStep == Nop \/ LoadConst \/ Add \/ PrintRegister \/ Halt \/ UnknownOpcode \/ LeaveLoop
=============================================================================
