----------------------------- MODULE KVM_proofs -----------------------------
(***************************************************************************)
(* The theorems about the machine, for every number of registers, every    *)
(* size of the bytecode that leaves room for a constant below 2^32, and    *)
(* every order of calls; and about main, whose machine has no registers.   *)
(***************************************************************************)
EXTENDS Koboi, TLAPS

-----------------------------------------------------------------------------
(* Arithmetic: the pointer does not wrap, and Wrap returns an int32_t.      *)

\* Below the modulus, % changes nothing.
LEMMA SmallModulus ==
    ASSUME NEW m \in Nat \ {0}, NEW n \in 0..(m - 1)
    PROVE  n % m = n
  OBVIOUS

\* A remainder is smaller than the modulus.
LEMMA ModulusBound ==
    ASSUME NEW m \in Nat \ {0}, NEW n \in Int
    PROVE  n % m \in 0..(m - 1)
  OBVIOUS

\* The sum of two registers is stored as an int32_t.
LEMMA WrapInt32 ==
    ASSUME NEW n \in Int
    PROVE  Wrap(n) \in Int32
<1>1. 2 * IntBound \in Nat \ {0} /\ n + IntBound \in Int
  BY IntAssumption
<1>2. (n + IntBound) % (2 * IntBound) \in 0..(2 * IntBound - 1)
  BY <1>1, ModulusBound
<1> QED
  BY <1>2, IntAssumption DEF Wrap, Int32
-----------------------------------------------------------------------------
(* The reader.                                                              *)

\* A pointer one constant behind the program has not wrapped.
LEMMA BoundedPointer ==
    ASSUME NEW size \in 0..MaxSize, NEW ip \in Int, 0 <= ip, ip <= size + 4
    PROVE  ip \in 0..(Modulus - 1)
  BY SizeAssumption

\* A byte of a register operand is a number, and the pointer stays in the program.
LEMMA ReadU8Inside ==
    ASSUME BytecodeSize \in 0..MaxSize, NEW ip \in 0..BytecodeSize,
           NEW byte \in ReadU8(ip)
    PROVE  byte[1] \in Nat /\ byte[2] \in 0..BytecodeSize
<1>1. CASE ip < BytecodeSize
  <2>1. ip + 1 \in 0..(Modulus - 1) /\ Modulus \in Nat \ {0}
    BY <1>1, SizeAssumption
  <2>2. (ip + 1) % Modulus = ip + 1
    BY <2>1, SmallModulus
  <2>3. byte \in Operands \X {ip + 1}
    BY <1>1, <2>2 DEF ReadU8
  <2>4. byte[1] \in Operands /\ byte[2] = ip + 1
    BY <2>3
  <2>5. byte[1] \in Nat
    BY <2>4, RegisterAssumption
  <2> QED
    BY <1>1, <2>4, <2>5
<1>2. CASE ~(ip < BytecodeSize)
  BY <1>2 DEF ReadU8
<1> QED
  BY <1>1, <1>2

\* A constant is an int32_t, never what lies behind the program, and the pointer is
\* at most four bytes behind the end.
LEMMA ReadI32Inside ==
    ASSUME BytecodeSize \in 0..MaxSize, NEW ip \in 0..BytecodeSize,
           NEW constant \in ReadI32(ip)
    PROVE  constant[1] \in Int32 /\ constant[2] \in 0..(BytecodeSize + 4)
<1>1. ip + 4 \in 0..(Modulus - 1) /\ Modulus \in Nat \ {0}
  BY SizeAssumption
<1>2. (ip + 4) % Modulus = ip + 4
  BY <1>1, SmallModulus
<1>3. 0 \in Int32
  BY IntAssumption DEF Int32
<1>4. constant \in (IF ip + 4 >= BytecodeSize THEN {0} ELSE Copied(ip)) \X {ip + 4}
  BY <1>2 DEF ReadI32
<1>5. ip + 4 < BytecodeSize => Copied(ip) = Int32
  BY DEF Copied
<1> QED
  BY <1>3, <1>4, <1>5

\* The pointer behind an opcode that was read in the program.
LEMMA OpcodeInside ==
    ASSUME BytecodeSize \in 0..MaxSize, InstructionPointer \in 0..(Modulus - 1),
           InstructionPointer < BytecodeSize
    PROVE  Operand1 \in 0..BytecodeSize
<1>1. InstructionPointer + 1 \in 0..(Modulus - 1) /\ Modulus \in Nat \ {0}
  BY SizeAssumption
<1>2. Operand1 = InstructionPointer + 1
  BY <1>1, SmallModulus DEF Operand1
<1> QED
  BY <1>2, SizeAssumption

-----------------------------------------------------------------------------
(* The interpreter keeps its types and its pointer in bounds.               *)

PointerInside(ip) == ip \in 0..(BytecodeSize + 4)

\* What an iteration may do to the variables of the interpreter.
Stepped ==
    /\ Registers' \in [RegisterIndex -> Int32] \cup {NoRegisters}
    /\ Registers' = NoRegisters => Registers = NoRegisters
    /\ PointerInside(InstructionPointer')
    /\ Running' \in BOOLEAN
    /\ pc' \in {"loop", "returned", "faulted"}
    /\ pc' = "faulted" => Registers = NoRegisters
    /\ Result' \in {0, 1}
    /\ UNCHANGED <<HasBytecode, BytecodeSize>>

\* The registers after an instruction.
LEMMA AccessKeeps ==
    ASSUME NEW named, NEW registers,
           Registers \in [RegisterIndex -> Int32] \cup {NoRegisters},
           pc = "loop",
           Access(named, registers),
           named \subseteq RegisterIndex /\ Registers # NoRegisters
               => registers \in [RegisterIndex -> Int32] /\ registers # NoRegisters
    PROVE  /\ Registers' \in [RegisterIndex -> Int32] \cup {NoRegisters}
           /\ Registers' = NoRegisters => Registers = NoRegisters
           /\ pc' \in {"loop", "faulted"}
           /\ pc' = "faulted" => Registers = NoRegisters
<1>1. CASE ~(named \subseteq RegisterIndex)
  BY <1>1 DEF Access
<1>2. CASE named \subseteq RegisterIndex /\ Registers = NoRegisters
  BY <1>2 DEF Access
<1>3. CASE named \subseteq RegisterIndex /\ Registers # NoRegisters
  BY <1>3 DEF Access
<1> QED
  BY <1>1, <1>2, <1>3

\* A function on the registers is not the failed allocation.
LEMMA RegistersReal ==
    ASSUME NEW registers \in [RegisterIndex -> Int32]
    PROVE  registers # NoRegisters
<1>1. registers \in [0..(RegisterCount - 1) -> Int \cup {Stray}]
  BY IntAssumption DEF RegisterIndex, Int32
<1> QED
  BY <1>1, StrayAssumption


\* The variables an iteration changes besides the registers.
Advanced ==
    /\ PointerInside(InstructionPointer')
    /\ Running' \in BOOLEAN
    /\ Result' \in {0, 1}
    /\ UNCHANGED <<HasBytecode, BytecodeSize>>

\* An instruction on registers.
LEMMA AccessStep ==
    ASSUME RuntimeTypeOK, pc = "loop", Advanced,
           NEW named, NEW registers, Access(named, registers),
           named \subseteq RegisterIndex /\ Registers # NoRegisters
               => registers \in [RegisterIndex -> Int32] /\ registers # NoRegisters
    PROVE  Stepped
  BY AccessKeeps DEF RuntimeTypeOK, Stepped, Advanced

\* LOAD_CONST, whose constant may be copied from behind the program.
LEMMA LoadConstStep ==
    ASSUME RuntimeTypeOK, LoadConst
    PROVE  Stepped
<1>1. /\ BytecodeSize \in 0..MaxSize /\ InstructionPointer \in 0..(Modulus - 1)
      /\ InstructionPointer < BytecodeSize /\ pc = "loop"
      /\ Registers \in [RegisterIndex -> Int32] \cup {NoRegisters}
      /\ Running \in BOOLEAN /\ Result \in {0, 1}
  BY DEF RuntimeTypeOK, LoadConst, Iteration
<1>2. Operand1 \in 0..BytecodeSize
  BY <1>1, OpcodeInside
<1>3. PICK register \in ReadU8(Operand1) : \E value \in ReadI32(register[2]) :
          /\ InstructionPointer' = value[2]
          /\ Access({register[1]}, [Registers EXCEPT ![register[1]] = value[1]])
  BY DEF LoadConst
<1>4. PICK value \in ReadI32(register[2]) :
          /\ InstructionPointer' = value[2]
          /\ Access({register[1]}, [Registers EXCEPT ![register[1]] = value[1]])
  BY <1>3
<1>5. register[2] \in 0..BytecodeSize
  BY <1>1, <1>2, ReadU8Inside
<1>6. value[1] \in Int32 /\ value[2] \in 0..(BytecodeSize + 4)
  BY <1>1, <1>5, ReadI32Inside
<1>7. Advanced
  BY <1>1, <1>4, <1>6 DEF Advanced, PointerInside, LoadConst, Iteration
<1> DEFINE registers == [Registers EXCEPT ![register[1]] = value[1]]
<1>8. Registers # NoRegisters => registers \in [RegisterIndex -> Int32]
  BY <1>1, <1>6
<1>9. Registers # NoRegisters => registers # NoRegisters
  BY <1>8, RegistersReal
<1> QED
  BY <1>1, <1>4, <1>7, <1>8, <1>9, AccessStep

\* ADD, which wraps.
LEMMA AddStep ==
    ASSUME RuntimeTypeOK, Add
    PROVE  Stepped
<1>1. /\ BytecodeSize \in 0..MaxSize /\ InstructionPointer \in 0..(Modulus - 1)
      /\ InstructionPointer < BytecodeSize /\ pc = "loop"
      /\ Registers \in [RegisterIndex -> Int32] \cup {NoRegisters}
      /\ Running \in BOOLEAN /\ Result \in {0, 1}
  BY DEF RuntimeTypeOK, Add, Iteration
<1>2. Operand1 \in 0..BytecodeSize
  BY <1>1, OpcodeInside
<1> DEFINE Sum(d, s, t) ==
        [Registers EXCEPT ![d[1]] = Wrap(Registers[s[1]] + Registers[t[1]])]
<1>3. PICK destination \in ReadU8(Operand1) : \E source1 \in ReadU8(destination[2]) :
          \E source2 \in ReadU8(source1[2]) :
              /\ InstructionPointer' = source2[2]
              /\ Access({destination[1], source1[1], source2[1]},
                        Sum(destination, source1, source2))
  BY DEF Add
<1>4. PICK source1 \in ReadU8(destination[2]) : \E source2 \in ReadU8(source1[2]) :
          /\ InstructionPointer' = source2[2]
          /\ Access({destination[1], source1[1], source2[1]},
                    Sum(destination, source1, source2))
  BY <1>3
<1>5. PICK source2 \in ReadU8(source1[2]) :
          /\ InstructionPointer' = source2[2]
          /\ Access({destination[1], source1[1], source2[1]},
                    Sum(destination, source1, source2))
  BY <1>4
<1>6. destination[2] \in 0..BytecodeSize
  BY <1>1, <1>2, ReadU8Inside
<1>7. source1[2] \in 0..BytecodeSize
  BY <1>1, <1>6, ReadU8Inside
<1>8. source2[2] \in 0..BytecodeSize
  BY <1>1, <1>7, ReadU8Inside
<1>9. Advanced
  BY <1>1, <1>5, <1>8 DEF Advanced, PointerInside, Add, Iteration
<1> DEFINE registers == Sum(destination, source1, source2)
           named == {destination[1], source1[1], source2[1]}
<1>10. ASSUME named \subseteq RegisterIndex, Registers # NoRegisters
       PROVE  registers \in [RegisterIndex -> Int32] /\ registers # NoRegisters
  <2>1. Registers \in [RegisterIndex -> Int32]
    BY <1>1, <1>10
  <2>2. Registers[source1[1]] \in Int /\ Registers[source2[1]] \in Int
    BY <2>1, <1>10, IntAssumption DEF Int32
  <2>3. Registers[source1[1]] + Registers[source2[1]] \in Int
    BY <2>2
  <2>4. Wrap(Registers[source1[1]] + Registers[source2[1]]) \in Int32
    BY <2>3, WrapInt32
  <2>5. registers \in [RegisterIndex -> Int32]
    BY <2>1, <2>4
  <2> QED
    BY <2>5, RegistersReal
<1>11. Access(named, registers)
  BY <1>5
<1> QED
  BY <1>1, <1>9, <1>10, <1>11, AccessStep

\* PRINT, which changes no register.
LEMMA PrintRegisterStep ==
    ASSUME RuntimeTypeOK, PrintRegister
    PROVE  Stepped
<1>1. /\ BytecodeSize \in 0..MaxSize /\ InstructionPointer \in 0..(Modulus - 1)
      /\ InstructionPointer < BytecodeSize /\ pc = "loop"
      /\ Registers \in [RegisterIndex -> Int32] \cup {NoRegisters}
      /\ Running \in BOOLEAN /\ Result \in {0, 1}
  BY DEF RuntimeTypeOK, PrintRegister, Iteration
<1>2. Operand1 \in 0..BytecodeSize
  BY <1>1, OpcodeInside
<1>3. PICK register \in ReadU8(Operand1) :
          InstructionPointer' = register[2] /\ Access({register[1]}, Registers)
  BY DEF PrintRegister
<1>4. register[2] \in 0..BytecodeSize
  BY <1>1, <1>2, ReadU8Inside
<1>5. Advanced
  BY <1>1, <1>3, <1>4 DEF Advanced, PointerInside, PrintRegister, Iteration
<1> QED
  BY <1>1, <1>3, <1>5, AccessStep

\* One step of the interpreter, each of its instructions.
LEMMA InterpreterStep ==
    ASSUME RuntimeTypeOK, PointerBound, RuntimeStep
    PROVE  Stepped
<1>1. /\ BytecodeSize \in 0..MaxSize /\ InstructionPointer \in 0..(Modulus - 1)
      /\ Registers \in [RegisterIndex -> Int32] \cup {NoRegisters}
      /\ Running \in BOOLEAN /\ Result \in {0, 1}
  BY DEF RuntimeTypeOK
<1>2. ASSUME Iteration, InstructionPointer' = Operand1
      PROVE  PointerInside(InstructionPointer')
  BY <1>1, <1>2, OpcodeInside DEF PointerInside, Iteration
<1>3. CASE Nop
  BY <1>1, <1>2, <1>3 DEF Nop, Iteration, Stepped
<1>4. CASE Halt
  BY <1>1, <1>2, <1>4 DEF Halt, Iteration, Stepped
<1>5. CASE UnknownOpcode
  BY <1>1, <1>2, <1>5 DEF UnknownOpcode, Iteration, Return, Stepped
<1>6. CASE LeaveLoop
  BY <1>1, <1>6 DEF LeaveLoop, Return, Stepped, PointerBound, PointerInside
<1> QED
  BY <1>3, <1>4, <1>5, <1>6, LoadConstStep, AddStep, PrintRegisterStep DEF RuntimeStep

-----------------------------------------------------------------------------
(* The inductive invariant.                                                 *)

\* What OwnsAllOrNothing and FaultsFollowFailures need to be inductive: a run has all
\* parts, and what can make a later call fault was left by an allocation that failed.
FailuresRecorded ==
    /\ Active => {Context, Runtime, CompileTime} = {"live"}
    /\ Registers = NoRegisters => failed # {}
    /\ Usable /\ "freed" \in {Context, Runtime, CompileTime} => failed # {}

Inv ==
    /\ TypeOK
    /\ PointerBound
    /\ OwnsAllOrNothing
    /\ FailuresRecorded
    /\ FaultsFollowFailures
    /\ RunningMeansActive

\* The allocated registers, all 0.
LEMMA FreshRegisters ==
    LET fresh == [r \in RegisterIndex |-> 0]
    IN  fresh \in [RegisterIndex -> Int32] /\ fresh # NoRegisters
<1> DEFINE fresh == [r \in RegisterIndex |-> 0]
<1>1. fresh \in [RegisterIndex -> Int32]
  BY IntAssumption DEF Int32
<1> QED
  BY <1>1, RegistersReal

\* The machine KVMCreate returns.
LEMMA InitInv == Init => Inv
<1> SUFFICES ASSUME Init PROVE Inv
  OBVIOUS
<1>1. Registers \in [RegisterIndex -> Int32] /\ Registers # NoRegisters
  BY FreshRegisters DEF Init
<1>2. 0 \in 0..MaxSize /\ 0 \in 0..(Modulus - 1)
  BY SizeAssumption
<1>3. TypeOK
  BY <1>1, <1>2 DEF Init, TypeOK, RuntimeTypeOK, Pointer, Allocations
<1> QED
  BY <1>1, <1>3 DEF Init, Inv, PointerBound, OwnsAllOrNothing, FailuresRecorded,
     FaultsFollowFailures, RunningMeansActive, Active, Usable

\* KVMInitialize, its success and its three failures.
LEMMA InitializeInv ==
    ASSUME Inv, KVMInitialize
    PROVE  Inv'
<1>1. ASSUME NEW allocated \in BOOLEAN, RuntimeKVMCreate(allocated)
      PROVE  /\ Registers' \in [RegisterIndex -> Int32] \cup {NoRegisters}
             /\ Registers' = NoRegisters => ~allocated
             /\ Running' \in BOOLEAN
  BY <1>1, FreshRegisters DEF RuntimeKVMCreate
<1>2. CASE InitializeSucceeds
  <2>1. PICK allocated \in BOOLEAN :
            /\ RuntimeKVMCreate(allocated)
            /\ failed' = IF allocated THEN failed ELSE failed \cup {"Registers"}
    BY <1>2 DEF InitializeSucceeds
  <2>2. TypeOK'
    BY <1>1, <1>2, <2>1 DEF Inv, TypeOK, RuntimeTypeOK, InitializeSucceeds, Initializing,
       Pointer, Allocations
  <2>3. Registers' = NoRegisters => failed' # {}
    BY <1>1, <2>1
  <2> QED
    BY <1>2, <2>2, <2>3 DEF Inv, InitializeSucceeds, Initializing, PointerBound,
       OwnsAllOrNothing, FailuresRecorded, FaultsFollowFailures, RunningMeansActive,
       Active, Usable
<1>3. CASE InitializeNoContext
  <2>1. TypeOK'
    BY <1>3 DEF Inv, TypeOK, RuntimeTypeOK, InitializeNoContext, Initializing, Pointer,
       Allocations
  <2> QED
    BY <1>3, <2>1 DEF Inv, InitializeNoContext, Initializing, PointerBound,
       OwnsAllOrNothing, FailuresRecorded, FaultsFollowFailures, RunningMeansActive,
       Active, Usable
<1>4. CASE InitializeNoRuntime
  <2>1. TypeOK'
    BY <1>4 DEF Inv, TypeOK, RuntimeTypeOK, InitializeNoRuntime, Initializing, Pointer,
       Allocations
  <2> QED
    BY <1>4, <2>1 DEF Inv, InitializeNoRuntime, Initializing, PointerBound,
       OwnsAllOrNothing, FailuresRecorded, FaultsFollowFailures, RunningMeansActive,
       Active, Usable
<1>5. CASE InitializeNoCompileTime
  <2>1. PICK allocated \in BOOLEAN :
            /\ RuntimeKVMCreate(allocated)
            /\ failed' = failed \cup {"CompileTimeKVM"}
                                \cup (IF allocated THEN {} ELSE {"Registers"})
    BY <1>5 DEF InitializeNoCompileTime
  <2>2. failed' \subseteq Allocations /\ failed' # {}
    BY <2>1 DEF Inv, TypeOK, Allocations
  <2>3. TypeOK'
    BY <1>1, <1>5, <2>1, <2>2 DEF Inv, TypeOK, RuntimeTypeOK, InitializeNoCompileTime,
       Initializing, Pointer
  <2> QED
    BY <1>5, <2>2, <2>3 DEF Inv, InitializeNoCompileTime, Initializing, PointerBound,
       OwnsAllOrNothing, FailuresRecorded, FaultsFollowFailures, RunningMeansActive,
       Active, Usable
<1> QED
  BY <1>2, <1>3, <1>4, <1>5 DEF KVMInitialize

\* KVMDestroy, and the beginning and the end of KVMRun.
LEMMA DestroyRunInv ==
    ASSUME Inv, KVMDestroy \/ KVMRun \/ RunEnd
    PROVE  Inv'
<1>1. CASE KVMDestroy
  <2>1. TypeOK'
    BY <1>1 DEF Inv, TypeOK, RuntimeTypeOK, KVMDestroy, Pointer
  <2>2. pc' = "faulted" => failed' # {}
    BY <1>1 DEF Inv, KVMDestroy, FailuresRecorded, Usable
  <2> QED
    BY <1>1, <2>1, <2>2 DEF Inv, KVMDestroy, PointerBound, OwnsAllOrNothing,
       FailuresRecorded, FaultsFollowFailures, RunningMeansActive, Active, Usable
<1>2. CASE KVMRun
  <2>1. TypeOK'
    BY <1>2 DEF Inv, TypeOK, RuntimeTypeOK, KVMRun
  <2> QED
    BY <1>2, <2>1 DEF Inv, KVMRun, PointerBound, OwnsAllOrNothing, FailuresRecorded,
       FaultsFollowFailures, RunningMeansActive, Active, Usable
<1>3. CASE RunEnd
  <2>1. TypeOK'
    BY <1>3 DEF Inv, TypeOK, RuntimeTypeOK, RunEnd
  <2> QED
    BY <1>3, <2>1 DEF Inv, RunEnd, PointerBound, OwnsAllOrNothing, FailuresRecorded,
       FaultsFollowFailures, RunningMeansActive, Active, Usable
<1> QED
  BY <1>1, <1>2, <1>3

\* KVMRun up to the loop.
LEMMA RunStartInv ==
    ASSUME Inv, RunLoad \/ RunStart
    PROVE  Inv'
<1>1. CASE RunLoad
  <2>1. TypeOK'
    BY <1>1 DEF Inv, TypeOK, RuntimeTypeOK, RunLoad, RuntimeKVMLoad, kvmVars
  <2> QED
    BY <1>1, <2>1 DEF Inv, RunLoad, RuntimeKVMLoad, kvmVars, PointerBound,
       OwnsAllOrNothing, FailuresRecorded, FaultsFollowFailures, RunningMeansActive,
       Active, Usable
<1>2. CASE RunStart
  <2>1. 0 \in 0..(Modulus - 1)
    BY SizeAssumption
  <2>2. TypeOK'
    BY <1>2, <2>1 DEF Inv, TypeOK, RuntimeTypeOK, RunStart, RuntimeKVMStart, Return,
       kvmVars
  <2>3. PointerBound'
    BY <1>2, SizeAssumption DEF Inv, TypeOK, RuntimeTypeOK, PointerBound, RunStart,
       RuntimeKVMStart, Return
  <2> QED
    BY <1>2, <2>2, <2>3 DEF Inv, RunStart, RuntimeKVMStart, Return, kvmVars,
       OwnsAllOrNothing, FailuresRecorded, FaultsFollowFailures, RunningMeansActive,
       Active, Usable
<1> QED
  BY <1>1, <1>2

\* A step of the interpreter in a run.
LEMMA RunIterateInv ==
    ASSUME Inv, RunIterate
    PROVE  Inv'
<1>1. RuntimeTypeOK /\ PointerBound /\ RuntimeStep /\ UNCHANGED kvmVars
  BY DEF Inv, TypeOK, RunIterate
<1>2. Stepped
  BY <1>1, InterpreterStep
<1>3. pc = "loop"
  BY <1>1 DEF RuntimeStep, Nop, LoadConst, Add, PrintRegister, Halt, UnknownOpcode, LeaveLoop,
     Iteration
<1>4. /\ BytecodeSize' \in 0..MaxSize
      /\ InstructionPointer' \in Int
      /\ 0 <= InstructionPointer' /\ InstructionPointer' <= BytecodeSize' + 4
  BY <1>1, <1>2, SizeAssumption DEF Stepped, PointerInside, RuntimeTypeOK
<1>5. InstructionPointer' \in 0..(Modulus - 1)
  BY <1>4, BoundedPointer
<1>6. TypeOK'
  BY <1>1, <1>2, <1>4, <1>5 DEF Inv, TypeOK, RuntimeTypeOK, Stepped, kvmVars
<1>7. PointerBound'
  BY <1>4 DEF PointerBound
<1> QED
  BY <1>1, <1>2, <1>3, <1>6, <1>7 DEF Inv, Stepped, kvmVars, OwnsAllOrNothing,
     FailuresRecorded, FaultsFollowFailures, RunningMeansActive, Active, Usable

\* KVMStep, KVMPause, KVMResume and KVMStop, at any moment.
LEMMA SwitchInv ==
    ASSUME Inv, KVMStep \/ KVMPause \/ KVMResume \/ KVMStop
    PROVE  Inv'
<1>1. CASE KVMStep \/ KVMPause \/ KVMResume
  <2>1. /\ Usable /\ UNCHANGED <<runtimeVars, Context, Runtime, CompileTime, failed>>
        /\ State \in {"RUNNING", "PAUSED"}
        /\ State' \in {"RUNNING", "PAUSED", "ERROR"}
    BY <1>1 DEF KVMStep, KVMPause, KVMResume, Switch
  <2>2. TypeOK'
    BY <2>1 DEF Inv, TypeOK, RuntimeTypeOK, runtimeVars
  <2> QED
    BY <2>1, <2>2 DEF Inv, runtimeVars, PointerBound, OwnsAllOrNothing,
       FailuresRecorded, FaultsFollowFailures, RunningMeansActive, Active, Usable
<1>2. CASE KVMStop
  <2>1. Running' \in BOOLEAN
    BY <1>2 DEF Inv, TypeOK, RuntimeTypeOK, KVMStop
  <2>2. TypeOK'
    BY <1>2, <2>1 DEF Inv, TypeOK, RuntimeTypeOK, KVMStop
  <2> QED
    BY <1>2, <2>2 DEF Inv, KVMStop, PointerBound, OwnsAllOrNothing, FailuresRecorded,
       FaultsFollowFailures, RunningMeansActive, Active, Usable
<1> QED
  BY <1>1, <1>2

\* Every step keeps the invariant.
LEMMA NextInv == Inv /\ [Next]_vars => Inv'
<1> SUFFICES ASSUME Inv, [Next]_vars PROVE Inv'
  OBVIOUS
<1>1. CASE Next
  BY <1>1, InitializeInv, DestroyRunInv, RunStartInv, RunIterateInv, SwitchInv
     DEF Next, RunStep
<1>2. CASE UNCHANGED vars
  BY <1>2 DEF vars, runtimeVars, kvmVars, Inv, TypeOK, RuntimeTypeOK, PointerBound,
     OwnsAllOrNothing, FailuresRecorded, FaultsFollowFailures, RunningMeansActive,
     Active, Usable
<1> QED
  BY <1>1, <1>2

\* In every reachable state.
LEMMA Invariance == Spec => []Inv
  BY InitInv, NextInv, PTL DEF Spec

-----------------------------------------------------------------------------
\* The values of the state: a register never takes a value from behind the program.
THEOREM TypeCorrect == Spec => []TypeOK
<1>1. Inv => TypeOK
  BY DEF Inv
<1> QED
  BY <1>1, Invariance, PTL

\* The pointer is at most one constant behind the program.
THEOREM PointerBounded == Spec => []PointerBound
<1>1. Inv => PointerBound
  BY DEF Inv
<1> QED
  BY <1>1, Invariance, PTL

\* A machine has all of its parts or none, through failures and retries.
THEOREM Ownership == Spec => []OwnsAllOrNothing
<1>1. Inv => OwnsAllOrNothing
  BY DEF Inv
<1> QED
  BY <1>1, Invariance, PTL

\* Without a failed allocation nothing faults.
THEOREM NoFaultUnlessFailure == Spec => []FaultsFollowFailures
<1>1. Inv => FaultsFollowFailures
  BY DEF Inv
<1> QED
  BY <1>1, Invariance, PTL

\* RUNNING and PAUSED are never left behind by a run.
THEOREM RunningOnlyInRun == Spec => []RunningMeansActive
<1>1. Inv => RunningMeansActive
  BY DEF Inv
<1> QED
  BY <1>1, Invariance, PTL

\* A machine runs one program.
THEOREM SingleRun == Spec => OneRun
<1>1. Inv /\ [Next]_vars => (Spent => Spent')
  <2> SUFFICES ASSUME Inv, [Next]_vars, Spent PROVE Spent'
    OBVIOUS
  <2>1. State \in {"HALTED", "ERROR"} \/ ~Usable
    BY DEF Inv, TypeOK, RunningMeansActive, Spent
  <2>2. CASE KVMInitialize
    BY <2>2 DEF Spent, KVMInitialize, InitializeSucceeds, InitializeNoContext,
       InitializeNoRuntime, InitializeNoCompileTime, Initializing
  <2>3. CASE KVMDestroy \/ KVMRun
    BY <2>1, <2>3 DEF Spent, KVMDestroy, KVMRun, Active, Usable
  <2>4. CASE RunStep
    BY <2>4 DEF Spent, RunStep, RunLoad, RunStart, RunIterate, RunEnd, Active, RuntimeStep,
       Nop, LoadConst, Add, PrintRegister, Halt, UnknownOpcode, LeaveLoop, Iteration
  <2>5. CASE KVMStep \/ KVMPause \/ KVMResume
    BY <2>1, <2>5 DEF KVMStep, KVMPause, KVMResume, Switch
  <2>6. CASE KVMStop
    BY <2>6 DEF Spent, KVMStop, Active
  <2>7. CASE UNCHANGED vars
    BY <2>7 DEF Spent, vars, runtimeVars, kvmVars, Active
  <2> QED
    BY <2>2, <2>3, <2>4, <2>5, <2>6, <2>7 DEF Next
<1> QED
  BY <1>1, Invariance, PTL DEF Spec, OneRun

-----------------------------------------------------------------------------
(* main, which calls the machine's functions one after the other.           *)

\* Before the machine is initialised nothing has been done to it; a program with an
\* error never gets there.
Before == {"read", "tokenize", "parse", "lower", "check", "create", "initialize"}
MainInv ==
    /\ Inv
    /\ MainTypeOK
    /\ FaultsExplained
    /\ nullKept => HasError
    /\ stage \in Before => State = "UNINITIALIZED" /\ pc = "idle"
    /\ HasError => /\ stage \in {"lower", "check"} \cup Ended
                   /\ State = "UNINITIALIZED" /\ pc = "idle"
                   /\ stage = "exited" => status = 1

\* With no registers an instruction names none that there are: none dereferences NULL.
LEMMA NoRegisterNoFault ==
    ASSUME RegisterCount = 0, RuntimeTypeOK, PointerBound, RuntimeStep
    PROVE  pc' # "faulted"
<1>1. RegisterIndex = {}
  BY DEF RegisterIndex
<1>2. ASSUME NEW named, named # {}, NEW registers, Access(named, registers)
      PROVE  pc' = pc
  BY <1>1, <1>2 DEF Access
<1>3. pc = "loop"
  BY DEF RuntimeStep, Nop, LoadConst, Add, PrintRegister, Halt, UnknownOpcode, LeaveLoop,
     Iteration
<1>4. CASE LoadConst
  BY <1>2, <1>3, <1>4 DEF LoadConst
<1>5. CASE Add
  BY <1>2, <1>3, <1>5 DEF Add
<1>6. CASE PrintRegister
  BY <1>2, <1>3, <1>6 DEF PrintRegister
<1>7. CASE Nop \/ Halt \/ UnknownOpcode \/ LeaveLoop
  BY <1>3, <1>7 DEF Nop, Halt, UnknownOpcode, LeaveLoop, Return
<1> QED
  BY <1>4, <1>5, <1>6, <1>7 DEF RuntimeStep

\* main begins with its source.
LEMMA MainInitInv == MainInit => MainInv
<1> SUFFICES ASSUME MainInit PROVE MainInv
  OBVIOUS
<1>1. Inv
  BY InitInv DEF MainInit
<1>2. MainTypeOK
  BY <1>1 DEF MainInit, Inv, MainTypeOK, Stages
<1> QED
  BY <1>1, <1>2 DEF MainInit, MainInv, FaultsExplained, Before, Init

\* A stage that leaves the machine alone.
LEMMA MachineKept ==
    ASSUME Inv, UNCHANGED machineVars
    PROVE  Inv'
<1>1. UNCHANGED vars
  BY DEF machineVars, vars
<1> QED
  BY <1>1, NextInv

\* The front end: what a stage makes of the program decides which is next.
LEMMA FrontInv ==
    ASSUME MainInv, ReadFile \/ Tokenize \/ ParseProgram \/ LowerSS \/ CheckError
    PROVE  MainInv'
<1>1. Inv' /\ UNCHANGED <<State, pc, failed, machine, bytecode>>
  <2>1. UNCHANGED machineVars /\ UNCHANGED <<machine, bytecode>>
    BY DEF ReadFile, Tokenize, ParseProgram, LowerSS, CheckError, Front
  <2> QED
    BY <2>1, MachineKept DEF MainInv, machineVars, runtimeVars, kvmVars
<1>2. TypeOK'
  BY <1>1 DEF Inv
<1>3. CASE ReadFile
  BY <1>1, <1>2, <1>3 DEF MainInv, MainTypeOK, FaultsExplained, Before, Stages, Ended, Troubles,
     ReadFile, Exit, Goto, Fault, Syntax
<1>4. CASE Tokenize
  BY <1>1, <1>2, <1>4 DEF MainInv, MainTypeOK, FaultsExplained, Before, Stages, Ended, Troubles,
     Tokenize, Goto, Fault, Syntax
<1>5. CASE ParseProgram
  <2>1. stage = "parse" /\ ~HasError /\ ~nullKept /\ UNCHANGED machine
    BY <1>5 DEF ParseProgram, MainInv, Front, Ended
  <2>2. HasError' \in BOOLEAN /\ nullKept' \in BOOLEAN /\ (nullKept' => HasError')
    BY <1>5 DEF ParseProgram
  <2>3. CASE Goto("lower") \/ Goto("endless")
    BY <1>1, <1>2, <2>1, <2>2, <2>3 DEF MainInv, MainTypeOK, FaultsExplained, Before, Stages,
       Ended, Goto
  <2>4. CASE Exit(1)
    BY <1>1, <1>2, <2>1, <2>2, <2>4 DEF MainInv, MainTypeOK, FaultsExplained, Before, Stages,
       Ended, Exit
  <2>5. CASE \E cause \in {"memory", "stack"} : Fault({cause})
    BY <1>1, <1>2, <2>1, <2>2, <2>5 DEF MainInv, MainTypeOK, FaultsExplained, Before, Stages,
       Ended, Troubles, Fault
  <2> QED
    BY <1>5, <2>3, <2>4, <2>5 DEF ParseProgram
<1>6. CASE LowerSS
  BY <1>1, <1>2, <1>6 DEF MainInv, MainTypeOK, FaultsExplained, Before, Stages, Ended, Troubles,
     LowerSS, Goto, Fault, Syntax
<1>7. CASE CheckError
  BY <1>1, <1>2, <1>7 DEF MainInv, MainTypeOK, FaultsExplained, Before, Stages, Ended, Troubles,
     CheckError, Exit, Goto, Fault, Syntax
<1> QED
  BY <1>3, <1>4, <1>5, <1>6, <1>7

\* The machine, which only a program without an error gets to.
LEMMA MachineInv ==
    ASSUME RegisterCount = 0, MainInv, Create \/ Initialize \/ Run \/ Execute \/ Free
    PROVE  MainInv'
<1>1. ~HasError /\ ~HasError' /\ ~nullKept' /\ UNCHANGED <<HasError, nullKept, bytecode>>
  <2>1. UNCHANGED <<HasError, nullKept, bytecode>>
    BY DEF Create, Initialize, Run, Execute, Free, Syntax, Front
  <2>2. ~HasError
    BY DEF MainInv, Ended, Create, Initialize, Run, Execute, Free
  <2> QED
    BY <2>1, <2>2 DEF MainInv
<1>2. Inv'
  <2>1. KVMInitialize \/ KVMRun \/ RunStep => Next
    BY DEF Next
  <2>2. Next \/ UNCHANGED machineVars
    BY <2>1 DEF Create, Initialize, Run, Execute, Astray, Free, Front
  <2> QED
    BY <2>2, NextInv, MachineKept DEF MainInv
<1>3. TypeOK'
  BY <1>2 DEF Inv
<1>4. CASE Create
  BY <1>1, <1>2, <1>3, <1>4 DEF MainInv, MainTypeOK, FaultsExplained, Before, Stages, Ended,
     Create, Goto, machineVars, runtimeVars, kvmVars
<1>5. CASE Initialize
  <2>1. pc' = "faulted" => "CompileTimeKVM" \in failed'
    <3>1. pc = "idle"
      BY <1>5 DEF MainInv, Initialize, Before
    <3> QED
      BY <1>5, <3>1 DEF Initialize, KVMInitialize, InitializeSucceeds, InitializeNoContext,
         InitializeNoRuntime, InitializeNoCompileTime, machineVars, runtimeVars
  <2> QED
    BY <1>1, <1>2, <1>3, <1>5, <2>1 DEF MainInv, MainTypeOK, FaultsExplained, Before, Stages,
       Ended, Initialize, Goto, Fault
<1>6. CASE Run
  BY <1>1, <1>2, <1>3, <1>6 DEF MainInv, MainTypeOK, FaultsExplained, Before, Stages, Ended,
     Troubles, Run, Goto, Fault
<1>7. CASE Execute
  <2>1. RunStep => pc' # "faulted"
    <3>1. RunIterate => pc' # "faulted"
      BY NoRegisterNoFault DEF MainInv, Inv, TypeOK, RunIterate
    <3>2. RunLoad \/ RunStart \/ RunEnd => pc' # "faulted"
      BY DEF RunLoad, RunStart, RunEnd, RuntimeKVMStart, Return
    <3> QED
      BY <3>1, <3>2 DEF RunStep
  <2>2. CASE RunStep /\ (Goto("free") \/ Goto("running"))
    BY <1>1, <1>2, <1>3, <1>7, <2>1, <2>2 DEF MainInv, MainTypeOK, FaultsExplained, Before,
       Stages, Ended, Execute, Goto
  <2>3. CASE Astray
    BY <1>1, <1>2, <1>3, <1>7, <2>3 DEF MainInv, MainTypeOK, FaultsExplained, Before,
       Stages, Ended, Troubles, Execute, Astray, Goto, Fault
  <2> QED
    BY <1>7, <2>1, <2>2, <2>3 DEF Execute
<1>8. CASE Free
  BY <1>1, <1>2, <1>3, <1>8 DEF MainInv, MainTypeOK, FaultsExplained, Before, Stages, Ended,
     Free, Exit, Front
<1> QED
  BY <1>4, <1>5, <1>6, <1>7, <1>8

\* In every state of main, with the registers that Koboi.c:62 gives the machine: none.
LEMMA MainInvariance == RegisterCount = 0 => (MainSpec => []MainInv)
<1> SUFFICES ASSUME RegisterCount = 0 PROVE MainSpec => []MainInv
  OBVIOUS
<1>1. MainInv /\ [MainNext]_<<machineVars, mainVars>> => MainInv'
  <2> SUFFICES ASSUME MainInv, [MainNext]_<<machineVars, mainVars>> PROVE MainInv'
    OBVIOUS
  <2>1. CASE UNCHANGED <<machineVars, mainVars>>
    <3>1. Inv' /\ UNCHANGED <<State, pc, failed>> /\ UNCHANGED mainVars
      BY <2>1, MachineKept DEF MainInv, machineVars, runtimeVars, kvmVars
    <3> QED
      BY <3>1 DEF MainInv, Inv, MainTypeOK, FaultsExplained, mainVars
  <2> QED
    BY <2>1, FrontInv, MachineInv DEF MainNext
<1> QED
  BY <1>1, MainInitInv, PTL DEF MainSpec

\* The types of main's variables and of the machine it runs.
THEOREM MainTypes == RegisterCount = 0 => (MainSpec => []MainTypeOK)
<1>1. MainInv => MainTypeOK
  BY DEF MainInv
<1> QED
  BY <1>1, MainInvariance, PTL

\* Whatever the stages return and whichever allocations fail: main, whose machine has no
\* registers, faults at what FaultsExplained lists.  No program makes the machine itself
\* fault, and the lowering faults at no AST but one that was reported.
THEOREM MainFaults == RegisterCount = 0 => (MainSpec => []FaultsExplained)
<1>1. MainInv => FaultsExplained
  BY DEF MainInv
<1> QED
  BY <1>1, MainInvariance, PTL

\* A program with a syntax error is not run, and main returns 1.
THEOREM RejectedStopped == RegisterCount = 0 => (MainSpec => []RejectedNeverRuns)
<1>1. MainInv => RejectedNeverRuns
  BY DEF MainInv, RejectedNeverRuns, Active
<1> QED
  BY <1>1, MainInvariance, PTL
=============================================================================
