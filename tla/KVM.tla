-------------------------------- MODULE KVM --------------------------------
(***************************************************************************)
(* The life of a KoboiVM: KVMCreate, KVMInitialize and KVMDestroy of       *)
(* Core/KoboiVM.c and the calls of Execution/KVMExecution.c, around the    *)
(* interpreter.  malloc and calloc may fail.                               *)
(*                                                                         *)
(* One caller creates, initialises, runs and destroys.  KVMStep, KVMPause, *)
(* KVMResume and KVMStop may also be called while KVMRun is on the stack,  *)
(* between two iterations of the interpreter, as a signal handler or a     *)
(* callback does: KVMStop clears the flag that RuntimeKVMRun polls, and    *)
(* Pause, Resume and Step need a state that is only seen there.            *)
(* Mode is RUNTIME from KVMCreate on; nothing assigns it.                  *)
(***************************************************************************)
EXTENDS RuntimeKVM

VARIABLES
    State,           \* KoboiVirtualMachineState
    Context,         \* the pointers of KoboiVM: null, live or freed
    Runtime,
    CompileTime,
    failed           \* the allocations that failed so far

kvmVars == <<State, Context, Runtime, CompileTime, failed>>
vars == <<runtimeVars, kvmVars>>

Pointer == {"null", "live", "freed"}
Allocations == {"Context", "RuntimeKVM", "Registers", "CompileTimeKVM"}

\* KVMRun is on the stack.
Active == pc \in {"begun", "loaded", "loop", "returned"}
\* The KoboiVM may be passed to a call.
Usable == pc \notin {"faulted", "destroyed"}

-----------------------------------------------------------------------------
\* KVMCreate: malloc, memset 0.  The variables of the RuntimeKVM mean nothing until
\* RuntimeKVMCreate.
Init ==
    /\ State = "UNINITIALIZED"
    /\ Context = "null" /\ Runtime = "null" /\ CompileTime = "null"
    /\ failed = {}
    /\ Registers = [r \in RegisterIndex |-> 0]
    /\ HasBytecode = FALSE
    /\ BytecodeSize = 0
    /\ InstructionPointer = 0
    /\ Running = FALSE
    /\ pc = "idle"
    /\ Result = 0

\* What every KVMInitialize leaves alone.
Initializing ==
    /\ pc = "idle"
    /\ State = "UNINITIALIZED"
    /\ UNCHANGED <<HasBytecode, BytecodeSize, InstructionPointer, Result>>

\* RuntimeKVMCreate, whose calloc nothing tests.
RuntimeKVMCreate(allocated) ==
    /\ Registers' = IF allocated THEN [r \in RegisterIndex |-> 0] ELSE NoRegisters
    /\ Running' = TRUE

InitializeSucceeds ==
    /\ Initializing
    /\ \E allocated \in BOOLEAN :
          /\ RuntimeKVMCreate(allocated)
          /\ failed' = IF allocated THEN failed ELSE failed \cup {"Registers"}
    /\ State' = "READY"
    /\ Context' = "live" /\ Runtime' = "live" /\ CompileTime' = "live"
    /\ UNCHANGED pc

InitializeNoContext ==
    /\ Initializing
    /\ Context' = "null"
    /\ failed' = failed \cup {"Context"}
    /\ UNCHANGED <<Registers, Running, pc, State, Runtime, CompileTime>>

\* Mutant: the Context is kept.
InitializeNoRuntimeKept ==
    /\ Initializing
    /\ Context' = "live"
    /\ Runtime' = "null"
    /\ failed' = failed \cup {"RuntimeKVM"}
    /\ UNCHANGED <<Registers, Running, pc, State, CompileTime>>

\* The Context is freed; KVM->Context still points to it.
InitializeNoRuntime ==
    /\ Initializing
    /\ Context' = "freed"
    /\ Runtime' = "null"
    /\ failed' = failed \cup {"RuntimeKVM"}
    /\ UNCHANGED <<Registers, Running, pc, State, CompileTime>>

\* CompileTimeKVMDestroy(NULL) reads KVM->Environment.
InitializeNoCompileTime ==
    /\ Initializing
    /\ \E allocated \in BOOLEAN :
          /\ RuntimeKVMCreate(allocated)
          /\ failed' = failed \cup {"CompileTimeKVM"}
                              \cup (IF allocated THEN {} ELSE {"Registers"})
    /\ Context' = "live"
    /\ Runtime' = "freed"
    /\ CompileTime' = "null"
    /\ pc' = "faulted"
    /\ UNCHANGED State

KVMInitialize ==
    \/ InitializeSucceeds
    \/ InitializeNoContext
    \/ InitializeNoRuntime
    \/ InitializeNoCompileTime

\* Each pointer that is not NULL is freed, a second time when it is dangling.
KVMDestroy ==
    /\ pc = "idle"
    /\ pc' = IF "freed" \in {Runtime, CompileTime, Context} THEN "faulted" ELSE "destroyed"
    /\ Runtime' = IF Runtime = "null" THEN "null" ELSE "freed"
    /\ CompileTime' = IF CompileTime = "null" THEN "null" ELSE "freed"
    /\ Context' = IF Context = "null" THEN "null" ELSE "freed"
    /\ UNCHANGED <<Registers, HasBytecode, BytecodeSize, InstructionPointer, Running,
                   Result, State, failed>>

-----------------------------------------------------------------------------
\* KVMRun.  With no Program, or in another state, it returns ERROR and changes nothing.
KVMRun ==
    /\ pc = "idle"
    /\ State \in {"READY", "PAUSED"}
    /\ State' = "RUNNING"
    /\ pc' = "begun"
    /\ UNCHANGED <<Registers, HasBytecode, BytecodeSize, InstructionPointer, Running,
                   Result, Context, Runtime, CompileTime, failed>>

\* RuntimeKVMLoad never fails here: KVM->RuntimeKVM and Program are not NULL.
RunLoad ==
    /\ pc = "begun"
    /\ \E present \in BOOLEAN, size \in 0..MaxSize : RuntimeKVMLoad(present, size)
    /\ pc' = "loaded"
    /\ UNCHANGED kvmVars

RunStart ==
    /\ pc = "loaded"
    /\ RuntimeKVMStart
    /\ UNCHANGED kvmVars

RunIterate == RuntimeStep /\ UNCHANGED kvmVars

\* Mutant: success leaves the state to whoever sees the result.
RunEndErrorOnly ==
    /\ pc = "returned"
    /\ State' = IF Result = 1 THEN State ELSE "ERROR"
    /\ pc' = "idle"
    /\ UNCHANGED <<Registers, HasBytecode, BytecodeSize, InstructionPointer, Running,
                   Result, Context, Runtime, CompileTime, failed>>

\* The state set meanwhile by another call is overwritten.
RunEnd ==
    /\ pc = "returned"
    /\ State' = IF Result = 1 THEN "HALTED" ELSE "ERROR"
    /\ pc' = "idle"
    /\ UNCHANGED <<Registers, HasBytecode, BytecodeSize, InstructionPointer, Running,
                   Result, Context, Runtime, CompileTime, failed>>

RunStep == RunLoad \/ RunStart \/ RunIterate \/ RunEnd

\* A call that changes nothing but State.
Switch(from, to) ==
    /\ Usable
    /\ State \in from
    /\ State' \in to
    /\ UNCHANGED <<runtimeVars, Context, Runtime, CompileTime, failed>>

\* RuntimeKVMStep has no return statement: Result is any value.
KVMStep == Switch({"RUNNING", "PAUSED"}, {"RUNNING", "ERROR"})

KVMPause == Switch({"RUNNING"}, {"PAUSED"})

\* Mutant: a machine that stopped can be resumed.
KVMResumeStopped == Switch({"PAUSED", "HALTED"}, {"RUNNING"})

KVMResume == Switch({"PAUSED"}, {"RUNNING"})

\* Mutant: the runtime is not tested for NULL.
KVMStopUntested ==
    /\ Usable
    /\ State' = "HALTED"
    /\ Running' = IF Runtime = "null" THEN Running ELSE FALSE
    /\ pc' = IF Runtime = "null" THEN "faulted" ELSE pc
    /\ UNCHANGED <<Registers, HasBytecode, BytecodeSize, InstructionPointer, Result,
                   Context, Runtime, CompileTime, failed>>

\* In every state; before KVMInitialize too, which then never succeeds.
KVMStop ==
    /\ Usable
    /\ State' = "HALTED"
    /\ Running' = IF Runtime = "null" THEN Running ELSE FALSE
    /\ UNCHANGED <<Registers, HasBytecode, BytecodeSize, InstructionPointer, pc, Result,
                   Context, Runtime, CompileTime, failed>>

Next ==
    \/ KVMInitialize
    \/ KVMDestroy
    \/ KVMRun
    \/ RunStep
    \/ KVMStep
    \/ KVMPause
    \/ KVMResume
    \/ KVMStop

\* KVMRun goes on while it is on the stack; nobody has to call anything.
Spec == Init /\ [][Next]_vars /\ WF_vars(RunStep)

-----------------------------------------------------------------------------
\* The values of the state; in a register in particular no Stray ever: the constant
\* that KVMReaderReadI32 copies from behind the program is dropped before it is used.
TypeOK ==
    /\ RuntimeTypeOK
    /\ State \in {"UNINITIALIZED", "READY", "RUNNING", "PAUSED", "HALTED", "ERROR"}
    /\ {Context, Runtime, CompileTime} \subseteq Pointer
    /\ failed \subseteq Allocations

\* Through every failure and retry of KVMInitialize and whatever stops the machine, a
\* KoboiVM holds all of its three parts or none: a retry overwrites no pointer to
\* memory that is in use, and only a machine with all parts can run.
OwnsAllOrNothing ==
    Usable =>
        \/ /\ State # "UNINITIALIZED"
           /\ {Context, Runtime, CompileTime} = {"live"}
        \/ /\ State \in {"UNINITIALIZED", "HALTED"}
           /\ "live" \notin {Context, Runtime, CompileTime}

\* No order of calls makes the machine use a NULL or a freed pointer as long as the
\* memory suffices.
FaultsFollowFailures == pc = "faulted" => failed # {}

\* The instruction pointer of a run stays within one constant of the end of the program,
\* so that with less than 2^32 - 4 bytes of bytecode it does not wrap.
PointerBound == pc = "loop" => InstructionPointer <= BytecodeSize + 4

\* Outside KVMRun nobody sees RUNNING or PAUSED: however Step, Pause, Resume and Stop
\* interrupt a run, the machine is not left in a state that accepts another one.
RunningMeansActive == Usable /\ State \in {"RUNNING", "PAUSED"} => Active

Spent == ~Active /\ State \notin {"UNINITIALIZED", "READY"}

\* A machine runs one program: once a run has ended, or KVMStop came first, no order of
\* calls starts another.
OneRun == [][Spent => Spent']_vars

\* A run ends, whatever the bytecode and however often it is paused, resumed and
\* stepped, and it leaves the machine stopped, unless it faults.
RunEnds == Active ~> (~Active /\ State \in {"HALTED", "ERROR"}) \/ pc = "faulted"
=============================================================================
