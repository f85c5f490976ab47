------------------------------- MODULE Koboi --------------------------------
(***************************************************************************)
(* main of compiler/CLI/Koboi.c: which stage runs after which outcome of   *)
(* the stages before it.                                                   *)
(*                                                                         *)
(* The machine is that of KVM.tla, whose actions main calls one after the  *)
(* other.  The stages in front of it are their outcomes, as the modules    *)
(* Lexer and Parser have them: TokenizeEnds, RecursionConsumes, ParserEnds *)
(* and NullOnlyAfterError say which there are.  To these come the          *)
(* allocations that nobody tests, of every stage, and the C stack, which a *)
(* program of any length may need more of than there is.                   *)
(***************************************************************************)
EXTENDS KVM

VARIABLES
    stage,           \* the call of main that is next, or how main ended
    status,          \* what main returned
    HasError,        \* of the Parser
    nullKept,        \* a node of the AST that is lowered holds a NULL statement
    machine,         \* __KOBOI_VIRTUAL_MACHINE__ # NULL
    bytecode,        \* __KOBOI_VIRTUAL_MACHINE_BYTECODE__, which nothing assigns
    trouble          \* history: what no stage recovers from

mainVars == <<stage, status, HasError, nullKept, machine, bytecode, trouble>>
machineVars == <<runtimeVars, kvmVars>>

Ended == {"exited", "faulted", "endless"}
Stages == {"read", "tokenize", "parse", "lower", "check", "create", "initialize",
           "run", "running", "free"} \cup Ended
Troubles == {"source", "lone quote", "line start", "memory", "stack", "bytecode"}

Goto(then) == stage' = then /\ UNCHANGED <<status, trouble>>
\* Mutant: an error is -1.
ExitMinusOne(code) == stage' = "exited" /\ status' = -code /\ UNCHANGED trouble

Exit(code) == stage' = "exited" /\ status' = code /\ UNCHANGED trouble
Fault(cause) ==
    stage' = "faulted" /\ trouble' = trouble \cup cause /\ UNCHANGED status
Front == UNCHANGED <<machineVars, machine, bytecode>>
Syntax == UNCHANGED <<HasError, nullKept>>

-----------------------------------------------------------------------------
(* The front end *)

MainInit ==
    /\ Init
    /\ stage = "read" /\ status = 0
    /\ HasError = FALSE /\ nullKept = FALSE
    /\ machine = FALSE /\ trouble = {}
    \* Uninitialised: NULL, no address that can be read, or by chance one that can.
    /\ bytecode \in {"null", "wild", "readable"}

\* Without an argument or a file main returns; ReadFile does not test its malloc.
ReadFile ==
    /\ stage = "read"
    /\ Exit(1) \/ Goto("tokenize") \/ Fault({"source"})
    /\ Front /\ Syntax

\* The Lexer's HasError is looked at by nobody.  A diagnostic at the beginning of a line
\* makes PrintDiagnostics fault.
Tokenize ==
    /\ stage = "tokenize"
    /\ \/ Goto("parse") \/ Goto("endless")
       \/ \E cause \in {"lone quote", "line start", "memory"} : Fault({cause})
    /\ Front /\ Syntax

\* XMalloc and XCalloc exit when memory is refused; what realloc returns is not tested.
ParseProgram ==
    /\ stage = "parse"
    /\ HasError' \in BOOLEAN /\ nullKept' \in BOOLEAN /\ (nullKept' => HasError')
    /\ \/ Goto("lower") \/ Goto("endless") \/ Exit(1)
       \/ \E cause \in {"memory", "stack"} : Fault({cause})
    /\ Front

\* LowerStatement reads the Kind of a NULL statement; neither the tape nor what Emit
\* extends it by is tested.  A chain of operators, which the parser reads in a loop, is
\* lowered by recursion.
LowerSS ==
    /\ stage = "lower"
    /\ \/ nullKept /\ Fault({})
       \/ ~nullKept /\ Goto("check")
       \/ \E cause \in {"memory", "stack"} : Fault({cause})
    /\ Front /\ Syntax

\* Mutant: the errors of the parser are not looked at.
CheckErrorNever ==
    stage = "check" /\ (Goto("create") \/ Fault({"memory"})) /\ Front /\ Syntax

\* CreateContext, whose malloc is not tested, precedes the test of HasError;
\* AnalyzeProgram is commented out.
CheckError ==
    /\ stage = "check"
    /\ \/ HasError /\ Exit(1)
       \/ ~HasError /\ Goto("create")
       \/ Fault({"memory"})
    /\ Front /\ Syntax

-----------------------------------------------------------------------------
(* The machine: what its functions return is not looked at *)

\* KVMCreate, whose malloc may fail: every function accepts the NULL it then returns.
Create ==
    /\ stage = "create"
    /\ machine' \in BOOLEAN
    /\ Goto("initialize")
    /\ Syntax /\ UNCHANGED <<machineVars, bytecode>>

\* main goes on when KVMInitialize fails, unless that faults.
Initialize ==
    /\ stage = "initialize"
    /\ IF machine THEN KVMInitialize ELSE UNCHANGED machineVars
    /\ IF pc' = "faulted" THEN Fault({}) ELSE Goto("run")
    /\ Syntax /\ UNCHANGED <<machine, bytecode>>

\* KVMRun returns for a NULL, and in the state of a machine that is not READY.
Refused == ~machine \/ bytecode = "null" \/ State # "READY"

Run ==
    /\ stage = "run"
    /\ \/ Refused /\ Goto("free") /\ UNCHANGED machineVars
       \/ ~Refused /\ bytecode = "wild" /\ Fault({"bytecode"}) /\ UNCHANGED machineVars
       \/ ~Refused /\ bytecode = "readable" /\ KVMRun /\ Goto("running")
    /\ Syntax /\ UNCHANGED <<machine, bytecode>>

\* What is readable by chance is no bytecode: its Data may be an address that cannot be
\* read, and its Size so near to 2^32, more than MaxSize, that the pointer wraps.
Astray ==
    /\ pc = "loop" /\ Running /\ InstructionPointer < BytecodeSize
    /\ Fault({"bytecode"}) \/ Goto("endless")
    /\ UNCHANGED machineVars

Execute ==
    /\ stage = "running"
    /\ \/ /\ RunStep
          /\ CASE pc' = "faulted" -> Fault({})
               [] pc' = "idle"    -> Goto("free")
               [] OTHER           -> Goto("running")
       \/ Astray
    /\ Syntax /\ UNCHANGED <<machine, bytecode>>

\* free(Source), and 0 whatever became of the program.
Free ==
    /\ stage = "free"
    /\ Exit(0)
    /\ Front /\ Syntax

MainNext ==
    \/ ReadFile \/ Tokenize \/ ParseProgram \/ LowerSS \/ CheckError
    \/ Create \/ Initialize \/ Run \/ Execute \/ Free

\* One thread, which waits for nothing.
MainSpec ==
    MainInit /\ [][MainNext]_<<machineVars, mainVars>>
        /\ WF_<<machineVars, mainVars>>(MainNext)

-----------------------------------------------------------------------------
(* Properties *)

\* The types of main's variables, and those of the machine.
MainTypeOK ==
    /\ TypeOK
    /\ stage \in Stages /\ status \in {0, 1}
    /\ {HasError, nullKept, machine} \subseteq BOOLEAN
    /\ bytecode \in {"null", "wild", "readable"} /\ trouble \subseteq Troubles

\* main goes on without a test of most of what its stages return.  When it faults, then at
\* a source that cannot be held, at a lone quote or a misplaced diagnostic, at memory or
\* stack that is refused, at the pointer that nothing assigns, or at the AST of a program
\* that was reported.  Otherwise the AST can be lowered, and however KVMCreate and
\* KVMInitialize fail, the machine is not used when it is not there: of its allocations
\* only the compile-time machine's matters; the registers, of which main has none, do not.
FaultsExplained ==
    stage = "faulted"
        => trouble # {} \/ (HasError /\ nullKept) \/ "CompileTimeKVM" \in failed

\* A program with a syntax error never gets as far as the machine, and main says so.
RejectedNeverRuns ==
    HasError => State = "UNINITIALIZED" /\ ~Active /\ (stage = "exited" => status = 1)

\* main comes to an end, whatever each stage does, if the lexer, the parser and a run of
\* memory that is no bytecode do: otherwise it is "endless".
MainEnds == <>(stage \in Ended)
=============================================================================
