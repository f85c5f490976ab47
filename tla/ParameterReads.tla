--------------------------- MODULE ParameterReads ---------------------------
(***************************************************************************)
(* The analysis of SSSS.tla on the tapes of subprograms with parameters.   *)
(*                                                                         *)
(* LowerSubprogram of SS.c opens the scope of a subprogram outside of all  *)
(* others and emits a PARAM for each parameter right behind SCOPE_BEGIN.   *)
(* The tape remembers, as history, which variables those are: a program    *)
(* may read them until it moves them.                                      *)
(***************************************************************************)
EXTENDS SSSS

VARIABLES
    heading,      \* history: behind the SCOPE_BEGIN of a subprogram, or its PARAMs
    parameters,   \* history: the parameters of the subprogram that were not moved
    faultless     \* history: the program read nothing but what it may

parameterVars == <<heading, parameters, faultless>>

Owned(y) == FindSymbol(Symbols, y) # 0 /\ Symbols[FindSymbol(Symbols, y)].State = "OWNED"

\* An operand that the program may read: no variable, a parameter, or what it owns.
MayRead(y) == y = None \/ y \in parameters \/ Owned(y)

\* An instruction of a body, which reads the operands given and moves those of `moved'.
Body(reads, moved) ==
    /\ heading' = FALSE
    /\ parameters' = parameters \ moved
    /\ faultless' = (faultless /\ \A y \in reads : MayRead(y))

ParameterInit ==
    /\ Init
    /\ heading = FALSE /\ parameters = {} /\ faultless = TRUE

BeginScope ==
    /\ ScopeBegin
    /\ heading' = (open = 0)
    /\ UNCHANGED <<parameters, faultless>>

Param(x) ==
    /\ heading
    /\ AnalyzeDefault("PARAM", x)
    /\ parameters' = parameters \cup {x}
    /\ UNCHANGED <<heading, faultless>>

EndScope ==
    /\ ScopeEnd
    /\ heading' = FALSE
    /\ parameters' = IF open' = 0 THEN {} ELSE parameters
    /\ UNCHANGED faultless

ParameterNext ==
    \/ BeginScope \/ EndScope
    \/ \E x \in Names : Param(x)
    \/ \E y, z \in Operands : AnalyzeArithmetic(y, z) /\ Body({y, z}, {})
    \/ \E x, y \in Operands : AnalyzeStore(x, y) /\ Body({y}, {})
    \/ \E y \in Operands : AnalyzeMove(y) /\ Body({y}, {y})
    \/ \E op \in DefaultOps \ {"PARAM"}, y \in Operands : AnalyzeDefault(op, y) /\ Body({y}, {})
    \/ (Finish \/ Returned) /\ UNCHANGED parameterVars

ParameterSpec == ParameterInit /\ [][ParameterNext]_<<vars, parameterVars>>

-----------------------------------------------------------------------------
(* Property *)

\* tests/FunctionArithmetic.kb:3 computes with the parameters of a subprogram: a program
\* that reads only its parameters and what it owns is not reported, however it declares,
\* moves and shadows them.
NoFalseErrors == faultless => ErrorCount = 0
=============================================================================
