-------------------------------- MODULE SSSS --------------------------------
(***************************************************************************)
(* The ownership analysis, compiler/Middleend/Semantics/SSSS.c.            *)
(* AnalyzeProgram reads the tape once, from left to right, and keeps one   *)
(* flat table of symbols next to the current scope depth.                  *)
(*                                                                         *)
(* The tape is the environment's choice: each step reads one more          *)
(* instruction that SS.c can emit, with SCOPE_BEGIN and SCOPE_END nested   *)
(* as BracketsNest of TapeFlow.tla says they are.  An operand is its       *)
(* variable, or None when it is a register, a constant, a label or absent. *)
(*                                                                         *)
(* Left out because nothing reads them: WarningCount (naming conventions), *)
(* and UseCount and the linear and const checks, because every symbol is   *)
(* added with SSSS_TRAIT_NORMAL.                                           *)
(***************************************************************************)
EXTENDS Integers, Sequences

CONSTANTS
    Names,             \* the variables of the program
    None,              \* an operand that is not a variable
    DepthModulus,      \* 2^32 for the uint32_t CurrentScopeDepth
    MaxInstructions,   \* bound: instructions analysed
    MaxDepth           \* bound: scopes open at once

ASSUME NoneAssumption == None \notin Names
ASSUME DepthAssumption ==
    MaxDepth \in Nat /\ DepthModulus \in Nat /\ MaxDepth < DepthModulus
ASSUME InstructionsAssumption == MaxInstructions \in Nat

VARIABLES
    Symbols,             \* Context->Symbols[0 .. SymbolCount-1]
    CurrentScopeDepth,
    ErrorCount,
    open,                \* SCOPE_BEGINs of the tape without their SCOPE_END so far
    analysed,            \* instructions but SCOPE_END read so far (only a bound)
    done                 \* AnalyzeProgram has returned

vars == <<Symbols, CurrentScopeDepth, ErrorCount, open, analysed, done>>

Operands == Names \cup {None}
LifecycleStates == {"UNINITIALIZED", "OWNED", "MOVED", "FREED"}
Symbol == [Name : Names, State : LifecycleStates, ScopeDepth : 0..(DepthModulus - 1)]

TypeOK ==
    /\ Symbols \in Seq(Symbol)
    /\ CurrentScopeDepth \in 0..(DepthModulus - 1)
    /\ ErrorCount \in Nat
    /\ open \in 0..MaxDepth
    /\ analysed \in Nat
    /\ done \in BOOLEAN

-----------------------------------------------------------------------------
(* The symbol table *)

Positions(table, x) == {i \in 1..Len(table) : table[i].Name = x}

\* The last entry of the name, 0 for NULL.
FindSymbol(table, x) ==
    IF Positions(table, x) = {} THEN 0
    ELSE CHOOSE i \in Positions(table, x) : \A j \in Positions(table, x) : j <= i

\* Mutant: the symbol is always declared at top level.
AddSymbolGlobal(table, x) ==
    Append(table, [Name |-> x, State |-> "UNINITIALIZED", ScopeDepth |-> 0])

AddSymbol(table, x) ==
    Append(table, [Name |-> x, State |-> "UNINITIALIZED", ScopeDepth |-> CurrentScopeDepth])

SetState(table, x, state) ==
    IF FindSymbol(table, x) = 0 THEN table
    ELSE [table EXCEPT ![FindSymbol(table, x)].State = state]

\* A STORE declares its variable the first time.
Store(table, x) ==
    IF x = None THEN table
    ELSE SetState(IF FindSymbol(table, x) = 0 THEN AddSymbol(table, x) ELSE table, x, "OWNED")

\* The number of errors CheckOperandRead reports.
CheckOperandRead(table, x) ==
    CASE x = None -> 0
      [] x # None /\ FindSymbol(table, x) = 0 -> 1
      [] OTHER -> IF table[FindSymbol(table, x)].State = "OWNED" THEN 0 ELSE 1

\* HandleScopeEnd's loop stops with k symbols left: it removes symbols from the end
\* as long as they are of the current depth.
LoopStopsAt(k) ==
    /\ k > 0 => Symbols[k].ScopeDepth # CurrentScopeDepth
    /\ \A i \in (k + 1)..Len(Symbols) : Symbols[i].ScopeDepth = CurrentScopeDepth

\* Mutants: the loop removes at most one symbol; the depth goes below zero.
HandleScopeEndOne ==
    /\ Symbols' = IF LoopStopsAt(Len(Symbols)) THEN Symbols
                  ELSE SubSeq(Symbols, 1, Len(Symbols) - 1)
    /\ CurrentScopeDepth' = (CurrentScopeDepth - 1) % DepthModulus
HandleScopeEndSigned ==
    /\ \E k \in 0..Len(Symbols) : LoopStopsAt(k) /\ Symbols' = SubSeq(Symbols, 1, k)
    /\ CurrentScopeDepth' = CurrentScopeDepth - 1

HandleScopeEnd ==
    /\ \E k \in 0..Len(Symbols) : LoopStopsAt(k) /\ Symbols' = SubSeq(Symbols, 1, k)
    /\ CurrentScopeDepth' = (CurrentScopeDepth - 1) % DepthModulus

-----------------------------------------------------------------------------
Init ==
    /\ Symbols = <<>>
    /\ CurrentScopeDepth = 0
    /\ ErrorCount = 0
    /\ open = 0
    /\ analysed = 0
    /\ done = FALSE

\* AnalyzeProgram takes the next instruction.  SCOPE_ENDs are not counted: the tape
\* closes every scope it opens.
Instruction ==
    /\ ~done
    /\ analysed < MaxInstructions
    /\ analysed' = analysed + 1
    /\ UNCHANGED done

ScopeBegin ==
    /\ Instruction
    /\ open < MaxDepth
    /\ open' = open + 1
    /\ CurrentScopeDepth' = (CurrentScopeDepth + 1) % DepthModulus
    /\ UNCHANGED <<Symbols, ErrorCount>>

ScopeEnd ==
    /\ ~done
    /\ open > 0
    /\ open' = open - 1
    /\ HandleScopeEnd
    /\ UNCHANGED <<ErrorCount, analysed, done>>

\* STORE x, y: the destination is owned before the source is looked at.
AnalyzeStore(x, y) ==
    /\ Instruction
    /\ Symbols' = Store(Symbols, x)
    /\ ErrorCount' = ErrorCount + CheckOperandRead(Symbols', y)
    /\ UNCHANGED <<CurrentScopeDepth, open>>

\* Mutant: what is moved stays owned.
AnalyzeMoveKept(y) ==
    /\ Instruction
    /\ ErrorCount' = ErrorCount + CheckOperandRead(Symbols, y)
    /\ UNCHANGED <<Symbols, CurrentScopeDepth, open>>

\* MOVE r, y and the FREE that LowerOwnership emits after it.  FREE carries y as
\* its Destination while AnalyzeProgram looks at Source1, so it changes nothing.
AnalyzeMove(y) ==
    /\ Instruction
    /\ ErrorCount' = ErrorCount + CheckOperandRead(Symbols, y)
    /\ Symbols' = SetState(Symbols, y, "MOVED")
    /\ UNCHANGED <<CurrentScopeDepth, open>>

\* ADD, SUB, MUL and DIV.
AnalyzeArithmetic(y, z) ==
    /\ Instruction
    /\ ErrorCount' = ErrorCount + CheckOperandRead(Symbols, y) + CheckOperandRead(Symbols, z)
    /\ UNCHANGED <<Symbols, CurrentScopeDepth, open>>

\* The instructions with a variable operand that the switch has no case for.
DefaultOps == {"ARG", "RET", "COPY", "ADDR_OF", "PARAM", "JMP_IF_NOT", "EQ"}
AnalyzeDefault(op, y) ==
    /\ op \in DefaultOps
    /\ Instruction
    /\ UNCHANGED <<Symbols, CurrentScopeDepth, ErrorCount, open>>

\* The tape has ended; the symbols of depth 0 go, and the depth wraps around.
Finish ==
    /\ ~done
    /\ open = 0
    /\ done' = TRUE
    /\ IF CurrentScopeDepth = 0 /\ Symbols # <<>>
       THEN HandleScopeEnd
       ELSE UNCHANGED <<Symbols, CurrentScopeDepth>>
    /\ UNCHANGED <<ErrorCount, open, analysed>>

\* The caller has the verdict.
Returned == done /\ UNCHANGED vars

Next ==
    \/ ScopeBegin \/ ScopeEnd
    \/ \E x, y \in Operands : AnalyzeStore(x, y) \/ AnalyzeArithmetic(x, y)
    \/ \E y \in Operands : AnalyzeMove(y)
    \/ \E op \in DefaultOps, y \in Operands : AnalyzeDefault(op, y)
    \/ Finish \/ Returned

Spec == Init /\ [][Next]_vars

-----------------------------------------------------------------------------
(* Properties *)

\* The table is the stack of open scopes laid end to end, as HandleScopeEnd relies
\* on when it stops at the first symbol of another depth: depths never decrease
\* along the table, none is deeper than the scope being read, no name occurs
\* twice, and CurrentScopeDepth is the nesting of the tape.
SymbolTable ==
    /\ \A i, j \in 1..Len(Symbols) : i < j =>
          /\ Symbols[i].ScopeDepth <= Symbols[j].ScopeDepth
          /\ Symbols[i].Name # Symbols[j].Name
    /\ \A i \in 1..Len(Symbols) : Symbols[i].State \in {"OWNED", "MOVED"}
    /\ ~done => CurrentScopeDepth = open
    /\ ~done => \A i \in 1..Len(Symbols) : Symbols[i].ScopeDepth <= CurrentScopeDepth
    /\ done => Symbols = <<>>

\* The table as the stack of scopes it stands for.
StateIn(table, d, n) ==
    LET entries == {i \in Positions(table, n) : table[i].ScopeDepth = d}
    IN IF entries = {} THEN "absent"
       ELSE IF \E i \in entries : table[i].State = "OWNED" THEN "owned" ELSE "moved"
ScopeStack ==
    IF done THEN <<>>
    ELSE [d \in 1..(CurrentScopeDepth + 1) |-> [n \in Names |-> StateIn(Symbols, d - 1, n)]]

Scoped == INSTANCE Scopes WITH scopes <- ScopeStack, reports <- ErrorCount

\* AnalyzeProgram keeps the scopes of the program: a symbol lives exactly as long
\* as the scope it was declared in, an assignment or a move reaches the binding
\* that is visible, and ErrorCount counts exactly the reads by STORE, MOVE, ADD,
\* SUB, MUL and DIV of a variable that is not owned.
ScopesRespected == Scoped!Spec
=============================================================================
