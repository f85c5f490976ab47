--------------------------- MODULE OwnershipPaths ---------------------------
(***************************************************************************)
(* The ownership analysis against the control flow of its tape.            *)
(*                                                                         *)
(* SSSS reads the tape once, from the top; a machine that executes it goes *)
(* back at the end of a loop and leaves out the branches that are not      *)
(* taken.  This module lowers ifs and whiles around STOREs and MOVEs as    *)
(* SyntaxTape does, lets SSSS analyse every instruction, and executes the  *)
(* tape.  Scopes, which both of them respect, are left out.                *)
(***************************************************************************)
EXTENDS SSSS

CONSTANT MaxNesting   \* bound: ifs and whiles open at once

ASSUME NestingAssumption == MaxNesting \in Nat

VARIABLES
    tape,         \* Program->Instructions
    labels,       \* LabelCounter
    constructs,   \* the open ifs and whiles, innermost first
    ip,           \* the instruction to be executed
    values,       \* what has become of each variable
    jumped        \* history: control has left the order of the tape

pathVars == <<tape, labels, constructs, ip, values, jumped>>

I(op, write, read, label) == [op |-> op, write |-> write, read |-> read, label |-> label]
Label(l) == I("LABEL", None, None, l)
Jump(l) == I("JMP", None, None, l)
JumpIfNot(l) == I("JMP_IF_NOT", None, None, l)

-----------------------------------------------------------------------------
(* Lowering, with the analysis of what is emitted *)

Emit(code) == tape' = tape \o code
Lowering == UNCHANGED <<ip, values, jumped>>

EmitStore ==
    /\ \E x \in Names, y \in Operands :
          AnalyzeStore(x, y) /\ Emit(<<I("STORE", x, y, 0)>>)
    /\ Lowering /\ UNCHANGED <<labels, constructs>>

EmitMove ==
    /\ \E y \in Names : AnalyzeMove(y) /\ Emit(<<I("MOVE", None, y, 0)>>)
    /\ Lowering /\ UNCHANGED <<labels, constructs>>

\* The condition is a constant or a register: no variable is read.
Open(kind, code) ==
    /\ Len(constructs) < MaxNesting
    /\ AnalyzeDefault("JMP_IF_NOT", None)
    /\ Emit(code)
    /\ constructs' = <<[kind |-> kind, label |-> labels]>> \o constructs
    /\ labels' = labels + 2
    /\ Lowering

LowerWhile == Open("while", <<Label(labels), JumpIfNot(labels + 1)>>)
LowerIf == Open("if", <<JumpIfNot(labels)>>)

\* LABEL and JMP are no cases of AnalyzeProgram.
Close ==
    /\ ~done /\ constructs # <<>>
    /\ LET l == Head(constructs).label
       IN  Emit(IF Head(constructs).kind = "while"
                THEN <<Jump(l), Label(l + 1)>>
                ELSE <<Jump(l + 1), Label(l), Label(l + 1)>>)
    /\ constructs' = Tail(constructs)
    /\ Lowering /\ UNCHANGED <<vars, labels>>

EndOfTape ==
    /\ constructs = <<>>
    /\ Finish
    /\ UNCHANGED pathVars

-----------------------------------------------------------------------------
(* Execution *)

LabelAt(l) == CHOOSE i \in DOMAIN tape : tape[i] = Label(l)

Executing(ops) == done /\ ip <= Len(tape) /\ tape[ip].op \in ops
Ahead == ip' = ip + 1 /\ UNCHANGED jumped
Executed == UNCHANGED <<vars, tape, labels, constructs>>

ExecuteStore ==
    /\ Executing({"STORE"})
    /\ values' = [values EXCEPT ![tape[ip].write] = "owned"]
    /\ Ahead /\ Executed

ExecuteMove ==
    /\ Executing({"MOVE"})
    /\ values' = [values EXCEPT ![tape[ip].read] = "moved"]
    /\ Ahead /\ Executed

\* Past a LABEL, and past a conditional jump that is not taken.
Pass ==
    /\ Executing({"LABEL", "JMP_IF_NOT"})
    /\ Ahead /\ Executed /\ UNCHANGED values

\* Only a jump over nothing but labels keeps to the order of the tape.
TakeJump ==
    /\ Executing({"JMP", "JMP_IF_NOT"})
    /\ ip' = LabelAt(tape[ip].label)
    /\ jumped' = (jumped \/ ip' < ip \/ \E i \in (ip + 1)..ip' : tape[i].op # "LABEL")
    /\ Executed /\ UNCHANGED values

-----------------------------------------------------------------------------
PathInit ==
    /\ Init
    /\ tape = <<>> /\ labels = 0 /\ constructs = <<>>
    /\ ip = 1 /\ jumped = FALSE
    /\ values = [x \in Names |-> "absent"]

PathNext ==
    \/ EmitStore \/ EmitMove \/ LowerWhile \/ LowerIf \/ Close \/ EndOfTape
    \/ ExecuteStore \/ ExecuteMove \/ Pass \/ TakeJump

PathSpec == PathInit /\ [][PathNext]_<<vars, pathVars>>

-----------------------------------------------------------------------------
(* Properties *)

\* The variable that is read next, but by an assignment to itself, which the analysis
\* looks at when it already owns it.
ReadNext ==
    IF ip <= Len(tape) /\ tape[ip].read # tape[ip].write THEN {tape[ip].read} \cap Names
                                                         ELSE {}

Accepted == done /\ ErrorCount = 0

\* A program that AnalyzeProgram accepts reads no variable it does not own as long as
\* control keeps to the order of the tape: through every if whose branch is taken
\* and the first round of every loop, whatever the variables are moved to and stored.
StraightPathsOwned == Accepted /\ ~jumped => \A y \in ReadNext : values[y] = "owned"
=============================================================================
