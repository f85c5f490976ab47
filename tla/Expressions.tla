---------------------------- MODULE Expressions -----------------------------
(***************************************************************************)
(* How compiler/Middleend/SyntaxTapeS/SS.c lowers expressions:             *)
(* LowerExpression walks the tree in postorder and returns the operand     *)
(* that holds its value.  SyntaxTape.tla has the statements around them.   *)
(*                                                                         *)
(* The expression is the environment's choice, node by node.  `work' is    *)
(* what the open activations still have to do, the innermost first, and    *)
(* `operands' the SSOperands they have got so far, the latest first.       *)
(*                                                                         *)
(* An operand is a temporary register, a variable or a constant; which     *)
(* constant, member or operator is left out.  So is EXPR_MEMBER and the    *)
(* branch for Binary.IsAssignment, which the parser never makes.           *)
(***************************************************************************)
EXTENDS Integers, Sequences

CONSTANTS
    Names,      \* the variables
    MaxNodes    \* bound: statements and expressions with operands of their own

ASSUME BoundAssumption == MaxNodes \in Nat

VARIABLES
    tape,               \* Program->Instructions
    TemporaryCounter,   \* static: it goes on through the whole program
    work,
    operands,
    bases,              \* history: the registers of array literals
    targets,            \* history: the operands a match compares with
    nodes               \* nodes chosen so far (only a bound)

kept == <<bases, targets>>
vars == <<tape, TemporaryCounter, work, operands, kept, nodes>>

Register(n) == [type |-> "register", of |-> n]
Variable(v) == [type |-> "variable", of |-> v]
Constant == [type |-> "constant", of |-> 0]
None == [type |-> "none", of |-> 0]
Operand ==
    [type : {"register"}, of : Nat] \cup [type : {"variable"}, of : Names]
    \cup {Constant, None}
IsRegister(o) == o.type = "register"

\* The opcodes emitted here.  "BINARY", "UNARY" and "TEST" stand for all those with such
\* operands: of an operator, and of JMP_IF_NOT, RET, CHECK, ASSUME and the like.
SSOp == {"BINARY", "UNARY", "EQ", "LOAD_MEM", "STORE_MEM", "STORE", "MOVE", "COPY", "FREE",
         "ARG", "CALL", "CALL_INDIRECT", "TEST"}
\* `write' is the Destination, but where that is read: by ARG, RET, FREE and STORE_MEM.
Instruction == [op : SSOp, write : Operand, read : Seq(Operand)]
I(op, write, read) == [op |-> op, write |-> write, read |-> read]

\* "COPY" stands for COPY and ADDR_OF, which leave their operand as it is.
OwnershipKinds == {"MOVE", "COPY"}

\* What an activation does next, and with which operand of before.
Tasks ==
    {"expression", "target", "binary", "unary", "member", "index", "arguments", "argument",
     "call", "elements", "element", "test", "drop", "declare", "assign", "assign_member",
     "assign_index", "match", "arms", "arm", "body"} \cup OwnershipKinds
WorkItem == [do : Tasks, at : Operand]
Item(what, at) == [do |-> what, at |-> at]
Do(what) == Item(what, None)
Expression == Do("expression")
Target == Do("target")      \* an assignment's, which is no index and no member

-----------------------------------------------------------------------------
(* Activations *)

Result == Register(TemporaryCounter)

\* Mutant: the counter stays where it is.
NewTemporaryAgain == UNCHANGED TemporaryCounter

NewTemporary == TemporaryCounter' = TemporaryCounter + 1

Doing(what) == work # <<>> /\ Head(work).do = what
Opening == Doing("expression") \/ Doing("target")
Then(items) == work' = items \o Tail(work)
Without(n) == SubSeq(operands, n + 1, Len(operands))
Emit(code) == tape' = tape \o code

\* The activation takes n operands, emits code and returns an operand.
Return(n, code, operand) ==
    /\ Emit(code)
    /\ operands' = <<operand>> \o Without(n)
    /\ Then(<<>>)
    /\ UNCHANGED <<targets, nodes>>

\* The same for a statement or a loop's iteration, which returns nothing.
Finish(n, code) ==
    /\ Emit(code)
    /\ operands' = Without(n)
    /\ Then(<<>>)
    /\ UNCHANGED <<TemporaryCounter, kept, nodes>>

\* One instruction, its result in a new register.
Compute(n, op, read) ==
    Return(n, <<I(op, Result, read)>>, Result) /\ NewTemporary /\ UNCHANGED bases

Open(items) ==
    /\ nodes < MaxNodes
    /\ nodes' = nodes + 1
    /\ Then(items)
    /\ UNCHANGED <<tape, operands>>

-----------------------------------------------------------------------------
(* Expressions *)

\* Mutant: no case for a literal.
LowerLeafUnhandled ==
    /\ Opening
    /\ \E o \in {None} \cup {Variable(v) : v \in Names} : Return(0, <<>>, o)
    /\ UNCHANGED <<TemporaryCounter, bases>>

\* EXPR_LITERAL and EXPR_IDENTIFIER: the variable, not its value.
LowerLeaf ==
    /\ Opening
    /\ \E o \in {Constant} \cup {Variable(v) : v \in Names} : Return(0, <<>>, o)
    /\ UNCHANGED <<TemporaryCounter, bases>>

OpenExpression ==
    /\ \/ Opening /\ \E items \in {<<Expression, Expression, Do("binary")>>,
                                   <<Expression, Do("unary")>>, <<Do("arguments")>>}
                            \cup {<<Expression, Do(k)>> : k \in OwnershipKinds} :
             Open(items)
       \/ Doing("expression") /\ Open(<<Expression, Expression, Do("index")>>)
       \/ Doing("expression") /\ Open(<<Expression, Do("member")>>)
    /\ UNCHANGED <<TemporaryCounter, kept>>

LowerBinary == Doing("binary") /\ Compute(2, "BINARY", <<operands[2], operands[1]>>)
LowerMember == Doing("member") /\ Compute(1, "LOAD_MEM", <<operands[1]>>)

\* Mutant: the register is returned, and no instruction emitted.
LowerUnaryUnhandled == Doing("unary") /\ Return(1, <<>>, Result) /\ NewTemporary
                           /\ UNCHANGED bases

LowerUnary == Doing("unary") /\ Compute(1, "UNARY", <<operands[1]>>)
LowerIndex == Doing("index") /\ Compute(2, "LOAD_MEM", <<operands[2], operands[1]>>)

\* Mutant: a move returns the operand it has moved.
LowerOwnershipKept ==
    /\ Doing("MOVE")
    /\ Return(1, <<I("MOVE", Result, <<operands[1]>>)>>, operands[1])
    /\ NewTemporary /\ UNCHANGED bases

LowerOwnership ==
    \/ /\ Doing("MOVE")
       /\ Return(1, <<I("MOVE", Result, <<operands[1]>>),
                      I("FREE", None, <<operands[1]>>)>>, Result)
       /\ NewTemporary /\ UNCHANGED bases
    \/ Doing("COPY") /\ Compute(1, "COPY", <<operands[1]>>)

\* The arguments are lowered one by one, the callee after them.
LowerCall ==
    \/ /\ Doing("arguments")
       /\ \/ Open(<<Expression, Do("argument"), Do("arguments")>>)
          \/ Then(<<Expression, Do("call")>>) /\ UNCHANGED <<tape, operands, nodes>>
       /\ UNCHANGED <<TemporaryCounter, kept>>
    \/ Doing("argument") /\ Finish(1, <<I("ARG", None, <<operands[1]>>)>>)
    \/ /\ Doing("call")
       /\ Compute(1, IF operands[1].type = "variable" THEN "CALL" ELSE "CALL_INDIRECT",
                  <<operands[1]>>)

\* Nothing is emitted that gives the array's register a value.
LowerArrayExpression ==
    \/ /\ Opening
       /\ Open(<<Item("elements", Result)>>)
       /\ NewTemporary
       /\ bases' = bases \cup {Result} /\ UNCHANGED targets
    \/ /\ Doing("elements")
       /\ Open(<<Expression, Item("element", Head(work).at), Head(work)>>)
       /\ UNCHANGED <<TemporaryCounter, kept>>
    \/ Doing("elements") /\ Return(0, <<>>, Head(work).at) /\ UNCHANGED <<TemporaryCounter, bases>>
    \/ /\ Doing("element")
       /\ Finish(1, <<I("STORE_MEM", None, <<Head(work).at, operands[1]>>)>>)

-----------------------------------------------------------------------------
(* The statements that hold expressions *)

\* At the top level, and in the body of an arm.
OpenStatement ==
    /\ work = <<>> \/ Doing("body")
    /\ nodes < MaxNodes
    /\ nodes' = nodes + 1
    /\ \E items \in {<<Expression, Do(k)>> : k \in {"test", "drop", "match"}}
            \cup {<<Target, Expression, Do("assign")>>,
                  <<Expression, Expression, Do("assign_member")>>,
                  <<Expression, Expression, Expression, Do("assign_index")>>}
            \cup {<<Expression, Item("declare", Variable(v))>> : v \in Names} :
          work' = items \o work
    /\ UNCHANGED <<tape, TemporaryCounter, operands, kept>>

\* A declaration with an initializer and the start and the step of a for.
LowerVariableDeclaration ==
    Doing("declare") /\ Finish(1, <<I("STORE", Head(work).at, <<operands[1]>>)>>)

LowerAssign ==
    \/ Doing("assign") /\ Finish(2, <<I("STORE", operands[2], <<operands[1]>>)>>)
    \/ /\ Doing("assign_member")
       /\ Finish(2, <<I("STORE_MEM", None, <<operands[2], operands[1]>>)>>)
    \/ /\ Doing("assign_index")
       /\ Finish(3, <<I("STORE_MEM", None, <<operands[3], operands[1], operands[2]>>)>>)

\* What return, if, while, for, check, assume and a guard do with their expression,
\* and what a statement does that is an expression.
LowerCondition ==
    \/ Doing("test") /\ Finish(1, <<I("TEST", None, <<operands[1]>>)>>)
    \/ Doing("drop") /\ Finish(1, <<>>)

\* The target is lowered once and compared with in every arm that has a pattern.
LowerMatch ==
    \/ /\ Doing("match")
       /\ Then(<<Item("arms", operands[1])>>)
       /\ operands' = Without(1)
       /\ targets' = targets \cup {operands[1]}
       /\ UNCHANGED <<tape, TemporaryCounter, bases, nodes>>
    \/ /\ Doing("arms")
       /\ \/ \E pattern \in {<<>>, <<Expression, Item("arm", Head(work).at)>>} :
                Open(pattern \o <<Do("body"), Head(work)>>)
          \/ Then(<<>>) /\ UNCHANGED <<tape, operands, nodes>>
       /\ UNCHANGED <<TemporaryCounter, kept>>
    \/ /\ Doing("arm")
       /\ Emit(<<I("EQ", Result, <<Head(work).at, operands[1]>>),
                 I("TEST", None, <<Result>>)>>)
       /\ NewTemporary
       /\ operands' = Without(1)
       /\ Then(<<>>)
       /\ UNCHANGED <<kept, nodes>>
    \/ Doing("body") /\ Finish(0, <<>>)

Init ==
    /\ tape = <<>> /\ TemporaryCounter = 0
    /\ work = <<>> /\ operands = <<>>
    /\ bases = {} /\ targets = {} /\ nodes = 0

Next ==
    \/ LowerLeaf \/ OpenExpression \/ LowerBinary \/ LowerMember \/ LowerUnary
    \/ LowerIndex \/ LowerOwnership \/ LowerCall \/ LowerArrayExpression
    \/ OpenStatement \/ LowerVariableDeclaration \/ LowerAssign \/ LowerCondition
    \/ LowerMatch

Spec == Init /\ [][Next]_vars

-----------------------------------------------------------------------------
(* Properties *)

\* The types of the variables; the operand that LowerExpression returns is never the
\* empty one of its default case.
TypeOK ==
    /\ tape \in Seq(Instruction)
    /\ TemporaryCounter \in Nat
    /\ operands \in Seq(Operand \ {None})
    /\ work \in Seq(WorkItem)
    /\ bases \subseteq Operand /\ targets \subseteq Operand

\* Register r is given its value at i.
Computes(i, r) == tape[i].write = r /\ tape[i].op # "STORE"
Reads(i, r) == \E k \in DOMAIN tape[i].read : tape[i].read[k] = r

\* Whatever the nesting, an instruction reads a register only behind the one that
\* computes it.  The register of an array literal is computed nowhere.
DefinedBeforeUse ==
    \A i \in DOMAIN tape : \A k \in DOMAIN tape[i].read :
        LET r == tape[i].read[k]
        IN  IsRegister(r) /\ r \notin bases => \E j \in 1..(i - 1) : Computes(j, r)

\* No register is computed twice, in one expression or in two, though the counter is
\* taken at the start of an array and at the end of everything else.
ComputedOnce ==
    \A i, j \in DOMAIN tape : \A r \in {tape[i].write} :
        IsRegister(r) /\ Computes(i, r) /\ Computes(j, r) => i = j

\* A register holds one operand of one instruction: after that it is free, but for
\* the FREE that follows a MOVE, for the register of an array and for the target of a
\* match, which all arms read whatever their patterns and bodies use meanwhile.
ReadOnce ==
    \A i, j \in DOMAIN tape : \A k \in DOMAIN tape[i].read :
        LET r == tape[i].read[k]
        IN  IsRegister(r) /\ r \notin bases \cup targets /\ i < j /\ Reads(j, r)
                => tape[i].op = "MOVE" /\ j = i + 1

=============================================================================
