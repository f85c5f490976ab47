----------------------------- MODULE Precedence -----------------------------
(***************************************************************************)
(* Which tree ParseExpression of compiler/Frontend/Parser/Parser.c builds  *)
(* of  x1 o1 x2 o2 ... on xn+1  where every x is what ParseUnary parses.   *)
(* Parser.tla has the tokens it consumes.                                  *)
(*                                                                         *)
(* Position i is the token behind xi.  A frame is an activation of         *)
(* ParseBinaryFromLeft, whose Left begins with x[from]; the tree is its    *)
(* binary nodes, each with its operator and the first and the last x.      *)
(***************************************************************************)
EXTENDS Integers, Sequences

CONSTANTS
    Tokens,         \* the operators an expression may have
    MaxOperators    \* bound: the operators of an expression

BinaryOperators == {"or", "and", "==", "!=", "<", "<=", ">", ">=",
                    "+", "-", "*", "/", "%"}

ASSUME TokensAssumption == Tokens \subseteq BinaryOperators
ASSUME MaxOperatorsAssumption == MaxOperators \in Nat

VARIABLES
    operators,   \* o1 ... on
    pos,         \* the token behind the last x parsed
    frames,      \* the activations, outermost first
    nodes        \* the expressions made by NewExpression(EXPR_BINARY)

vars == <<operators, pos, frames, nodes>>

GetOperatorPrecedence(token) ==
    CASE token = "or" -> 1
      [] token = "and" -> 2
      [] token \in {"==", "!="} -> 3
      [] token \in {"<", "<=", ">", ">="} -> 4
      [] token \in {"+", "-"} -> 5
      [] token \in {"*", "/", "%"} -> 6

\* Mutant: what is no operator has precedence 0.
PrecZero(i) == IF i \in 1..Len(operators) THEN GetOperatorPrecedence(operators[i]) ELSE 0

\* Behind the last operand there is no operator.
Prec(i) == IF i \in 1..Len(operators) THEN GetOperatorPrecedence(operators[i]) ELSE -1

Frame == [minimum : Nat, from : Nat]
Node == [operator : Nat, from : Nat, to : Nat]
Top == frames[Len(frames)]

TypeOK ==
    /\ operators \in Seq(Tokens)
    /\ pos \in 1..(Len(operators) + 1)
    /\ frames \in Seq(Frame) /\ frames # <<>>
    /\ nodes \subseteq Node

-----------------------------------------------------------------------------
\* ParseExpression calls ParseBinary with 0, which has parsed x1.
Init ==
    /\ \E n \in 0..MaxOperators : operators \in [1..n -> Tokens]
    /\ pos = 1
    /\ frames = <<[minimum |-> 0, from |-> 1]>>
    /\ nodes = {}

\* Mutant: the operand takes the operators of the same precedence, too.
DescendSame ==
    /\ Prec(pos) >= Top.minimum
    /\ frames' = Append(frames, [minimum |-> Prec(pos), from |-> pos + 1])
    /\ pos' = pos + 1
    /\ UNCHANGED <<operators, nodes>>

\* The operator binds: the operand behind it is parsed and what binds more follows.
Descend ==
    /\ Prec(pos) >= Top.minimum
    /\ frames' = Append(frames, [minimum |-> Prec(pos) + 1, from |-> pos + 1])
    /\ pos' = pos + 1
    /\ UNCHANGED <<operators, nodes>>

\* Mutant: the node takes the place of the Left it should hold.
ReturnWithoutLeft ==
    /\ Prec(pos) < Top.minimum
    /\ Len(frames) > 1
    /\ nodes' = {n \in nodes : n.from # frames[Len(frames) - 1].from}
                    \cup {[operator |-> Top.from - 1,
                           from |-> frames[Len(frames) - 1].from, to |-> pos]}
    /\ frames' = SubSeq(frames, 1, Len(frames) - 1)
    /\ UNCHANGED <<operators, pos>>

\* The loop breaks; the caller makes a node of its Left and what is returned.
Return ==
    /\ Prec(pos) < Top.minimum
    /\ Len(frames) > 1
    /\ nodes' = nodes \cup {[operator |-> Top.from - 1,
                             from |-> frames[Len(frames) - 1].from, to |-> pos]}
    /\ frames' = SubSeq(frames, 1, Len(frames) - 1)
    /\ UNCHANGED <<operators, pos>>

Next == Descend \/ Return
Spec == Init /\ [][Next]_vars

-----------------------------------------------------------------------------
(* Properties *)

\* What a node should be: the operators to the left of its own bind as much or more,
\* those to its right bind more, and neither neighbour of the whole belongs to it.
Groups(n) ==
    /\ n.operator \in n.from..(n.to - 1)
    /\ \A j \in n.from..(n.operator - 1) : Prec(j) >= Prec(n.operator)
    /\ \A j \in (n.operator + 1)..(n.to - 1) : Prec(j) > Prec(n.operator)
    /\ n.from > 1 => Prec(n.from - 1) < Prec(n.operator)
    /\ Prec(n.to) <= Prec(n.operator)

\* Precedence climbing groups by precedence and from the left.
TreeGroups == \A n \in nodes : Groups(n)

\* It returns with a node for every operator.
TreeComplete ==
    Prec(pos) < Top.minimum /\ Len(frames) = 1
        => \A i \in 1..Len(operators) : \E n \in nodes : n.operator = i

=============================================================================
