-------------------------- MODULE Precedence_proofs --------------------------
(***************************************************************************)
(* Precedence climbing groups every expression as it should, whatever its  *)
(* operators and however many there are.                                   *)
(*                                                                         *)
(* Neither property is inductive: a node is made of a Left and a Right     *)
(* that were parsed long before.  The invariant says what the activations  *)
(* have already established of the operators in between.                   *)
(***************************************************************************)
EXTENDS Precedence, TLAPS

\* An activation but the outermost began behind the operator that its caller has
\* just taken, and takes only what binds more.
FramesClimb ==
    /\ frames[1] = [minimum |-> 0, from |-> 1]
    /\ \A i \in 2..Len(frames) :
          /\ frames[i - 1].from <= frames[i].from - 1
          /\ frames[i].from <= pos
          /\ frames[i].minimum = Prec(frames[i].from - 1) + 1
          /\ frames[i - 1].minimum <= Prec(frames[i].from - 1)

\* The operators of a caller's Left bind as much as the one it has taken, or more.
LeftsBind ==
    \A i \in 1..(Len(frames) - 1) :
        \A j \in frames[i].from..(frames[i + 1].from - 2) :
            Prec(j) >= Prec(frames[i + 1].from - 1)

\* Those of the innermost Left bind as much as the next operator, or more.
TopBinds ==
    \A j \in Top.from..(pos - 1) : Prec(j) >= Prec(pos) /\ Prec(j) >= Top.minimum

\* An operator that was taken has its node, or an activation that will make it.
Covered ==
    \A i \in 1..(pos - 1) :
        \/ \E n \in nodes : n.operator = i
        \/ \E k \in 2..Len(frames) : frames[k].from - 1 = i

IInv == TypeOK /\ FramesClimb /\ LeftsBind /\ TopBinds /\ Covered /\ TreeGroups

-----------------------------------------------------------------------------
\* Only a binary operator has a precedence that is not negative.
LEMMA PrecType ==
    ASSUME operators \in Seq(Tokens), NEW i
    PROVE  /\ Prec(i) \in Int
           /\ i \in 1..Len(operators) => Prec(i) \in Nat
           /\ i \notin 1..Len(operators) => Prec(i) = -1
<1>1. CASE i \in 1..Len(operators)
  <2>1. operators[i] \in BinaryOperators
    BY <1>1, TokensAssumption
  <2>2. GetOperatorPrecedence(operators[i]) \in 1..6
    BY <2>1 DEF GetOperatorPrecedence, BinaryOperators
  <2> QED BY <1>1, <2>2 DEF Prec
<1>2. CASE i \notin 1..Len(operators)
  BY <1>2 DEF Prec
<1> QED BY <1>1, <1>2

\* What TypeOK says of the activations and the position, in the form the steps need.
LEMMA TypeFacts ==
    ASSUME TypeOK
    PROVE  /\ frames \in Seq(Frame) /\ operators \in Seq(Tokens)
           /\ Len(frames) \in Nat /\ Len(frames) >= 1 /\ Len(operators) \in Nat
           /\ pos \in Nat /\ pos >= 1 /\ pos <= Len(operators) + 1
           /\ \A i \in 1..Len(frames) : frames[i].from \in Nat /\ frames[i].minimum \in Nat
<1>1. frames \in Seq(Frame) /\ frames # <<>> /\ operators \in Seq(Tokens)
  BY DEF TypeOK
<1>2. Len(frames) \in Nat /\ Len(frames) >= 1 /\ Len(operators) \in Nat
  BY <1>1
<1>3. pos \in Nat /\ pos >= 1 /\ pos <= Len(operators) + 1
  BY <1>2 DEF TypeOK
<1>4. ASSUME NEW i \in 1..Len(frames)
      PROVE  frames[i].from \in Nat /\ frames[i].minimum \in Nat
  <2>1. frames[i] \in Frame
    BY <1>1
  <2> QED BY <2>1 DEF Frame
<1> QED BY <1>1, <1>2, <1>3, <1>4

LEMMA InitIInv == Init => IInv
<1> SUFFICES ASSUME Init PROVE IInv
  OBVIOUS
<1>1. operators \in Seq(Tokens)
  BY DEF Init
<1>2. Len(frames) = 1 /\ Top = [minimum |-> 0, from |-> 1]
  BY DEF Init, Top
<1>3. TypeOK
  BY <1>1, <1>2 DEF Init, TypeOK, Frame
<1> QED
  BY <1>1, <1>2, <1>3 DEF Init, IInv, FramesClimb, LeftsBind, TopBinds, Covered, TreeGroups

\* What Descend does to the sequence of activations.
LEMMA DescendFrames ==
    ASSUME TypeOK, Descend
    PROVE  /\ Len(frames') = Len(frames) + 1
           /\ Top' = [minimum |-> Prec(pos) + 1, from |-> pos + 1]
           /\ frames'[Len(frames) + 1] = Top'
           /\ \A i \in 1..Len(frames) : frames'[i] = frames[i]
BY DEF TypeOK, Descend, Top

LEMMA DescendIInv == ASSUME IInv, Descend PROVE IInv'
<1> DEFINE L == Len(frames)
<1>0. /\ L \in Nat /\ L >= 1 /\ frames \in Seq(Frame) /\ operators \in Seq(Tokens)
      /\ pos \in Nat /\ Len(operators) \in Nat /\ pos <= Len(operators) + 1 /\ pos >= 1
      /\ \A i \in 1..L : frames[i].from \in Nat /\ frames[i].minimum \in Nat
  BY TypeFacts DEF IInv
<1>1. /\ Len(frames') = L + 1
      /\ Top' = [minimum |-> Prec(pos) + 1, from |-> pos + 1]
      /\ frames'[L + 1] = Top'
      /\ \A i \in 1..L : frames'[i] = frames[i]
  BY DescendFrames DEF IInv
<1>2. operators' = operators /\ nodes' = nodes /\ pos' = pos + 1
  BY DEF Descend
<1>3. \A i : Prec(i)' = Prec(i)
  BY <1>2 DEF Prec
<1>4. \A i : Prec(i) \in Int /\ (i \in 1..Len(operators) => Prec(i) \in Nat)
             /\ (i \notin 1..Len(operators) => Prec(i) = -1)
  BY <1>0, PrecType
<1>5. Prec(pos) >= Top.minimum /\ Top = frames[L] /\ Top.minimum \in Nat
  BY <1>0 DEF Descend, Top
<1>6. pos \in 1..Len(operators) /\ Prec(pos) \in Nat
  <2>1. Prec(pos) # -1
    BY <1>4, <1>5
  <2> QED BY <2>1, <1>4
<1> HIDE DEF L
<1>7. TypeOK'
  <2>1. frames' \in Seq(Frame) /\ frames' # <<>>
    <3>1. [minimum |-> Prec(pos) + 1, from |-> pos + 1] \in Frame
      BY <1>0, <1>6 DEF Frame
    <3> QED BY <3>1, <1>0 DEF Descend
  <2> QED BY <2>1, <1>2, <1>6, <1>0 DEF IInv, TypeOK
<1>8. FramesClimb'
  <2>1. frames'[1] = [minimum |-> 0, from |-> 1]
    BY <1>0, <1>1 DEF IInv, FramesClimb
  <2>2. ASSUME NEW i \in 2..Len(frames')
        PROVE  /\ frames'[i - 1].from <= frames'[i].from - 1
               /\ frames'[i].from <= pos'
               /\ frames'[i].minimum = Prec(frames'[i].from - 1) + 1
               /\ frames'[i - 1].minimum <= Prec(frames'[i].from - 1)
    <3>1. CASE i <= L
      <4>1. i \in 2..L /\ i - 1 \in 1..L /\ frames'[i] = frames[i]
            /\ frames'[i - 1] = frames[i - 1]
        BY <3>1, <1>0, <1>1
      <4>2. /\ frames[i - 1].from <= frames[i].from - 1
            /\ frames[i].from <= pos
            /\ frames[i].minimum = Prec(frames[i].from - 1) + 1
            /\ frames[i - 1].minimum <= Prec(frames[i].from - 1)
        BY <4>1 DEF IInv, FramesClimb, L
      <4>3. frames[i].from \in Nat
        BY <4>1, <1>0
      <4> QED BY <4>1, <4>2, <4>3, <1>0, <1>2
    <3>2. CASE i = L + 1
      <4>1. frames'[i] = [minimum |-> Prec(pos) + 1, from |-> pos + 1]
            /\ frames'[i - 1] = frames[L]
        BY <3>2, <1>0, <1>1
      <4>2. frames[L].from <= pos
        <5>1. CASE L = 1
          BY <5>1, <1>0 DEF IInv, FramesClimb
        <5>2. CASE L # 1
          BY <5>2, <1>0 DEF IInv, FramesClimb, L
        <5> QED BY <5>1, <5>2
      <4> QED BY <4>1, <4>2, <1>0, <1>2, <1>5, <1>6
    <3> QED BY <3>1, <3>2, <1>0, <1>1
  <2> QED BY <2>1, <2>2, <1>3 DEF FramesClimb
<1>9. LeftsBind'
  <2> SUFFICES ASSUME NEW i \in 1..(Len(frames') - 1),
                      NEW j \in frames'[i].from..(frames'[i + 1].from - 2)
               PROVE  Prec(j) >= Prec(frames'[i + 1].from - 1)
    BY <1>3 DEF LeftsBind
  <2>1. CASE i < L
    <3>1. i \in 1..(L - 1) /\ i \in 1..L /\ i + 1 \in 1..L
      BY <2>1, <1>0, <1>1
    <3>2. frames'[i] = frames[i] /\ frames'[i + 1] = frames[i + 1]
      BY <3>1, <1>1
    <3> QED BY <3>1, <3>2 DEF IInv, LeftsBind, L
  <2>2. CASE i = L
    <3>1. frames'[i] = Top /\ frames'[i + 1].from = pos + 1
      BY <2>2, <1>0, <1>1, <1>5
    <3>2. j \in Top.from..(pos - 1)
      BY <3>1, <1>0, <1>5
    <3> QED BY <3>1, <3>2, <1>0 DEF IInv, TopBinds
  <2> QED BY <2>1, <2>2, <1>0, <1>1
<1>10. TopBinds'
  BY <1>0, <1>1, <1>2 DEF TopBinds
<1>11. Covered'
  <2> SUFFICES ASSUME NEW i \in 1..(pos' - 1)
               PROVE  \/ \E n \in nodes : n.operator = i
                      \/ \E k \in 2..Len(frames') : frames'[k].from - 1 = i
    BY <1>2 DEF Covered
  <2>1. CASE i = pos
    <3>1. L + 1 \in 2..Len(frames') /\ frames'[L + 1].from - 1 = i
      BY <2>1, <1>0, <1>1
    <3> QED BY <3>1
  <2>2. CASE i \in 1..(pos - 1)
    <3>1. CASE \E n \in nodes : n.operator = i
      BY <3>1
    <3>2. CASE \E k \in 2..Len(frames) : frames[k].from - 1 = i
      <4>1. PICK k \in 2..Len(frames) : frames[k].from - 1 = i
        BY <3>2
      <4>2. k \in 2..Len(frames') /\ frames'[k] = frames[k]
        BY <4>1, <1>0, <1>1 DEF L
      <4> QED BY <4>1, <4>2
    <3> QED BY <2>2, <3>1, <3>2 DEF IInv, Covered
  <2> QED BY <2>1, <2>2, <1>0, <1>2
<1>12. TreeGroups'
  BY <1>2, <1>3 DEF IInv, TreeGroups, Groups
<1> QED BY <1>7, <1>8, <1>9, <1>10, <1>11, <1>12 DEF IInv

\* What Return does to it.
LEMMA ReturnFrames ==
    ASSUME TypeOK, Return
    PROVE  /\ frames' \in Seq(Frame)
           /\ Len(frames') = Len(frames) - 1
           /\ Top' = frames[Len(frames) - 1]
           /\ \A i \in 1..(Len(frames) - 1) : frames'[i] = frames[i]
BY DEF TypeOK, Return, Top

LEMMA ReturnIInv == ASSUME IInv, Return PROVE IInv'
<1> DEFINE L == Len(frames)
           node == [operator |-> Top.from - 1, from |-> frames[L - 1].from, to |-> pos]
<1>0. /\ L \in Nat /\ L > 1 /\ frames \in Seq(Frame) /\ operators \in Seq(Tokens)
      /\ pos \in Nat /\ Len(operators) \in Nat /\ pos <= Len(operators) + 1 /\ pos >= 1
      /\ \A i \in 1..L : frames[i].from \in Nat /\ frames[i].minimum \in Nat
  BY TypeFacts DEF IInv, Return
<1>1. /\ frames' \in Seq(Frame)
      /\ Len(frames') = L - 1
      /\ Top' = frames[L - 1]
      /\ \A i \in 1..(L - 1) : frames'[i] = frames[i]
  BY ReturnFrames DEF IInv
<1>2. operators' = operators /\ pos' = pos /\ nodes' = nodes \cup {node}
  BY DEF Return
<1>3. \A i : Prec(i)' = Prec(i)
  BY <1>2 DEF Prec
<1>4. \A i : Prec(i) \in Int
  BY <1>0, PrecType
<1>5. Prec(pos) < Top.minimum /\ Top = frames[L]
  BY DEF Return, Top
<1>6. /\ frames[L - 1].from <= Top.from - 1
      /\ Top.from <= pos
      /\ Top.minimum = Prec(Top.from - 1) + 1
      /\ frames[L - 1].minimum <= Prec(Top.from - 1)
  BY <1>0, <1>5 DEF IInv, FramesClimb, L
<1>7. \A j \in frames[L - 1].from..(Top.from - 2) : Prec(j) >= Prec(Top.from - 1)
  <2>1. L - 1 \in 1..(L - 1) /\ (L - 1) + 1 = L
    BY <1>0
  <2> QED BY <2>1, <1>5 DEF IInv, LeftsBind, L
<1>8. \A j \in Top.from..(pos - 1) : Prec(j) >= Prec(pos) /\ Prec(j) >= Top.minimum
  BY DEF IInv, TopBinds
<1>9. Top.from \in Nat /\ frames[L - 1].from \in Nat /\ frames[L - 1].minimum \in Nat
  BY <1>0, <1>5
<1>10. frames[L - 1].from >= 1
  <2>1. CASE L = 2
    BY <2>1, <1>0 DEF IInv, FramesClimb
  <2>2. CASE L > 2
    <3>1. L - 1 \in 2..L /\ (L - 1) - 1 \in 1..L
      BY <2>2, <1>0
    <3>2. frames[(L - 1) - 1].from <= frames[L - 1].from - 1
      BY <3>1 DEF IInv, FramesClimb, L
    <3>3. frames[(L - 1) - 1].from \in Nat
      BY <3>1, <1>0
    <3> QED BY <3>2, <3>3, <1>9
  <2>3. L = 2 \/ L > 2
    <3>1. L \in Nat /\ L > 1
      BY <1>0
    <3> HIDE DEF L
    <3> QED BY <3>1
  <2> QED BY <2>1, <2>2, <2>3
<1> HIDE DEF L
<1>11. TypeOK'
  <2>1. node \in Node
    BY <1>0, <1>6, <1>9, <1>10 DEF Node
  <2>2. frames' # <<>>
    BY <1>0, <1>1
  <2> HIDE DEF node
  <2> QED BY <2>1, <2>2, <1>0, <1>1, <1>2 DEF IInv, TypeOK
<1>12. FramesClimb'
  <2>1. frames'[1] = [minimum |-> 0, from |-> 1]
    BY <1>0, <1>1 DEF IInv, FramesClimb
  <2>2. ASSUME NEW i \in 2..Len(frames')
        PROVE  /\ frames'[i - 1].from <= frames'[i].from - 1
               /\ frames'[i].from <= pos'
               /\ frames'[i].minimum = Prec(frames'[i].from - 1) + 1
               /\ frames'[i - 1].minimum <= Prec(frames'[i].from - 1)
    <3>1. i \in 2..L /\ frames'[i] = frames[i] /\ frames'[i - 1] = frames[i - 1]
      BY <1>0, <1>1
    <3> QED BY <3>1, <1>2 DEF IInv, FramesClimb, L
  <2> QED BY <2>1, <2>2, <1>3 DEF FramesClimb
<1>13. LeftsBind'
  <2> SUFFICES ASSUME NEW i \in 1..(Len(frames') - 1),
                      NEW j \in frames'[i].from..(frames'[i + 1].from - 2)
               PROVE  Prec(j) >= Prec(frames'[i + 1].from - 1)
    BY <1>3 DEF LeftsBind
  <2>1. i \in 1..(L - 1) /\ frames'[i] = frames[i] /\ frames'[i + 1] = frames[i + 1]
    BY <1>0, <1>1
  <2> QED BY <2>1 DEF IInv, LeftsBind, L
<1>14. TopBinds'
  <2> SUFFICES ASSUME NEW j \in frames[L - 1].from..(pos - 1)
               PROVE  Prec(j) >= Prec(pos) /\ Prec(j) >= frames[L - 1].minimum
    BY <1>1, <1>2, <1>3 DEF TopBinds
  <2>1. Prec(pos) <= Prec(Top.from - 1)
    BY <1>4, <1>5, <1>6
  <2>2. CASE j < Top.from - 1
    BY <2>1, <2>2, <1>4, <1>6, <1>7, <1>9
  <2>3. CASE j = Top.from - 1
    BY <2>1, <2>3, <1>4, <1>6, <1>9
  <2>4. CASE j > Top.from - 1
    BY <2>4, <1>0, <1>4, <1>6, <1>8, <1>9
  <2> QED BY <2>2, <2>3, <2>4, <1>9
<1>15. Covered'
  <2> SUFFICES ASSUME NEW i \in 1..(pos - 1)
               PROVE  \/ \E n \in nodes' : n.operator = i
                      \/ \E k \in 2..Len(frames') : frames'[k].from - 1 = i
    BY <1>2 DEF Covered
  <2>1. CASE \E n \in nodes : n.operator = i
    BY <2>1, <1>2
  <2>2. CASE \E k \in 2..Len(frames) : frames[k].from - 1 = i
    <3>1. PICK k \in 2..Len(frames) : frames[k].from - 1 = i
      BY <2>2
    <3>2. CASE k = L
      <4>1. node.operator = i
        BY <3>1, <3>2, <1>5
      <4> QED BY <4>1, <1>2
    <3>3. CASE k # L
      <4>1. k \in 2..Len(frames') /\ frames'[k] = frames[k]
        BY <3>1, <3>3, <1>0, <1>1 DEF L
      <4> QED BY <3>1, <4>1
    <3> QED BY <3>2, <3>3
  <2> QED BY <2>1, <2>2 DEF IInv, Covered
<1>16. TreeGroups'
  <2>1. Groups(node)
    <3>1. \A j \in (Top.from - 1 + 1)..(pos - 1) : Prec(j) > Prec(Top.from - 1)
      BY <1>4, <1>6, <1>8, <1>9, <1>0
    <3>2. frames[L - 1].from > 1 => Prec(frames[L - 1].from - 1) < Prec(Top.from - 1)
      <4> SUFFICES ASSUME frames[L - 1].from > 1
                   PROVE  Prec(frames[L - 1].from - 1) < Prec(Top.from - 1)
        OBVIOUS
      <4>1. L - 1 # 1
        BY <1>0 DEF IInv, FramesClimb
      <4>2. L - 1 \in 2..L
        BY <4>1, <1>0
      <4>3. frames[L - 1].minimum = Prec(frames[L - 1].from - 1) + 1
        BY <4>2 DEF IInv, FramesClimb, L
      <4> QED BY <4>3, <1>4, <1>6
    <3>3. Prec(pos) <= Prec(Top.from - 1)
      BY <1>4, <1>5, <1>6
    <3>4. Top.from - 1 \in frames[L - 1].from..(pos - 1)
      BY <1>0, <1>6, <1>9
    <3> QED BY <3>1, <3>2, <3>3, <3>4, <1>7, <1>9 DEF Groups
  <2> HIDE DEF node
  <2> SUFFICES ASSUME NEW n \in nodes' PROVE Groups(n)'
    BY DEF TreeGroups
  <2>2. Groups(n)
    BY <2>1, <1>2 DEF IInv, TreeGroups
  <2> QED BY <2>2, <1>3 DEF Groups
<1> QED BY <1>11, <1>12, <1>13, <1>14, <1>15, <1>16 DEF IInv

LEMMA StutterIInv == ASSUME IInv, UNCHANGED vars PROVE IInv'
BY DEF IInv, vars, TypeOK, FramesClimb, LeftsBind, TopBinds, Covered, TreeGroups,
       Groups, Prec, Top

-----------------------------------------------------------------------------
\* The invariant holds in every state of every parse.
LEMMA Invariance == Spec => []IInv
<1>1. Init => IInv
  BY InitIInv
<1>2. IInv /\ [Next]_vars => IInv'
  BY DescendIInv, ReturnIInv, StutterIInv DEF Next
<1> QED BY <1>1, <1>2, PTL DEF Spec

\* Type correctness: the parse stays within the operators, and never leaves the
\* activation it began with.
THEOREM TypeCorrect == Spec => []TypeOK
<1>1. IInv => TypeOK
  BY DEF IInv
<1> QED BY <1>1, Invariance, PTL

\* ParseBinaryFromLeft groups by precedence, and from the left what has the same.
THEOREM Grouping == Spec => []TreeGroups
<1>1. IInv => TreeGroups
  BY DEF IInv
<1> QED BY <1>1, Invariance, PTL

\* When ParseExpression returns, every operator of the expression is in its tree.
THEOREM Complete == Spec => []TreeComplete
<1>1. IInv => TreeComplete
  <2> SUFFICES ASSUME IInv, Prec(pos) < Top.minimum, Len(frames) = 1,
                      NEW i \in 1..Len(operators)
               PROVE  \E n \in nodes : n.operator = i
    BY DEF TreeComplete
  <2>1. Top.minimum = 0
    BY DEF IInv, FramesClimb, Top
  <2>2. pos \in Nat /\ pos >= 1 /\ pos <= Len(operators) + 1 /\ Len(operators) \in Nat
    BY TypeFacts DEF IInv
  <2>3. pos \notin 1..Len(operators)
    <3>1. pos \in 1..Len(operators) => Prec(pos) \in Nat
      BY PrecType DEF IInv, TypeOK
    <3> QED BY <2>1, <3>1
  <2>4. i \in 1..(pos - 1)
    BY <2>2, <2>3
  <2> QED BY <2>4 DEF IInv, Covered
<1> QED BY <1>1, Invariance, PTL

=============================================================================
