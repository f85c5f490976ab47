-------------------------- MODULE SyntaxTape_proofs --------------------------
(***************************************************************************)
(* Theorems about SyntaxTape, for every program and every LOOP_STACK_MAX.  *)
(***************************************************************************)
EXTENDS SyntaxTape, SequenceTheorems, TLAPS

(***************************************************************************)
(* Sequences used as stacks.                                               *)
(***************************************************************************)
LEMMA PopTop ==
    ASSUME NEW S, NEW s \in Seq(S), s # <<>>
    PROVE  /\ Len(s) >= 1
           /\ Top(s) \in S
           /\ Pop(s) \in Seq(S)
           /\ Len(Pop(s)) = Len(s) - 1
           /\ \A i \in 1..(Len(s) - 1) : Pop(s)[i] = s[i]
<1>1. Len(s) \in Nat /\ Len(s) >= 1
  BY EmptySeq, LenProperties
<1>2. Top(s) \in S
  BY <1>1, ElementOfSeq DEF Top
<1>3. \A i \in 1..(Len(s) - 1) : s[i] \in S
  BY <1>1, ElementOfSeq
<1>4. /\ SubSeq(s, 1, Len(s) - 1) \in Seq(S)
      /\ Len(SubSeq(s, 1, Len(s) - 1)) =
             IF 1 <= Len(s) - 1 THEN Len(s) - 1 - 1 + 1 ELSE 0
      /\ \A i \in 1..(Len(s) - 1 - 1 + 1) :
             SubSeq(s, 1, Len(s) - 1)[i] = s[1 + i - 1]
  BY <1>1, <1>3, SubSeqProperties
<1>5. \A i \in 1..(Len(s) - 1) : Pop(s)[i] = s[i]
  <2>. SUFFICES ASSUME NEW i \in 1..(Len(s) - 1)
                PROVE  SubSeq(s, 1, Len(s) - 1)[i] = s[i]
    BY DEF Pop
  <2>1. i \in 1..(Len(s) - 1 - 1 + 1) /\ 1 + i - 1 = i
    BY <1>1
  <2>. QED
    BY <2>1, <1>4
<1>6. Pop(s) \in Seq(S)
  BY <1>4, Zenon DEF Pop
<1>7. Len(Pop(s)) = Len(s) - 1
  <2>1. ASSUME NEW n \in Nat, n >= 1
        PROVE  (IF 1 <= n - 1 THEN n - 1 - 1 + 1 ELSE 0) = n - 1
    BY <2>1
  <2>. QED
    BY <1>1, <1>4, <2>1, Zenon DEF Pop
<1>. QED
  BY <1>1, <1>2, <1>5, <1>6, <1>7

\* What Append does to a stack.
LEMMA AppendTop ==
    ASSUME NEW S, NEW s \in Seq(S), NEW e \in S
    PROVE  /\ Append(s, e) \in Seq(S)
           /\ Len(Append(s, e)) = Len(s) + 1
           /\ Append(s, e)[Len(s) + 1] = e
           /\ \A i \in 1..Len(s) : Append(s, e)[i] = s[i]
OBVIOUS

(***************************************************************************)
(* What the helpers return.                                                *)
(***************************************************************************)
LEMMA PlainInstruction ==
    ASSUME NEW op \in Plain
    PROVE  I(op) \in Instruction
BY DEF I, Instruction

\* LABELs and jumps are instructions.
LEMMA LabelInstruction ==
    ASSUME NEW op \in {"LABEL", "JMP", "JMP_IF_NOT"}, NEW l \in Label
    PROVE  J(op, l) \in Instruction
BY DEF J, Instruction

\* The brackets of a region are instructions.
LEMMA RegionInstruction ==
    ASSUME NEW op \in {"REGION_BEGIN", "REGION_END"}, NEW region \in Regions
    PROVE  J(op, region) \in Instruction
BY DEF J, Instruction

\* Emitting one instruction keeps the tape a sequence of instructions.
LEMMA EmitOne ==
    ASSUME TypeOK, NEW a \in Instruction, Emit(<<a>>)
    PROVE  tape' \in Seq(Instruction)
<1>1. <<a>> \in Seq(Instruction)
  OBVIOUS
<1>. QED
  BY <1>1, ConcatProperties DEF TypeOK, Emit

\* So does emitting two.
LEMMA EmitTwo ==
    ASSUME TypeOK, NEW a \in Instruction, NEW b \in Instruction, Emit(<<a, b>>)
    PROVE  tape' \in Seq(Instruction)
<1>1. <<a, b>> \in Seq(Instruction)
  OBVIOUS
<1>. QED
  BY <1>1, ConcatProperties DEF TypeOK, Emit

\* A new activation is a frame.
LEMMA ActivationType ==
    ASSUME NEW kind \in FrameKinds, NEW label \in Nat, NEW end \in Nat
    PROVE  Activation(kind, label, end) \in Frame
BY DEF Activation, Frame

\* Lowering a statement changes only the returned flag of the innermost frame.
LEMMA LoweredFrames ==
    ASSUME TypeOK, NEW isReturn \in BOOLEAN
    PROVE  /\ Lowered(isReturn) \in Seq(Frame)
           /\ Len(Lowered(isReturn)) = Len(frames)
           /\ \A i \in 1..Len(frames) :
                  /\ Lowered(isReturn)[i].kind = frames[i].kind
                  /\ Lowered(isReturn)[i].label = frames[i].label
                  /\ Lowered(isReturn)[i].end = frames[i].end
<1>1. CASE frames = <<>>
  BY <1>1 DEF Lowered
<1>2. CASE frames # <<>>
  <2>. DEFINE top == frames[Len(frames)]
              new == [top EXCEPT !.returned = isReturn]
  <2>1. frames \in Seq(Frame) /\ Len(frames) \in 1..Len(frames) /\ top \in Frame
    BY <1>2, PopTop, LenProperties DEF TypeOK, Top
  <2>2. new \in Frame /\ new.kind = top.kind /\ new.label = top.label /\ new.end = top.end
    BY <2>1 DEF Frame
  <2>3. Lowered(isReturn) = [frames EXCEPT ![Len(frames)] = new]
    BY <1>2 DEF Lowered
  <2>. HIDE DEF new
  <2>4. /\ Lowered(isReturn) \in Seq(Frame)
        /\ Len(Lowered(isReturn)) = Len(frames)
        /\ \A j \in 1..Len(frames) :
               Lowered(isReturn)[j] = IF j = Len(frames) THEN new ELSE frames[j]
    BY <2>1, <2>2, <2>3, ExceptSeq
  <2>. QED
    BY <2>2, <2>4
<1>. QED
  BY <1>1, <1>2

\* Statement keeps the counters in their types.
LEMMA StatementType ==
    ASSUME TypeOK, NEW kind, Statement(kind)
    PROVE  part' \in {"statements", "subprograms", "done"} /\ lowered' \in Nat
BY DEF TypeOK, Statement

\* Entering a construct keeps frames a stack of frames.
LEMMA OpenType ==
    ASSUME TypeOK, NEW kind \in FrameKinds, NEW label \in Nat, NEW end \in Nat,
           Open(kind, label, end)
    PROVE  frames' \in Seq(Frame)
BY LoweredFrames, ActivationType, AppendTop DEF Open

\* Leaving a construct keeps frames a stack of frames.
LEMMA CloseType ==
    ASSUME TypeOK, NEW kind, Close(kind)
    PROVE  /\ frames' \in Seq(Frame)
           /\ part' \in {"statements", "subprograms", "done"}
           /\ lowered' \in Nat
           /\ Top(frames).label \in Nat
           /\ Top(frames).end \in Nat
<1>1. Top(frames) \in Frame /\ Pop(frames) \in Seq(Frame)
  BY PopTop DEF TypeOK, Close
<1>. QED
  BY <1>1 DEF TypeOK, Close, Frame

\* PushLoop never exceeds LOOP_STACK_MAX.
LEMMA PushLoopType ==
    ASSUME TypeOK, NEW start \in Nat, NEW end \in Nat, PushLoop(start, end)
    PROVE  LoopStack' \in Seq(Loop) /\ Len(LoopStack') <= LoopStackMax
<1>1. [start |-> start, end |-> end] \in Loop
  BY DEF Loop
<1>2. CASE Len(LoopStack) < LoopStackMax
  <2>1. LoopStack' = Append(LoopStack, [start |-> start, end |-> end])
    BY <1>2 DEF PushLoop
  <2>. QED
    BY <1>1, <1>2, <2>1, AppendTop, LenProperties, LoopStackMaxAssumption DEF TypeOK
<1>3. CASE ~(Len(LoopStack) < LoopStackMax)
  BY <1>3 DEF TypeOK, PushLoop
<1>. QED
  BY <1>2, <1>3

\* PopLoop leaves a stack of pairs that is no longer.
LEMMA PopLoopType ==
    ASSUME TypeOK, PopLoop
    PROVE  LoopStack' \in Seq(Loop) /\ Len(LoopStack') <= LoopStackMax
<1>1. CASE LoopStack = <<>>
  BY <1>1 DEF TypeOK, PopLoop
<1>2. CASE LoopStack # <<>>
  <2>1. Pop(LoopStack) \in Seq(Loop) /\ Len(Pop(LoopStack)) = Len(LoopStack) - 1
    BY <1>2, PopTop DEF TypeOK
  <2>. QED
    BY <1>2, <2>1, LoopStackMaxAssumption, LenProperties DEF TypeOK, PopLoop
<1>. QED
  BY <1>1, <1>2

\* break and continue emit an instruction.
LEMMA LeaveToType ==
    ASSUME TypeOK, NEW side \in {"start", "end"}
    PROVE  LeaveTo(side) \in Instruction
<1>1. CASE LoopStack = <<>>
  BY <1>1, PlainInstruction DEF LeaveTo, Plain
<1>2. CASE LoopStack # <<>>
  <2>1. Top(LoopStack) \in Loop
    BY <1>2, PopTop DEF TypeOK
  <2>2. Top(LoopStack)[side] \in Label
    BY <2>1 DEF Loop, Label
  <2>. QED
    BY <1>2, <2>2, LabelInstruction DEF LeaveTo
<1>. QED
  BY <1>1, <1>2

(***************************************************************************)
(* Type correctness, one lemma for each group of Lower functions.          *)
(***************************************************************************)
LEMMA NextLabels ==
    ASSUME TypeOK
    PROVE  /\ LabelCounter \in Nat /\ LabelCounter + 1 \in Nat /\ LabelCounter + 2 \in Nat
           /\ LabelCounter \in Label /\ LabelCounter + 1 \in Label
BY DEF TypeOK, Label

\* Statements without a body keep the types.
LEMMA SimpleType ==
    ASSUME TypeOK,
           LowerStraight \/ LowerReturn \/ LowerBreak \/ LowerContinue
    PROVE  TypeOK'
<1>1. Lowered(TRUE) \in Seq(Frame) /\ Lowered(FALSE) \in Seq(Frame)
  BY LoweredFrames
<1>2. CASE LowerStraight
  BY <1>1, <1>2, StatementType DEF LowerStraight, TypeOK
<1>3. CASE LowerReturn
  <2>1. I("RET") \in Instruction
    BY PlainInstruction DEF Plain
  <2>2. tape' \in Seq(Instruction)
    BY <1>3, <2>1, EmitOne, EmitTwo DEF LowerReturn
  <2>. QED
    BY <1>1, <1>3, <2>2, StatementType DEF LowerReturn, TypeOK
<1>4. CASE LowerBreak
  <2>1. tape' \in Seq(Instruction)
    BY <1>4, LeaveToType, EmitOne, EmitTwo DEF LowerBreak
  <2>. QED
    BY <1>1, <1>4, <2>1, StatementType DEF LowerBreak, TypeOK
<1>5. CASE LowerContinue
  <2>1. tape' \in Seq(Instruction)
    BY <1>5, LeaveToType, EmitOne, EmitTwo DEF LowerContinue
  <2>. QED
    BY <1>1, <1>5, <2>1, StatementType DEF LowerContinue, TypeOK
<1>. QED
  BY <1>2, <1>3, <1>4, <1>5

\* The three steps of LowerIf keep the types.
LEMMA IfType ==
    ASSUME TypeOK, LowerIf \/ LowerElse \/ EndIf
    PROVE  TypeOK'
<1>1. CASE LowerIf
  <2>1. J("JMP_IF_NOT", LabelCounter) \in Instruction
    BY NextLabels, LabelInstruction
  <2>2. tape' \in Seq(Instruction)
    BY <1>1, <2>1, EmitOne, EmitTwo DEF LowerIf
  <2>3. frames' \in Seq(Frame)
    BY <1>1, NextLabels, OpenType DEF LowerIf, FrameKinds
  <2>. QED
    BY <1>1, <2>2, <2>3, NextLabels, StatementType DEF LowerIf, NewLabels, TypeOK
<1>2. CASE LowerElse
  <2>1. Top(frames) \in Frame /\ Pop(frames) \in Seq(Frame)
    BY <1>2, PopTop DEF TypeOK, LowerElse
  <2>2. Top(frames).label \in Nat /\ Top(frames).end \in Nat
    BY <2>1 DEF Frame
  <2>3. /\ J("JMP", Top(frames).end) \in Instruction
        /\ J("LABEL", Top(frames).label) \in Instruction
    BY <2>2, LabelInstruction DEF Label
  <2>4. tape' \in Seq(Instruction)
    BY <1>2, <2>3, EmitOne, EmitTwo DEF LowerElse
  <2>5. Activation("else", Top(frames).label, Top(frames).end) \in Frame
    BY <2>2, ActivationType DEF FrameKinds
  <2>. QED
    BY <1>2, <2>1, <2>4, <2>5, AppendTop DEF LowerElse, TypeOK
<1>3. CASE EndIf
  <2>1. J("LABEL", Top(frames).end) \in Instruction
    BY <1>3, CloseType, LabelInstruction DEF EndIf, Label
  <2>2. tape' \in Seq(Instruction)
    BY <1>3, <2>1, EmitOne, EmitTwo DEF EndIf
  <2>. QED
    BY <1>3, <2>2, CloseType DEF EndIf, TypeOK
<1>. QED
  BY <1>1, <1>2, <1>3

\* The two steps of LowerWhile and LowerFor keep the types.
LEMMA LoopType ==
    ASSUME TypeOK, LowerWhile \/ LowerFor \/ EndLoop
    PROVE  TypeOK'
<1>1. ASSUME NEW kind, OpenLoop(kind)
      PROVE  TypeOK'
  <2>1. /\ J("LABEL", LabelCounter) \in Instruction
        /\ J("JMP_IF_NOT", LabelCounter + 1) \in Instruction
    BY NextLabels, LabelInstruction
  <2>2. tape' \in Seq(Instruction)
    BY <1>1, <2>1, EmitOne, EmitTwo DEF OpenLoop
  <2>3. frames' \in Seq(Frame)
    BY <1>1, NextLabels, OpenType DEF OpenLoop, FrameKinds
  <2>4. LoopStack' \in Seq(Loop) /\ Len(LoopStack') <= LoopStackMax
    BY <1>1, NextLabels, PushLoopType DEF OpenLoop
  <2>. QED
    BY <1>1, <2>2, <2>3, <2>4, NextLabels, StatementType DEF OpenLoop, NewLabels, TypeOK
<1>2. CASE EndLoop
  <2>1. /\ J("JMP", Top(frames).label) \in Instruction
        /\ J("LABEL", Top(frames).end) \in Instruction
    BY <1>2, CloseType, LabelInstruction DEF EndLoop, Label
  <2>2. tape' \in Seq(Instruction)
    BY <1>2, <2>1, EmitOne, EmitTwo DEF EndLoop
  <2>. QED
    BY <1>2, <2>2, CloseType, PopLoopType DEF EndLoop, TypeOK
<1>. QED
  BY <1>1, <1>2 DEF LowerWhile, LowerFor

\* Blocks and regions keep the types.
LEMMA BlockType ==
    ASSUME TypeOK,
           \/ \E kind \in {"block", "defer"} : LowerBlock(kind)
           \/ EndBlock
           \/ \E region \in Regions : LowerScopedBlock(region) \/ EndScopedBlock(region)
    PROVE  TypeOK'
<1>. /\ I("DEFER") \in Instruction /\ I("SCOPE_BEGIN") \in Instruction
     /\ I("SCOPE_END") \in Instruction
  BY PlainInstruction DEF Plain
<1>1. ASSUME NEW kind \in {"block", "defer"}, LowerBlock(kind)
      PROVE  TypeOK'
  <2>1. tape' \in Seq(Instruction)
    BY <1>1, EmitOne, EmitTwo DEF LowerBlock
  <2>2. frames' \in Seq(Frame)
    BY <1>1, OpenType DEF LowerBlock, FrameKinds
  <2>. QED
    BY <1>1, <2>1, <2>2, StatementType DEF LowerBlock, TypeOK
<1>2. CASE EndBlock
  <2>1. tape' \in Seq(Instruction)
    BY <1>2, EmitOne DEF EndBlock
  <2>. QED
    BY <1>2, <2>1, CloseType DEF EndBlock, TypeOK
<1>3. ASSUME NEW region \in Regions, LowerScopedBlock(region)
      PROVE  TypeOK'
  <2>1. tape' \in Seq(Instruction)
    BY <1>3, RegionInstruction, EmitOne DEF LowerScopedBlock
  <2>2. frames' \in Seq(Frame)
    BY <1>3, OpenType DEF LowerScopedBlock, FrameKinds
  <2>. QED
    BY <1>3, <2>1, <2>2, StatementType DEF LowerScopedBlock, TypeOK
<1>4. ASSUME NEW region \in Regions, EndScopedBlock(region)
      PROVE  TypeOK'
  <2>1. tape' \in Seq(Instruction)
    BY <1>4, RegionInstruction, EmitOne DEF EndScopedBlock
  <2>. QED
    BY <1>4, <2>1, CloseType DEF EndScopedBlock, TypeOK
<1>. QED
  BY <1>1, <1>2, <1>3, <1>4

\* The steps of LowerMatch keep the types.
LEMMA MatchType ==
    ASSUME TypeOK,
           LowerMatch \/ EndArm \/ EndMatch \/ \E guarded \in BOOLEAN : OpenArm(guarded)
    PROVE  TypeOK'
<1>1. CASE LowerMatch
  <2>1. frames' \in Seq(Frame)
    BY <1>1, NextLabels, OpenType DEF LowerMatch, FrameKinds
  <2>. QED
    BY <1>1, <2>1, NextLabels, StatementType DEF LowerMatch, NewLabels, TypeOK
<1>2. CASE EndArm
  <2>1. /\ J("JMP", Top(frames).end) \in Instruction
        /\ J("LABEL", Top(frames).label) \in Instruction
    BY <1>2, CloseType, LabelInstruction DEF EndArm, Label
  <2>2. tape' \in Seq(Instruction)
    BY <1>2, <2>1, EmitTwo DEF EndArm
  <2>. QED
    BY <1>2, <2>2, CloseType DEF EndArm, TypeOK
<1>3. CASE EndMatch
  <2>1. J("LABEL", Top(frames).end) \in Instruction
    BY <1>3, CloseType, LabelInstruction DEF EndMatch, Label
  <2>2. tape' \in Seq(Instruction)
    BY <1>3, <2>1, EmitOne DEF EndMatch
  <2>. QED
    BY <1>3, <2>2, CloseType DEF EndMatch, TypeOK
<1>4. ASSUME NEW guarded \in BOOLEAN, OpenArm(guarded)
      PROVE  TypeOK'
  <2>1. J("JMP_IF_NOT", LabelCounter) \in Instruction
    BY NextLabels, LabelInstruction
  <2>2. tape' \in Seq(Instruction)
    BY <1>4, <2>1, EmitOne, EmitTwo DEF OpenArm
  <2>3. Top(frames) \in Frame
    BY <1>4, PopTop DEF OpenArm, TypeOK
  <2>4. Top(frames).end \in Nat
    BY <2>3 DEF Frame
  <2>5. frames' \in Seq(Frame)
    BY <1>4, <2>4, NextLabels, OpenType DEF OpenArm, FrameKinds
  <2>. QED
    BY <1>4, <2>2, <2>5, NextLabels DEF OpenArm, NewLabels, TypeOK
<1>. QED
  BY <1>1, <1>2, <1>3, <1>4

\* The steps of LowerSS keep the types.
LEMMA SubprogramType ==
    ASSUME TypeOK,
           (\E name \in Names : LowerSubprogram(name)) \/ EndSubprogram \/ Finish \/ Returned
    PROVE  TypeOK'
<1>. /\ I("RET") \in Instruction /\ I("SCOPE_BEGIN") \in Instruction
     /\ I("SCOPE_END") \in Instruction
  BY PlainInstruction DEF Plain
<1>1. ASSUME NEW name \in Names, LowerSubprogram(name)
      PROVE  TypeOK'
  <2>1. J("LABEL", name) \in Instruction
    BY LabelInstruction DEF Label
  <2>2. tape' \in Seq(Instruction)
    BY <1>1, <2>1, EmitTwo DEF LowerSubprogram
  <2>3. frames' \in Seq(Frame)
    BY <1>1, OpenType DEF LowerSubprogram, FrameKinds
  <2>. QED
    BY <1>1, <2>2, <2>3 DEF LowerSubprogram, TypeOK
<1>2. CASE EndSubprogram
  <2>1. tape' \in Seq(Instruction)
    BY <1>2, EmitOne, EmitTwo DEF EndSubprogram
  <2>. QED
    BY <1>2, <2>1, CloseType DEF EndSubprogram, TypeOK
<1>3. CASE Finish
  BY <1>3 DEF Finish, TypeOK
<1>4. CASE Returned
  BY <1>4 DEF Returned, vars, TypeOK
<1>. QED
  BY <1>1, <1>2, <1>3, <1>4

\* TypeOK is inductive.
LEMMA TypeStep == TypeOK /\ [Next]_vars => TypeOK'
<1>1. ASSUME TypeOK, Next
      PROVE  TypeOK'
  BY <1>1, SimpleType, IfType, LoopType, BlockType, MatchType, SubprogramType DEF Next
<1>2. ASSUME TypeOK, UNCHANGED vars
      PROVE  TypeOK'
  BY <1>2 DEF TypeOK, vars
<1>. QED
  BY <1>1, <1>2

\* TypeOK holds of the empty program.
LEMMA TypeInit == Init => TypeOK
BY LoopStackMaxAssumption DEF Init, TypeOK

\* Every tape LowerSS can build, for every program, consists of well-formed control
\* instructions, and LoopStackTop never passes LOOP_STACK_MAX: LowerWhile and LowerFor
\* write no slot beyond the array, however deep the loops nest.
THEOREM TypeCorrect == Spec => []TypeOK
<1>. QED
  BY TypeInit, TypeStep, PTL DEF Spec

(***************************************************************************)
(* The LoopStack against the loops being lowered.  Loops opened later have *)
(* greater labels, on the C stack and on the LoopStack alike, so the only  *)
(* entry that can belong to the loop being closed is the last one, the one *)
(* PopLoop removes: this is why a dropped push does no more harm than a    *)
(* wrong but still open target.                                            *)
(***************************************************************************)
IsLoop(m) == frames[m].kind = "loop"

Embedded ==
    \A n \in 1..Len(LoopStack) : \E m \in n..Len(frames) :
        IsLoop(m) /\ LoopStack[n] = LoopOf(frames[m])

Ordered ==
    /\ \A m \in 1..Len(frames) : IsLoop(m) => frames[m].label < LabelCounter
    /\ \A m, k \in 1..Len(frames) :
          m < k /\ IsLoop(m) /\ IsLoop(k) => frames[m].label < frames[k].label
    /\ \A n, k \in 1..Len(LoopStack) : n < k => LoopStack[n].start < LoopStack[k].start

\* While the array is large enough nothing is dropped.
Complete ==
    MaxDepth <= LoopStackMax =>
        \A m \in 1..Len(frames) : IsLoop(m) =>
            \E n \in 1..Len(LoopStack) : LoopStack[n] = LoopOf(frames[m])

LoopInv == Embedded /\ Ordered /\ Complete

\* The loops among the activations, before and after a step that opens or closes
\* none, are the same.
SameLoops ==
    /\ \A m \in 1..Len(frames) : IsLoop(m) =>
          /\ m \in 1..Len(frames')
          /\ IsLoop(m)' /\ LoopOf(frames[m])' = LoopOf(frames[m])
    /\ \A m \in 1..Len(frames') : IsLoop(m)' =>
          /\ m \in 1..Len(frames)
          /\ IsLoop(m) /\ LoopOf(frames[m])' = LoopOf(frames[m])

\* The pair of a frame is a pair of numbers.
LEMMA LoopRecord ==
    ASSUME NEW f \in Frame, NEW g \in Frame
    PROVE  /\ LoopOf(f) = LoopOf(g) <=> f.label = g.label /\ f.end = g.end
           /\ LoopOf(f).start = f.label
BY DEF LoopOf

\* A step that keeps the loops of frames and LoopStack keeps the invariant.
LEMMA SameLoopsStep ==
    ASSUME TypeOK, TypeOK', LoopInv, SameLoops,
           LoopStack' = LoopStack, LabelCounter' >= LabelCounter
    PROVE  LoopInv'
<1>0. \A m \in 1..Len(frames) : frames[m] \in Frame
  BY ElementOfSeq DEF TypeOK
<1>1. \A m \in 1..Len(frames') : IsLoop(m)' =>
          m \in 1..Len(frames) /\ IsLoop(m) /\ frames'[m].label = frames[m].label
  BY DEF SameLoops, LoopOf
<1>2. Embedded'
  <2>. SUFFICES ASSUME NEW n \in 1..Len(LoopStack)
                PROVE  \E m \in n..Len(frames') : IsLoop(m)' /\ LoopStack[n] = LoopOf(frames[m])'
    BY DEF Embedded
  <2>1. PICK m \in n..Len(frames) : IsLoop(m) /\ LoopStack[n] = LoopOf(frames[m])
    BY DEF LoopInv, Embedded
  <2>2. m \in 1..Len(frames)
    BY <2>1, LenProperties DEF TypeOK
  <2>3. m \in 1..Len(frames') /\ IsLoop(m)' /\ LoopOf(frames[m])' = LoopOf(frames[m])
    BY <2>1, <2>2 DEF SameLoops
  <2>. QED
    BY <2>1, <2>3
<1>3. Ordered'
  <2>1. \A m \in 1..Len(frames') : IsLoop(m)' => frames'[m].label < LabelCounter'
    <3>. SUFFICES ASSUME NEW m \in 1..Len(frames'), IsLoop(m)'
                  PROVE  frames'[m].label < LabelCounter'
      OBVIOUS
    <3>1. frames'[m].label = frames[m].label /\ frames[m].label < LabelCounter
      BY <1>1 DEF LoopInv, Ordered
    <3>2. frames[m].label \in Nat
      BY <1>0, <1>1 DEF Frame
    <3>. QED
      BY <3>1, <3>2 DEF TypeOK
  <2>2. \A m, k \in 1..Len(frames') :
          m < k /\ IsLoop(m)' /\ IsLoop(k)' => frames'[m].label < frames'[k].label
    BY <1>1 DEF LoopInv, Ordered
  <2>. QED
    BY <2>1, <2>2 DEF LoopInv, Ordered
<1>4. Complete'
  BY DEF LoopInv, Complete, SameLoops
<1>. QED
  BY <1>2, <1>3, <1>4 DEF LoopInv

(***************************************************************************)
(* The steps that open or close no loop.                                   *)
(***************************************************************************)
LEMMA LoweredSame ==
    ASSUME TypeOK, NEW isReturn \in BOOLEAN, frames' = Lowered(isReturn)
    PROVE  SameLoops
BY LoweredFrames DEF SameLoops, IsLoop, LoopOf

\* What Open does to each frame.
LEMMA OpenFrames ==
    ASSUME TypeOK, NEW kind \in FrameKinds, NEW label \in Nat, NEW end \in Nat,
           Open(kind, label, end)
    PROVE  /\ Len(frames) \in Nat
           /\ Len(frames') = Len(frames) + 1
           /\ frames'[Len(frames) + 1] = Activation(kind, label, end)
           /\ \A i \in 1..Len(frames) :
                  /\ frames'[i].kind = frames[i].kind
                  /\ frames'[i].label = frames[i].label
                  /\ frames'[i].end = frames[i].end
<1>. DEFINE old == Lowered(FALSE)
            new == Activation(kind, label, end)
<1>1. old \in Seq(Frame) /\ new \in Frame /\ Len(old) = Len(frames)
  BY LoweredFrames, ActivationType
<1>2. \A i \in 1..Len(frames) : /\ old[i].kind = frames[i].kind
                                /\ old[i].label = frames[i].label
                                /\ old[i].end = frames[i].end
  BY LoweredFrames
<1>3. frames' = Append(old, new)
  BY DEF Open
<1>4. Len(frames) \in Nat
  BY LenProperties DEF TypeOK
<1>. HIDE DEF old, new
<1>5. /\ Len(Append(old, new)) = Len(old) + 1
      /\ Append(old, new)[Len(old) + 1] = new
      /\ \A i \in 1..Len(old) : Append(old, new)[i] = old[i]
  BY <1>1, AppendTop
<1>6. \A i \in 1..Len(frames) : frames'[i] = old[i]
  BY <1>1, <1>3, <1>5
<1>. QED
  BY <1>1, <1>2, <1>3, <1>4, <1>5, <1>6 DEF new

\* Opening a construct that is not a loop keeps the loops of frames.
LEMMA OpenSame ==
    ASSUME TypeOK, NEW kind \in FrameKinds \ {"loop"}, NEW label \in Nat, NEW end \in Nat,
           Open(kind, label, end)
    PROVE  SameLoops
<1>1. Activation(kind, label, end).kind # "loop"
  BY DEF Activation
<1>2. /\ Len(frames) \in Nat
      /\ Len(frames') = Len(frames) + 1
      /\ frames'[Len(frames) + 1] = Activation(kind, label, end)
      /\ \A i \in 1..Len(frames) :
             /\ frames'[i].kind = frames[i].kind
             /\ frames'[i].label = frames[i].label
             /\ frames'[i].end = frames[i].end
  BY OpenFrames
<1>3. frames'[Len(frames) + 1].kind # "loop"
  BY <1>1, <1>2
<1>4. \A m \in 1..Len(frames') : m \in 1..Len(frames) \/ m = Len(frames) + 1
  BY <1>2
<1>. QED
  BY <1>2, <1>3, <1>4 DEF SameLoops, IsLoop, LoopOf

\* Closing a construct that is not a loop keeps the loops of frames.
LEMMA CloseSame ==
    ASSUME TypeOK, NEW kind \in FrameKinds \ {"loop"}, Close(kind)
    PROVE  SameLoops
<1>1. /\ Len(frames) \in Nat /\ Len(frames) >= 1
      /\ Len(frames') = Len(frames) - 1
      /\ \A i \in 1..(Len(frames) - 1) : frames'[i] = frames[i]
      /\ frames[Len(frames)].kind # "loop"
  BY PopTop, LenProperties DEF TypeOK, Close, Top
<1>. QED
  BY <1>1 DEF SameLoops, IsLoop, LoopOf

\* Going on to the else part keeps the loops of frames.
LEMMA ElseSame ==
    ASSUME TypeOK, LowerElse
    PROVE  SameLoops
<1>1. /\ Len(frames) \in Nat /\ Len(frames) >= 1
      /\ Top(frames) \in Frame
      /\ Pop(frames) \in Seq(Frame)
      /\ Len(Pop(frames)) = Len(frames) - 1
      /\ \A i \in 1..(Len(frames) - 1) : Pop(frames)[i] = frames[i]
      /\ frames[Len(frames)].kind # "loop"
  BY PopTop, LenProperties DEF TypeOK, LowerElse, Top
<1>. DEFINE else == Activation("else", Top(frames).label, Top(frames).end)
<1>2. else \in Frame /\ else.kind # "loop"
  BY <1>1, ActivationType DEF Frame, FrameKinds, Activation
<1>. HIDE DEF else
<1>3. /\ Len(frames') = Len(Pop(frames)) + 1
      /\ frames'[Len(Pop(frames)) + 1] = else
      /\ \A i \in 1..Len(Pop(frames)) : frames'[i] = Pop(frames)[i]
  BY <1>1, <1>2, AppendTop DEF LowerElse, else
<1>. QED
  BY <1>1, <1>2, <1>3 DEF SameLoops, IsLoop, LoopOf

(***************************************************************************)
(* Opening and closing a loop.                                             *)
(***************************************************************************)
\* The LoopStack holds at most one entry for every activation.
LEMMA StackHeight ==
    ASSUME TypeOK, LoopInv
    PROVE  Len(LoopStack) <= Len(frames)
<1>. Len(LoopStack) \in Nat /\ Len(frames) \in Nat
  BY LenProperties DEF TypeOK
<1>1. CASE Len(LoopStack) = 0
  BY <1>1
<1>2. CASE Len(LoopStack) # 0
  <2>1. Len(LoopStack) \in 1..Len(LoopStack)
    BY <1>2
  <2>2. PICK m \in Len(LoopStack)..Len(frames) : IsLoop(m)
    BY <2>1 DEF LoopInv, Embedded
  <2>. QED
    BY <2>2
<1>. QED
  BY <1>1, <1>2

\* Opening a loop keeps the invariant, whether PushLoop drops it or not.
LEMMA OpenLoopStep ==
    ASSUME TypeOK, LoopInv, NEW kind, OpenLoop(kind)
    PROVE  LoopInv'
<1>. DEFINE height == Len(LoopStack)
            depth == Len(frames)
            new == [start |-> LabelCounter, end |-> LabelCounter + 1]
<1>1. height \in Nat /\ depth \in Nat /\ height <= depth /\ LabelCounter \in Nat
  BY StackHeight, LenProperties DEF TypeOK
<1>2. /\ Len(frames') = depth + 1
      /\ frames'[depth + 1] = Activation("loop", LabelCounter, LabelCounter + 1)
      /\ \A i \in 1..depth : /\ frames'[i].kind = frames[i].kind
                             /\ frames'[i].label = frames[i].label
                             /\ frames'[i].end = frames[i].end
  BY NextLabels, OpenFrames DEF OpenLoop, FrameKinds
<1>3. /\ frames'[depth + 1].kind = "loop"
      /\ frames'[depth + 1].label = LabelCounter
      /\ LoopOf(frames'[depth + 1]) = new
  BY <1>2 DEF Activation, LoopOf
<1>4. \A i \in 1..depth : LoopOf(frames'[i]) = LoopOf(frames[i])
  BY <1>2 DEF LoopOf
<1>5. LabelCounter' = LabelCounter + 2
  BY DEF OpenLoop, NewLabels
<1>6. new \in Loop
  BY <1>1 DEF Loop
<1>7. \/ LoopStack' = LoopStack /\ height >= LoopStackMax
      \/ LoopStack' = Append(LoopStack, new)
  BY <1>1, LoopStackMaxAssumption DEF OpenLoop, PushLoop
<1>8. LoopStack' = Append(LoopStack, new) =>
          /\ Len(LoopStack') = height + 1
          /\ LoopStack'[height + 1] = new
          /\ \A n \in 1..height : LoopStack'[n] = LoopStack[n]
  BY <1>6, AppendTop DEF TypeOK
<1>. HIDE DEF new
<1>9. Embedded'
  <2>. SUFFICES ASSUME NEW n \in 1..Len(LoopStack')
                PROVE  \E m \in n..Len(frames') :
                           frames'[m].kind = "loop" /\ LoopStack'[n] = LoopOf(frames'[m])
    BY DEF Embedded, IsLoop
  <2>1. CASE n \in 1..height /\ LoopStack'[n] = LoopStack[n]
    <3>1. PICK m \in n..depth : frames[m].kind = "loop" /\ LoopStack[n] = LoopOf(frames[m])
      BY <2>1 DEF LoopInv, Embedded, IsLoop
    <3>2. m \in 1..depth /\ m \in n..Len(frames')
      BY <1>1, <1>2, <2>1, <3>1
    <3>. QED
      BY <1>2, <1>4, <2>1, <3>1, <3>2
  <2>2. CASE n = height + 1 /\ LoopStack'[n] = new
    BY <1>1, <1>2, <1>3, <2>2
  <2>. QED
    BY <1>1, <1>7, <1>8, <2>1, <2>2
<1>10. Ordered'
  <2>1. \A m \in 1..Len(frames') : frames'[m].kind = "loop" => frames'[m].label < LabelCounter'
    <3>. SUFFICES ASSUME NEW m \in 1..Len(frames'), frames'[m].kind = "loop"
                  PROVE  frames'[m].label < LabelCounter'
      OBVIOUS
    <3>1. CASE m = depth + 1
      BY <1>1, <1>3, <1>5, <3>1
    <3>2. CASE m \in 1..depth
      <4>1. frames[m].label < LabelCounter
        BY <1>2, <3>2 DEF LoopInv, Ordered, IsLoop
      <4>2. frames[m] \in Frame
        BY <3>2, ElementOfSeq DEF TypeOK
      <4>3. frames[m].label \in Nat
        BY <4>2 DEF Frame
      <4>. QED
        BY <1>1, <1>2, <1>5, <3>2, <4>1, <4>3
    <3>. QED
      BY <1>1, <1>2, <3>1, <3>2
  <2>2. \A m, k \in 1..Len(frames') :
          m < k /\ frames'[m].kind = "loop" /\ frames'[k].kind = "loop"
              => frames'[m].label < frames'[k].label
    <3>. SUFFICES ASSUME NEW m \in 1..Len(frames'), NEW k \in 1..Len(frames'), m < k,
                         frames'[m].kind = "loop", frames'[k].kind = "loop"
                  PROVE  frames'[m].label < frames'[k].label
      OBVIOUS
    <3>1. m \in 1..depth /\ frames[m].kind = "loop" /\ frames'[m].label = frames[m].label
      BY <1>1, <1>2
    <3>2. CASE k = depth + 1
      BY <1>3, <3>1, <3>2 DEF LoopInv, Ordered, IsLoop
    <3>3. CASE k \in 1..depth
      BY <1>2, <3>1, <3>3 DEF LoopInv, Ordered, IsLoop
    <3>. QED
      BY <1>1, <1>2, <3>2, <3>3
  <2>3. \A n, k \in 1..Len(LoopStack') : n < k => LoopStack'[n].start < LoopStack'[k].start
    <3>. SUFFICES ASSUME NEW n \in 1..Len(LoopStack'), NEW k \in 1..Len(LoopStack'), n < k
                  PROVE  LoopStack'[n].start < LoopStack'[k].start
      OBVIOUS
    <3>1. CASE k \in 1..height
      BY <1>1, <1>7, <1>8, <3>1 DEF LoopInv, Ordered
    <3>2. CASE k = height + 1 /\ LoopStack' = Append(LoopStack, new)
      <4>1. n \in 1..height /\ LoopStack'[n] = LoopStack[n] /\ LoopStack'[k].start = LabelCounter
        BY <1>1, <1>8, <3>2 DEF new
      <4>2. PICK m \in n..depth : frames[m].kind = "loop" /\ LoopStack[n] = LoopOf(frames[m])
        BY <4>1 DEF LoopInv, Embedded, IsLoop
      <4>3. m \in 1..depth /\ frames[m].label < LabelCounter
        BY <1>1, <4>1, <4>2 DEF LoopInv, Ordered, IsLoop
      <4>. QED
        BY <4>1, <4>2, <4>3 DEF LoopOf
    <3>. QED
      BY <1>1, <1>7, <1>8, <3>1, <3>2
  <2>. QED
    BY <2>1, <2>2, <2>3 DEF Ordered, IsLoop
<1>11. Complete'
  <2>. SUFFICES ASSUME MaxDepth <= LoopStackMax,
                       NEW m \in 1..Len(frames'), frames'[m].kind = "loop"
                PROVE  \E n \in 1..Len(LoopStack') : LoopStack'[n] = LoopOf(frames'[m])
    BY DEF Complete, IsLoop
  <2>1. LoopStack' = Append(LoopStack, new)
    <3>1. depth < MaxDepth
      BY DEF OpenLoop, Open
    <3>. QED
      BY <1>1, <1>7, <3>1, BoundsAssumption, LoopStackMaxAssumption
  <2>2. CASE m = depth + 1
    BY <1>1, <1>3, <1>8, <2>1, <2>2
  <2>3. CASE m \in 1..depth
    <3>1. PICK n \in 1..height : LoopStack[n] = LoopOf(frames[m])
      BY <1>2, <2>3 DEF LoopInv, Complete, IsLoop
    <3>. QED
      BY <1>1, <1>4, <1>8, <2>1, <2>3, <3>1
  <2>. QED
    BY <1>1, <1>2, <2>2, <2>3
<1>. QED
  BY <1>9, <1>10, <1>11 DEF LoopInv

\* Closing a loop keeps the invariant, whether its pair was dropped or not.
LEMMA EndLoopStep ==
    ASSUME TypeOK, LoopInv, EndLoop
    PROVE  LoopInv'
<1>. DEFINE height == Len(LoopStack)
            depth == Len(frames)
<1>1. /\ height \in Nat /\ depth \in Nat /\ depth >= 1
      /\ Len(frames') = depth - 1
      /\ \A i \in 1..(depth - 1) : frames'[i] = frames[i]
      /\ frames[depth].kind = "loop"
  BY PopTop, LenProperties DEF TypeOK, EndLoop, Close, Top
<1>2. LabelCounter' = LabelCounter
  BY DEF EndLoop
<1>3. /\ Len(LoopStack') = IF height = 0 THEN 0 ELSE height - 1
      /\ \A n \in 1..Len(LoopStack') : LoopStack'[n] = LoopStack[n]
  <2>1. CASE LoopStack = <<>>
    BY <2>1 DEF EndLoop, PopLoop
  <2>2. CASE LoopStack # <<>>
    <3>1. /\ height >= 1 /\ Len(Pop(LoopStack)) = height - 1
          /\ \A i \in 1..(height - 1) : Pop(LoopStack)[i] = LoopStack[i]
      BY <2>2, PopTop DEF TypeOK
    <3>. QED
      BY <1>1, <2>2, <3>1 DEF EndLoop, PopLoop
  <2>. QED
    BY <2>1, <2>2
<1>4. \A m \in 1..depth : frames[m] \in Frame /\ frames[m].label \in Nat
  <2>1. \A m \in 1..depth : frames[m] \in Frame
    BY ElementOfSeq DEF TypeOK
  <2>. QED
    BY <2>1 DEF Frame
<1>5. Embedded'
  <2>. SUFFICES ASSUME NEW n \in 1..Len(LoopStack')
                PROVE  \E m \in n..Len(frames') :
                           frames'[m].kind = "loop" /\ LoopStack'[n] = LoopOf(frames'[m])
    BY DEF Embedded, IsLoop
  <2>1. n \in 1..height /\ height \in 1..height /\ n < height
    BY <1>1, <1>3
  <2>2. PICK m \in n..depth : frames[m].kind = "loop" /\ LoopStack[n] = LoopOf(frames[m])
    BY <2>1 DEF LoopInv, Embedded, IsLoop
  <2>3. PICK k \in height..depth : frames[k].kind = "loop" /\ LoopStack[height] = LoopOf(frames[k])
    BY <2>1 DEF LoopInv, Embedded, IsLoop
  <2>4. m \in 1..depth /\ k \in 1..depth /\ depth \in 1..depth
    BY <1>1, <2>1, <2>2, <2>3
  <2>5. frames[m].label < frames[k].label
    BY <2>1, <2>2, <2>3 DEF LoopInv, Ordered, LoopOf
  <2>6. k # depth => frames[k].label < frames[depth].label
    BY <1>1, <2>3, <2>4 DEF LoopInv, Ordered, IsLoop
  <2>7. m # depth
    BY <1>4, <2>4, <2>5, <2>6
  <2>8. m \in n..Len(frames') /\ frames'[m] = frames[m]
    BY <1>1, <2>1, <2>2, <2>4, <2>7
  <2>. QED
    BY <1>3, <2>2, <2>8
<1>6. Ordered'
  <2>1. \A m \in 1..Len(frames') : m \in 1..depth /\ frames'[m] = frames[m]
    BY <1>1
  <2>2. \A n \in 1..Len(LoopStack') : n \in 1..height /\ LoopStack'[n] = LoopStack[n]
    BY <1>1, <1>3
  <2>. QED
    BY <1>2, <2>1, <2>2 DEF LoopInv, Ordered, IsLoop
<1>7. Complete'
  <2>. SUFFICES ASSUME MaxDepth <= LoopStackMax,
                       NEW m \in 1..Len(frames'), frames'[m].kind = "loop"
                PROVE  \E n \in 1..Len(LoopStack') : LoopStack'[n] = LoopOf(frames'[m])
    BY DEF Complete, IsLoop
  <2>1. m \in 1..depth /\ m < depth /\ frames'[m] = frames[m] /\ depth \in 1..depth
    BY <1>1
  <2>2. PICK n \in 1..height : LoopStack[n] = LoopOf(frames[m])
    BY <2>1 DEF LoopInv, Complete, IsLoop
  <2>3. PICK k \in 1..height : LoopStack[k] = LoopOf(frames[depth])
    BY <1>1, <2>1 DEF LoopInv, Complete, IsLoop
  <2>4. frames[m].label < frames[depth].label
    BY <1>1, <2>1 DEF LoopInv, Ordered, IsLoop
  <2>5. LoopStack[n].start < LoopStack[k].start
    BY <2>2, <2>3, <2>4 DEF LoopOf
  <2>6. n # height
    <3>. SUFFICES ASSUME n = height
                  PROVE  FALSE
      OBVIOUS
    <3>1. CASE k = n
      BY <1>4, <2>1, <2>2, <2>3, <2>4, <3>1 DEF LoopOf
    <3>2. CASE k < n
      <4>1. LoopStack[k].start < LoopStack[n].start
        BY <3>2 DEF LoopInv, Ordered
      <4>2. LoopStack[k].start \in Nat /\ LoopStack[n].start \in Nat
        BY <1>4, <2>1, <2>2, <2>3 DEF LoopOf
      <4>. QED
        BY <2>5, <4>1, <4>2
    <3>. QED
      BY <1>1, <3>1, <3>2
  <2>7. n \in 1..Len(LoopStack')
    BY <1>1, <1>3, <2>6
  <2>. QED
    BY <1>3, <2>1, <2>2, <2>7
<1>. QED
  BY <1>5, <1>6, <1>7 DEF LoopInv

\* No statement breaks the loop invariant.
LEMMA LoopStep == TypeOK /\ TypeOK' /\ LoopInv /\ [Next]_vars => LoopInv'
<1>. SUFFICES ASSUME TypeOK, TypeOK', LoopInv, [Next]_vars
              PROVE  LoopInv'
  OBVIOUS
<1>. DEFINE Quiet == SameLoops /\ LoopStack' = LoopStack /\ LabelCounter' >= LabelCounter
<1>0. LabelCounter \in Nat
  BY DEF TypeOK
<1>1. Quiet => LoopInv'
  BY SameLoopsStep
<1>2. CASE LowerStraight \/ LowerReturn \/ LowerBreak \/ LowerContinue
  <2>1. SameLoops
    BY <1>2, LoweredSame DEF LowerStraight, LowerReturn, LowerBreak, LowerContinue
  <2>2. LoopStack' = LoopStack /\ LabelCounter' = LabelCounter
    BY <1>2 DEF LowerStraight, LowerReturn, LowerBreak, LowerContinue
  <2>. QED
    BY <1>0, <1>1, <2>1, <2>2
<1>3. CASE LowerIf
  <2>1. SameLoops
    BY <1>3, NextLabels, OpenSame DEF LowerIf, FrameKinds
  <2>. QED
    BY <1>0, <1>1, <1>3, <2>1 DEF LowerIf, NewLabels
<1>4. CASE LowerElse
  BY <1>0, <1>1, <1>4, ElseSame DEF LowerElse
<1>5. CASE EndIf
  <2>1. SameLoops
    BY <1>5, CloseSame DEF EndIf, FrameKinds
  <2>. QED
    BY <1>0, <1>1, <1>5, <2>1 DEF EndIf
<1>6. CASE LowerWhile \/ LowerFor
  BY <1>6, OpenLoopStep DEF LowerWhile, LowerFor
<1>7. CASE EndLoop
  BY <1>7, EndLoopStep
<1>8. ASSUME NEW kind \in {"block", "defer"}, LowerBlock(kind)
      PROVE  LoopInv'
  <2>1. SameLoops
    BY <1>8, OpenSame DEF LowerBlock, FrameKinds
  <2>. QED
    BY <1>0, <1>1, <1>8, <2>1 DEF LowerBlock
<1>9. CASE EndBlock
  <2>1. SameLoops
    BY <1>9, CloseSame DEF EndBlock, FrameKinds
  <2>. QED
    BY <1>0, <1>1, <1>9, <2>1 DEF EndBlock
<1>10. ASSUME NEW region \in Regions, LowerScopedBlock(region) \/ EndScopedBlock(region)
       PROVE  LoopInv'
  <2>0. region \in FrameKinds \ {"loop"}
    BY DEF Regions, FrameKinds
  <2>1. SameLoops
    BY <1>10, <2>0, OpenSame, CloseSame DEF LowerScopedBlock, EndScopedBlock
  <2>. QED
    BY <1>0, <1>1, <1>10, <2>1 DEF LowerScopedBlock, EndScopedBlock
<1>11. CASE LowerMatch
  <2>1. SameLoops
    BY <1>11, NextLabels, OpenSame DEF LowerMatch, FrameKinds
  <2>. QED
    BY <1>0, <1>1, <1>11, <2>1 DEF LowerMatch, NewLabels
<1>12. ASSUME NEW guarded \in BOOLEAN, OpenArm(guarded)
       PROVE  LoopInv'
  <2>1. Top(frames) \in Frame
    BY <1>12, PopTop DEF OpenArm, TypeOK
  <2>2. Top(frames).end \in Nat
    BY <2>1 DEF Frame
  <2>3. SameLoops
    BY <1>12, <2>2, NextLabels, OpenSame DEF OpenArm, FrameKinds
  <2>. QED
    BY <1>0, <1>1, <1>12, <2>3 DEF OpenArm, NewLabels
<1>13. CASE EndArm \/ EndMatch
  <2>1. SameLoops
    BY <1>13, CloseSame DEF EndArm, EndMatch, FrameKinds
  <2>. QED
    BY <1>0, <1>1, <1>13, <2>1 DEF EndArm, EndMatch
<1>14. ASSUME NEW name \in Names, LowerSubprogram(name)
       PROVE  LoopInv'
  <2>1. SameLoops
    BY <1>14, OpenSame DEF LowerSubprogram, FrameKinds
  <2>. QED
    BY <1>0, <1>1, <1>14, <2>1 DEF LowerSubprogram
<1>15. CASE EndSubprogram
  <2>1. SameLoops
    BY <1>15, CloseSame DEF EndSubprogram, FrameKinds
  <2>. QED
    BY <1>0, <1>1, <1>15, <2>1 DEF EndSubprogram
<1>16. CASE Finish \/ UNCHANGED vars
  <2>1. SameLoops
    BY <1>16 DEF Finish, vars, SameLoops, IsLoop, LoopOf
  <2>. QED
    BY <1>0, <1>1, <1>16, <2>1 DEF Finish, vars
<1>. QED
  BY <1>2, <1>3, <1>4, <1>5, <1>6, <1>7, <1>8, <1>9, <1>10, <1>11, <1>12, <1>13, <1>14,
     <1>15, <1>16 DEF Next, Returned

\* Nothing is open at the start.
LEMMA LoopInit == Init => LoopInv
BY DEF Init, LoopInv, Embedded, Ordered, Complete

\* At every point of the lowering LoopStack holds only open loops, in their order, and
\* all of them while the array has room.
THEOREM LoopInvariant == Spec => []LoopInv
<1>1. Spec => []TypeOK
  BY TypeCorrect
<1>. QED
  BY <1>1, LoopInit, LoopStep, PTL DEF Spec

\* The loop invariant contains the property the runs check.
LEMMA LoopInvOpen ==
    ASSUME TypeOK, LoopInv
    PROVE  LoopStackOpen
<1>. SUFFICES ASSUME NEW n \in 1..Len(LoopStack)
              PROVE  \E m \in 1..Len(frames) :
                         frames[m].kind = "loop" /\ LoopStack[n] = LoopOf(frames[m])
  BY DEF LoopStackOpen
<1>1. PICK m \in n..Len(frames) : IsLoop(m) /\ LoopStack[n] = LoopOf(frames[m])
  BY DEF LoopInv, Embedded
<1>2. m \in 1..Len(frames)
  BY <1>1, LenProperties DEF TypeOK
<1>. QED
  BY <1>1, <1>2 DEF IsLoop

\* For every program, every nesting depth and every LOOP_STACK_MAX, a break or a
\* continue only ever jumps to a loop that is still being lowered around it.
THEOREM BreakTargetsOpen == Spec => []LoopStackOpen
<1>. QED
  BY TypeCorrect, LoopInvariant, LoopInvOpen, PTL

\* While LOOP_STACK_MAX is not exceeded, the last entry is the innermost loop.
LEMMA TopIsInnermost ==
    ASSUME TypeOK, LoopInv, MaxDepth <= LoopStackMax,
           NEW m \in 1..Len(frames), InnermostLoop(m)
    PROVE  LoopStack # <<>> /\ Top(LoopStack) = LoopOf(frames[m])
<1>. DEFINE height == Len(LoopStack)
<1>1. PICK n \in 1..height : LoopStack[n] = LoopOf(frames[m])
  BY DEF LoopInv, Complete, InnermostLoop, IsLoop
<1>2. height \in 1..height /\ LoopStack # <<>>
  BY <1>1, LenProperties DEF TypeOK
<1>3. PICK k \in height..Len(frames) : frames[k].kind = "loop" /\ LoopStack[height] = LoopOf(frames[k])
  BY <1>2 DEF LoopInv, Embedded, IsLoop
<1>4. k \in 1..Len(frames) /\ k <= m
  BY <1>2, <1>3, LenProperties DEF InnermostLoop, TypeOK
<1>5. frames[m].label \in Nat /\ frames[k].label \in Nat
  <2>1. frames[m] \in Frame /\ frames[k] \in Frame
    BY <1>4, ElementOfSeq DEF TypeOK
  <2>. QED
    BY <2>1 DEF Frame
<1>6. k < m => frames[k].label < frames[m].label
  BY <1>3, <1>4 DEF LoopInv, Ordered, IsLoop, InnermostLoop
<1>7. n < height => frames[m].label < frames[k].label
  BY <1>1, <1>2, <1>3 DEF LoopInv, Ordered, LoopOf
<1>8. n = height \/ k = m
  BY <1>1, <1>2, <1>4, <1>5, <1>6, <1>7
<1>. QED
  BY <1>1, <1>2, <1>3, <1>8 DEF Top

\* Emitting one instruction appends it.
LEMMA EmitIsAppend ==
    ASSUME TypeOK, NEW a \in Instruction, Emit(<<a>>)
    PROVE  tape' = Append(tape, a)
BY DEF TypeOK, Emit

\* Where the nesting stays within LOOP_STACK_MAX, break leaves and continue repeats
\* the innermost loop around it.
THEOREM InnermostJumps ==
    ASSUME MaxDepth <= LoopStackMax
    PROVE  Spec => JumpsInnermost
<1>. DEFINE Jumps ==
        \A m \in 1..Len(frames) : InnermostLoop(m) =>
          /\ LowerBreak => tape' = Append(tape, J("JMP", frames[m].end))
          /\ LowerContinue => tape' = Append(tape, J("JMP", frames[m].label))
<1>1. TypeOK /\ LoopInv => Jumps
  <2>. SUFFICES ASSUME TypeOK, LoopInv, NEW m \in 1..Len(frames), InnermostLoop(m)
                PROVE  /\ LowerBreak => tape' = Append(tape, J("JMP", frames[m].end))
                       /\ LowerContinue => tape' = Append(tape, J("JMP", frames[m].label))
    OBVIOUS
  <2>1. LeaveTo("end") = J("JMP", frames[m].end) /\ LeaveTo("start") = J("JMP", frames[m].label)
    BY TopIsInnermost DEF LeaveTo, LoopOf
  <2>2. LowerBreak => tape' = Append(tape, LeaveTo("end"))
    BY LeaveToType, EmitIsAppend DEF LowerBreak
  <2>3. LowerContinue => tape' = Append(tape, LeaveTo("start"))
    BY LeaveToType, EmitIsAppend DEF LowerContinue
  <2>. QED
    BY <2>1, <2>2, <2>3
<1>2. Spec => []TypeOK
  BY TypeCorrect
<1>3. Spec => []LoopInv
  BY LoopInvariant
<1>4. TypeOK /\ LoopInv => [Jumps]_vars
  BY <1>1
<1>. QED
  BY <1>2, <1>3, <1>4, PTL DEF JumpsInnermost

(***************************************************************************)
(* Labels and jumps.  What the tape says is reduced to the set of labels   *)
(* on it and the set of labels its jumps name; what the open activations   *)
(* say to the labels they owe.                                             *)
(***************************************************************************)
Sites(t, ops) == {i \in 1..Len(t) : t[i].op \in ops}
Args(t, ops) == {t[i].arg : i \in Sites(t, ops)}
Labelled == Args(tape, {"LABEL"})
Jumped == Args(tape, {"JMP", "JMP_IF_NOT"})
Once(t) ==
    \A i, j \in Sites(t, {"LABEL"}) : t[i].arg \notin Names /\ t[i].arg = t[j].arg => i = j

\* The labels owed are old, and no two activations owe the same one.
OwedOnce ==
    /\ \A l \in Owed : l < LabelCounter
    /\ \A m, k \in 1..Len(frames) : m # k => Owes(frames[m]) \cap Owes(frames[k]) = {}
    /\ \A m \in 1..Len(frames) : frames[m].kind = "if" => frames[m].label # frames[m].end

\* A generated label on the tape is there once and owed no more.
LabelledOnce ==
    /\ Once(tape)
    /\ \A l \in Labelled \ Names : l \in Nat /\ l < LabelCounter /\ l \notin Owed

\* An arm leaves its match through the end label that the match owes.
ArmsInMatch ==
    \A m \in 1..Len(frames) : frames[m].kind = "arm" =>
        m > 1 /\ frames[m - 1].kind = "match" /\ frames[m - 1].end = frames[m].end

\* The start of a loop that is being lowered is on the tape: what continue and the
\* last jump of the loop name.
LoopsStarted ==
    \A m \in 1..Len(frames) : frames[m].kind = "loop" => frames[m].label \in Labelled

JumpInv == Jumped \subseteq Owed \cup Labelled /\ LoopsStarted /\ ArmsInMatch

LabelInv == OwedOnce /\ LabelledOnce

\* The label an instruction puts on the tape and the one it jumps to.
Marks(a, ops) == IF a.op \in ops THEN {a.arg} ELSE {}

\* What appending an instruction adds to the labels on a tape or named by its jumps.
LEMMA AppendMarks ==
    ASSUME NEW t \in Seq(Instruction), NEW a \in Instruction, NEW ops
    PROVE  Args(Append(t, a), ops) = Args(t, ops) \cup Marks(a, ops)
<1>. DEFINE u == Append(t, a)
<1>1. /\ Len(t) \in Nat /\ Len(u) = Len(t) + 1 /\ u[Len(t) + 1] = a
      /\ \A i \in 1..Len(t) : u[i] = t[i]
  BY AppendTop, LenProperties
<1>. HIDE DEF u
<1>2. \A i \in 1..Len(u) : i \in 1..Len(t) \/ i = Len(t) + 1
  BY <1>1
<1>3. ASSUME NEW x \in Args(u, ops)
      PROVE  x \in Args(t, ops) \cup Marks(a, ops)
  <2>1. PICK i \in 1..Len(u) : u[i].op \in ops /\ x = u[i].arg
    BY <1>3 DEF Args, Sites
  <2>2. CASE i \in 1..Len(t)
    BY <1>1, <2>1, <2>2 DEF Args, Sites
  <2>3. CASE i = Len(t) + 1
    BY <1>1, <2>1, <2>3 DEF Marks
  <2>. QED
    BY <1>2, <2>2, <2>3
<1>4. ASSUME NEW x \in Args(t, ops)
      PROVE  x \in Args(u, ops)
  <2>1. PICK i \in 1..Len(t) : t[i].op \in ops /\ x = t[i].arg
    BY <1>4 DEF Args, Sites
  <2>2. i \in 1..Len(u) /\ u[i] = t[i]
    BY <1>1
  <2>. QED
    BY <2>1, <2>2 DEF Args, Sites
<1>5. ASSUME NEW x \in Marks(a, ops)
      PROVE  x \in Args(u, ops)
  <2>1. a.op \in ops /\ x = a.arg
    BY <1>5 DEF Marks
  <2>2. Len(t) + 1 \in 1..Len(u)
    BY <1>1
  <2>. QED
    BY <1>1, <2>1, <2>2 DEF Args, Sites
<1>. QED
  BY <1>3, <1>4, <1>5 DEF u

\* A new label does not appear a second time.
LEMMA AppendOnce ==
    ASSUME NEW t \in Seq(Instruction), NEW a \in Instruction, Once(t),
           \A l \in Marks(a, {"LABEL"}) : l \in Names \/ l \notin Args(t, {"LABEL"})
    PROVE  Once(Append(t, a))
<1>. DEFINE u == Append(t, a)
<1>1. /\ Len(t) \in Nat /\ Len(u) = Len(t) + 1 /\ u[Len(t) + 1] = a
      /\ \A i \in 1..Len(t) : u[i] = t[i]
  BY AppendTop, LenProperties
<1>. HIDE DEF u
<1>2. SUFFICES ASSUME NEW i \in 1..Len(u), NEW j \in 1..Len(u),
                      u[i].op = "LABEL", u[j].op = "LABEL",
                      u[i].arg \notin Names, u[i].arg = u[j].arg
               PROVE  i = j
  BY DEF Once, Sites, u
<1>3. (i \in 1..Len(t) \/ i = Len(t) + 1) /\ (j \in 1..Len(t) \/ j = Len(t) + 1)
  BY <1>1
<1>4. CASE i \in 1..Len(t) /\ j \in 1..Len(t)
  BY <1>1, <1>2, <1>4 DEF Once, Sites
<1>5. ASSUME NEW k \in 1..Len(t), t[k].op = "LABEL", t[k].arg \notin Names
      PROVE  a.op = "LABEL" => a.arg # t[k].arg
  <2>1. t[k].arg \in Args(t, {"LABEL"})
    BY <1>5 DEF Args, Sites
  <2>. QED
    BY <1>5, <2>1 DEF Marks
<1>6. CASE i \in 1..Len(t) /\ j = Len(t) + 1
  BY <1>1, <1>2, <1>5, <1>6
<1>7. CASE i = Len(t) + 1 /\ j \in 1..Len(t)
  BY <1>1, <1>2, <1>5, <1>7
<1>. QED
  BY <1>3, <1>4, <1>6, <1>7

\* What emitting one instruction does.
LEMMA EmitOneMarks ==
    ASSUME TypeOK, NEW a \in Instruction, Emit(<<a>>)
    PROVE  /\ Labelled' = Labelled \cup Marks(a, {"LABEL"})
           /\ Jumped' = Jumped \cup Marks(a, {"JMP", "JMP_IF_NOT"})
           /\ Once(tape) /\ (\A l \in Marks(a, {"LABEL"}) : l \in Names \/ l \notin Labelled)
                  => Once(tape')
<1>1. tape' = Append(tape, a) /\ tape \in Seq(Instruction)
  BY EmitIsAppend DEF TypeOK
<1>. QED
  BY <1>1, AppendMarks, AppendOnce DEF Labelled, Jumped

\* What emitting two instructions does.
LEMMA EmitTwoMarks ==
    ASSUME TypeOK, NEW a \in Instruction, NEW b \in Instruction, Emit(<<a, b>>)
    PROVE  /\ Labelled' = Labelled \cup Marks(a, {"LABEL"}) \cup Marks(b, {"LABEL"})
           /\ Jumped' = Jumped \cup Marks(a, {"JMP", "JMP_IF_NOT"})
                               \cup Marks(b, {"JMP", "JMP_IF_NOT"})
           /\ Once(tape) /\ (\A l \in Marks(a, {"LABEL"}) : l \in Names \/ l \notin Labelled)
                  /\ (\A l \in Marks(b, {"LABEL"}) :
                          l \in Names \/ l \notin Labelled \cup Marks(a, {"LABEL"}))
                  => Once(tape')
<1>. DEFINE t == Append(tape, a)
<1>1. tape' = Append(t, b) /\ tape \in Seq(Instruction) /\ t \in Seq(Instruction)
  BY AppendTop DEF TypeOK, Emit
<1>2. /\ Args(t, {"LABEL"}) = Labelled \cup Marks(a, {"LABEL"})
      /\ Args(t, {"JMP", "JMP_IF_NOT"}) = Jumped \cup Marks(a, {"JMP", "JMP_IF_NOT"})
  BY <1>1, AppendMarks DEF Labelled, Jumped
<1>3. Once(tape) /\ (\A l \in Marks(a, {"LABEL"}) : l \in Names \/ l \notin Labelled) => Once(t)
  BY <1>1, AppendOnce DEF Labelled
<1>. HIDE DEF t
<1>4. /\ Args(tape', {"LABEL"}) = Args(t, {"LABEL"}) \cup Marks(b, {"LABEL"})
      /\ Args(tape', {"JMP", "JMP_IF_NOT"})
             = Args(t, {"JMP", "JMP_IF_NOT"}) \cup Marks(b, {"JMP", "JMP_IF_NOT"})
  BY <1>1, AppendMarks
<1>5. Once(t) /\ (\A l \in Marks(b, {"LABEL"}) : l \in Names \/ l \notin Args(t, {"LABEL"}))
          => Once(tape')
  BY <1>1, AppendOnce
<1>. QED
  BY <1>2, <1>3, <1>4, <1>5 DEF Labelled, Jumped

\* A LABEL carries its label and a jump names one.
LEMMA JumpMarks ==
    ASSUME NEW op \in {"LABEL", "JMP", "JMP_IF_NOT"}, NEW l
    PROVE  /\ Marks(J(op, l), {"LABEL"}) = IF op = "LABEL" THEN {l} ELSE {}
           /\ Marks(J(op, l), {"JMP", "JMP_IF_NOT"}) = IF op = "LABEL" THEN {} ELSE {l}
BY DEF Marks, J

\* The other instructions neither carry nor name a label.
LEMMA PlainMarks ==
    ASSUME NEW op \in Plain \cup {"REGION_BEGIN", "REGION_END"}, NEW x
    PROVE  /\ Marks(J(op, x), {"LABEL"}) = {} /\ Marks(J(op, x), {"JMP", "JMP_IF_NOT"}) = {}
           /\ Marks(I(op), {"LABEL"}) = {} /\ Marks(I(op), {"JMP", "JMP_IF_NOT"}) = {}
BY DEF Marks, J, I, Plain

(***************************************************************************)
(* What a step on frames does to the labels owed.                          *)
(***************************************************************************)
\* What an activation owes depends on its kind and labels alone.
LEMMA OwesSame ==
    ASSUME NEW f, NEW g, f.kind = g.kind, f.label = g.label, f.end = g.end
    PROVE  Owes(f) = Owes(g)
BY DEF Owes

\* Labels owed are numbers.
LEMMA OwesNat ==
    ASSUME NEW f \in Frame
    PROVE  \A l \in Owes(f) : l \in Nat
<1>1. f.label \in Nat /\ f.end \in Nat
  BY DEF Frame
<1>2. Owes(f) \subseteq {f.label, f.end}
  BY DEF Owes
<1>. QED
  BY <1>1, <1>2

\* So are those of all the open activations.
LEMMA OwedNat ==
    ASSUME TypeOK
    PROVE  \A l \in Owed : l \in Nat
<1>1. \A m \in 1..Len(frames) : frames[m] \in Frame
  BY ElementOfSeq DEF TypeOK
<1>. QED
  BY <1>1, OwesNat DEF Owed

\* Nothing changes for a stack of the same activations.
LEMMA LoweredOwed ==
    ASSUME TypeOK, OwedOnce, NEW isReturn \in BOOLEAN, frames' = Lowered(isReturn),
           LabelCounter' = LabelCounter
    PROVE  /\ OwedOnce' /\ Owed' = Owed
           /\ ArmsInMatch => ArmsInMatch'
           /\ LoopsStarted /\ Labelled \subseteq Labelled' => LoopsStarted'
<1>1. /\ Len(frames') = Len(frames) /\ Len(frames) \in Nat
      /\ \A i \in 1..Len(frames) : /\ frames'[i].kind = frames[i].kind
                                   /\ frames'[i].label = frames[i].label
                                   /\ frames'[i].end = frames[i].end
  BY LoweredFrames, LenProperties DEF TypeOK
<1>2. \A i \in 1..Len(frames) : Owes(frames'[i]) = Owes(frames[i])
  BY <1>1, OwesSame
<1>3. Owed' = Owed
  <2>1. ASSUME NEW l \in Owed
        PROVE  l \in Owed'
    BY <1>1, <1>2, <2>1 DEF Owed
  <2>2. ASSUME NEW l \in Owed'
        PROVE  l \in Owed
    BY <1>1, <1>2, <2>2 DEF Owed
  <2>. QED
    BY <2>1, <2>2
<1>4. OwedOnce'
  <2>1. \A l \in Owed' : l < LabelCounter'
    BY <1>3 DEF OwedOnce
  <2>2. \A m, k \in 1..Len(frames') : m # k => Owes(frames'[m]) \cap Owes(frames'[k]) = {}
    <3>. SUFFICES ASSUME NEW m \in 1..Len(frames), NEW k \in 1..Len(frames), m # k
                  PROVE  Owes(frames'[m]) \cap Owes(frames'[k]) = {}
      BY <1>1
    <3>1. Owes(frames[m]) \cap Owes(frames[k]) = {}
      BY DEF OwedOnce
    <3>. QED
      BY <1>2, <3>1
  <2>3. \A m \in 1..Len(frames') : frames'[m].kind = "if" => frames'[m].label # frames'[m].end
    BY <1>1 DEF OwedOnce
  <2>. QED
    BY <2>1, <2>2, <2>3 DEF OwedOnce
<1>5. ArmsInMatch => ArmsInMatch'
  BY <1>1 DEF ArmsInMatch
<1>6. LoopsStarted /\ Labelled \subseteq Labelled' => LoopsStarted'
  BY <1>1 DEF LoopsStarted
<1>. QED
  BY <1>3, <1>4, <1>5, <1>6

\* A construct that is opened owes labels nobody had.
LEMMA OpenOwed ==
    ASSUME TypeOK, OwedOnce, NEW kind \in FrameKinds, NEW label \in Nat, NEW end \in Nat,
           Open(kind, label, end), LabelCounter' \in Nat, LabelCounter' >= LabelCounter,
           \A l \in Owes(Activation(kind, label, end)) :
               LabelCounter <= l /\ l < LabelCounter',
           kind = "if" => label # end
    PROVE  /\ OwedOnce' /\ Owed' = Owed \cup Owes(Activation(kind, label, end))
           /\ ArmsInMatch /\ (kind = "arm" => Top(frames).kind = "match"
                                                  /\ Top(frames).end = end /\ frames # <<>>)
                  => ArmsInMatch'
           /\ LoopsStarted /\ Labelled \subseteq Labelled' /\ (kind = "loop" => label \in Labelled')
                  => LoopsStarted'
<1>. DEFINE new == Activation(kind, label, end)
            depth == Len(frames)
<1>0. new.kind = kind /\ new.label = label /\ new.end = end
  BY DEF Activation
<1>1. /\ depth \in Nat /\ Len(frames') = depth + 1
      /\ frames'[depth + 1] = new
      /\ \A i \in 1..depth : /\ frames'[i].kind = frames[i].kind
                             /\ frames'[i].label = frames[i].label
                             /\ frames'[i].end = frames[i].end
  BY OpenFrames
<1>2. \A i \in 1..depth : Owes(frames'[i]) = Owes(frames[i])
  BY <1>1, OwesSame
<1>3. \A i \in 1..(depth + 1) : i \in 1..depth \/ i = depth + 1
  BY <1>1
<1>4. \A l \in Owes(new) : LabelCounter <= l /\ l < LabelCounter' /\ l \in Nat
  BY OwesNat, ActivationType
<1>5. \A l \in Owed : l < LabelCounter /\ l \in Nat /\ LabelCounter \in Nat
  BY OwedNat DEF OwedOnce, TypeOK
<1>. HIDE DEF new
<1>6. Owed' = Owed \cup Owes(new)
  <2>1. ASSUME NEW l \in Owed'
        PROVE  l \in Owed \cup Owes(new)
    BY <1>1, <1>2, <1>3, <2>1 DEF Owed
  <2>2. ASSUME NEW l \in Owed
        PROVE  l \in Owed'
    <3>1. PICK i \in 1..depth : l \in Owes(frames[i])
      BY <2>2 DEF Owed
    <3>2. i \in 1..Len(frames') /\ l \in Owes(frames'[i])
      BY <1>1, <1>2, <3>1
    <3>. QED
      BY <3>2 DEF Owed
  <2>3. ASSUME NEW l \in Owes(new)
        PROVE  l \in Owed'
    <3>1. depth + 1 \in 1..Len(frames')
      BY <1>1
    <3>. QED
      BY <1>1, <2>3, <3>1 DEF Owed
  <2>. QED
    BY <2>1, <2>2, <2>3
<1>7. \A i \in 1..depth : Owes(frames[i]) \cap Owes(new) = {}
  <2>. SUFFICES ASSUME NEW i \in 1..depth, NEW l \in Owes(frames[i]), l \in Owes(new)
                PROVE  FALSE
    OBVIOUS
  <2>1. l \in Owed
    BY DEF Owed
  <2>. QED
    BY <1>4, <1>5, <2>1
<1>8. OwedOnce'
  <2>1. \A l \in Owed' : l < LabelCounter'
    BY <1>4, <1>5, <1>6
  <2>2. \A m, k \in 1..Len(frames') : m # k => Owes(frames'[m]) \cap Owes(frames'[k]) = {}
    <3>. SUFFICES ASSUME NEW m \in 1..(depth + 1), NEW k \in 1..(depth + 1), m # k
                  PROVE  Owes(frames'[m]) \cap Owes(frames'[k]) = {}
      BY <1>1
    <3>1. CASE m \in 1..depth /\ k \in 1..depth
      BY <1>2, <3>1 DEF OwedOnce
    <3>2. CASE m \in 1..depth /\ k = depth + 1
      BY <1>1, <1>2, <1>7, <3>2
    <3>3. CASE m = depth + 1 /\ k \in 1..depth
      BY <1>1, <1>2, <1>7, <3>3
    <3>. QED
      BY <1>3, <3>1, <3>2, <3>3
  <2>3. \A m \in 1..Len(frames') : frames'[m].kind = "if" => frames'[m].label # frames'[m].end
    BY <1>0, <1>1, <1>3 DEF OwedOnce
  <2>. QED
    BY <2>1, <2>2, <2>3 DEF OwedOnce
<1>9. ASSUME ArmsInMatch, kind = "arm" => Top(frames).kind = "match"
                              /\ Top(frames).end = end /\ frames # <<>>
      PROVE  ArmsInMatch'
  <2>. SUFFICES ASSUME NEW m \in 1..(depth + 1), frames'[m].kind = "arm"
                PROVE  m > 1 /\ frames'[m - 1].kind = "match" /\ frames'[m - 1].end = frames'[m].end
    BY <1>1 DEF ArmsInMatch
  <2>1. CASE m \in 1..depth
    <3>1. m > 1 /\ frames[m - 1].kind = "match" /\ frames[m - 1].end = frames[m].end
      BY <1>1, <1>9, <2>1 DEF ArmsInMatch
    <3>2. m - 1 \in 1..depth
      BY <1>1, <2>1, <3>1
    <3>. QED
      BY <1>1, <2>1, <3>1, <3>2
  <2>2. CASE m = depth + 1
    <3>1. kind = "arm"
      BY <1>0, <1>1, <2>2
    <3>2. depth >= 1 /\ frames[depth].kind = "match" /\ frames[depth].end = end
      BY <1>9, <3>1, PopTop DEF Top, TypeOK
    <3>3. m - 1 = depth /\ depth \in 1..depth
      BY <1>1, <2>2, <3>2
    <3>. QED
      BY <1>0, <1>1, <2>2, <3>2, <3>3
  <2>. QED
    BY <1>3, <2>1, <2>2
<1>10. ASSUME LoopsStarted, Labelled \subseteq Labelled', kind = "loop" => label \in Labelled'
       PROVE  LoopsStarted'
  BY <1>0, <1>1, <1>3, <1>10 DEF LoopsStarted
<1>. QED
  BY <1>6, <1>8, <1>9, <1>10 DEF new

\* An activation that returns leaves the others what they owe.
LEMMA CloseOwed ==
    ASSUME TypeOK, OwedOnce, NEW kind, Close(kind), LabelCounter' = LabelCounter
    PROVE  /\ OwedOnce' /\ Owed = Owed' \cup Owes(Top(frames)) /\ Owed' \cap Owes(Top(frames)) = {}
           /\ ArmsInMatch => ArmsInMatch'
           /\ LoopsStarted /\ Labelled \subseteq Labelled' => LoopsStarted'
<1>. DEFINE depth == Len(frames)
<1>1. /\ depth \in Nat /\ depth >= 1 /\ Len(frames') = depth - 1
      /\ \A i \in 1..(depth - 1) : frames'[i] = frames[i]
      /\ Top(frames) = frames[depth]
  BY PopTop, LenProperties DEF TypeOK, Close, Top
<1>2. \A i \in 1..depth : i \in 1..(depth - 1) \/ i = depth
  BY <1>1
<1>3. \A i \in 1..(depth - 1) : i \in 1..depth /\ i # depth /\ depth \in 1..depth
  BY <1>1
<1>4. Owed = Owed' \cup Owes(Top(frames))
  <2>1. ASSUME NEW l \in Owed
        PROVE  l \in Owed' \cup Owes(Top(frames))
    BY <1>1, <1>2, <2>1 DEF Owed
  <2>2. ASSUME NEW l \in Owed'
        PROVE  l \in Owed
    BY <1>1, <1>3, <2>2 DEF Owed
  <2>3. ASSUME NEW l \in Owes(Top(frames))
        PROVE  l \in Owed
    <3>1. depth \in 1..Len(frames)
      BY <1>1
    <3>. QED
      BY <1>1, <2>3, <3>1 DEF Owed
  <2>. QED
    BY <2>1, <2>2, <2>3
<1>5. Owed' \cap Owes(Top(frames)) = {}
  <2>. SUFFICES ASSUME NEW l \in Owed', l \in Owes(Top(frames))
                PROVE  FALSE
    OBVIOUS
  <2>1. PICK i \in 1..(depth - 1) : l \in Owes(frames[i])
    BY <1>1 DEF Owed
  <2>. QED
    BY <1>1, <1>3, <2>1 DEF OwedOnce
<1>6. OwedOnce'
  BY <1>1, <1>3, <1>4 DEF OwedOnce
<1>7. ArmsInMatch => ArmsInMatch'
  <2>. SUFFICES ASSUME ArmsInMatch, NEW m \in 1..(depth - 1), frames'[m].kind = "arm"
                PROVE  m > 1 /\ frames'[m - 1].kind = "match" /\ frames'[m - 1].end = frames'[m].end
    BY <1>1 DEF ArmsInMatch
  <2>1. m > 1 /\ frames[m - 1].kind = "match" /\ frames[m - 1].end = frames[m].end
    BY <1>1, <1>3 DEF ArmsInMatch
  <2>2. m - 1 \in 1..(depth - 1)
    BY <1>1, <2>1
  <2>. QED
    BY <1>1, <2>1, <2>2
<1>8. LoopsStarted /\ Labelled \subseteq Labelled' => LoopsStarted'
  BY <1>1, <1>3 DEF LoopsStarted
<1>. QED
  BY <1>4, <1>5, <1>6, <1>7, <1>8

\* Between the branches of an if one of its two labels is owed no more.
LEMMA ElseOwed ==
    ASSUME TypeOK, OwedOnce, LowerElse
    PROVE  /\ OwedOnce' /\ Owed = Owed' \cup {Top(frames).label}
           /\ Top(frames).label \notin Owed' /\ Top(frames).end \in Owed'
           /\ ArmsInMatch => ArmsInMatch'
           /\ LoopsStarted /\ Labelled \subseteq Labelled' => LoopsStarted'
<1>. DEFINE depth == Len(frames)
            top == Top(frames)
            else == Activation("else", top.label, top.end)
<1>0. /\ depth \in Nat /\ depth >= 1 /\ top \in Frame
      /\ Pop(frames) \in Seq(Frame)
      /\ Len(Pop(frames)) = depth - 1
      /\ \A i \in 1..(depth - 1) : Pop(frames)[i] = frames[i]
      /\ top = frames[depth] /\ top.kind = "if"
  BY PopTop, LenProperties DEF TypeOK, LowerElse, Top
<1>1. else \in Frame /\ else.kind = "else" /\ else.label = top.label /\ else.end = top.end
  BY <1>0, ActivationType DEF Frame, FrameKinds, Activation
<1>2. Owes(else) = {top.end} /\ Owes(top) = {top.label, top.end}
  BY <1>0, <1>1 DEF Owes
<1>. HIDE DEF else
<1>3. /\ Len(frames') = depth
      /\ frames'[depth] = else
      /\ \A i \in 1..(depth - 1) : frames'[i] = frames[i]
  <2>1. frames' = Append(Pop(frames), else)
    BY DEF LowerElse, else
  <2>. QED
    BY <1>0, <1>1, <2>1, AppendTop
<1>. HIDE DEF top
<1>4. \A i \in 1..depth : i \in 1..(depth - 1) \/ i = depth
  BY <1>0
<1>5. \A i \in 1..(depth - 1) : i \in 1..depth /\ i # depth
  BY <1>0
<1>6. depth \in 1..depth
  BY <1>0
<1>7. top.label # top.end
  BY <1>0, <1>6 DEF OwedOnce
<1>8. \A i \in 1..(depth - 1) : Owes(frames[i]) \cap {top.label, top.end} = {}
  BY <1>0, <1>2, <1>5, <1>6 DEF OwedOnce
<1>9. Owed = Owed' \cup {top.label}
  <2>1. ASSUME NEW l \in Owed
        PROVE  l \in Owed' \cup {top.label}
    <3>1. PICK i \in 1..depth : l \in Owes(frames[i])
      BY <2>1 DEF Owed
    <3>2. CASE i = depth
      BY <1>0, <1>2, <1>3, <1>6, <3>1, <3>2 DEF Owed
    <3>3. CASE i \in 1..(depth - 1)
      BY <1>3, <1>5, <3>1, <3>3 DEF Owed
    <3>. QED
      BY <1>4, <3>2, <3>3
  <2>2. ASSUME NEW l \in Owed'
        PROVE  l \in Owed
    <3>1. PICK i \in 1..depth : l \in Owes(frames'[i])
      BY <1>3, <2>2 DEF Owed
    <3>2. CASE i = depth
      BY <1>0, <1>2, <1>3, <1>6, <3>1, <3>2 DEF Owed
    <3>3. CASE i \in 1..(depth - 1)
      BY <1>3, <1>5, <3>1, <3>3 DEF Owed
    <3>. QED
      BY <1>4, <3>2, <3>3
  <2>3. top.label \in Owed
    BY <1>0, <1>2, <1>6 DEF Owed
  <2>. QED
    BY <2>1, <2>2, <2>3
<1>10. top.end \in Owed'
  BY <1>2, <1>3, <1>6 DEF Owed
<1>11. top.label \notin Owed'
  <2>. SUFFICES ASSUME NEW i \in 1..depth, top.label \in Owes(frames'[i])
                PROVE  FALSE
    BY <1>3 DEF Owed
  <2>. QED
    BY <1>2, <1>3, <1>4, <1>7, <1>8
<1>12. OwedOnce'
  <2>1. \A l \in Owed' : l < LabelCounter'
    BY <1>9 DEF OwedOnce, LowerElse
  <2>2. \A m, k \in 1..depth : m # k => Owes(frames'[m]) \cap Owes(frames'[k]) = {}
    <3>. SUFFICES ASSUME NEW m \in 1..depth, NEW k \in 1..depth, m # k
                  PROVE  Owes(frames'[m]) \cap Owes(frames'[k]) = {}
      OBVIOUS
    <3>1. CASE m \in 1..(depth - 1) /\ k \in 1..(depth - 1)
      BY <1>3, <1>5, <3>1 DEF OwedOnce
    <3>2. CASE m \in 1..(depth - 1) /\ k = depth
      BY <1>2, <1>3, <1>8, <3>2
    <3>3. CASE m = depth /\ k \in 1..(depth - 1)
      BY <1>2, <1>3, <1>8, <3>3
    <3>. QED
      BY <1>4, <3>1, <3>2, <3>3
  <2>3. \A m \in 1..depth : frames'[m].kind = "if" => frames'[m].label # frames'[m].end
    BY <1>1, <1>3, <1>4, <1>5 DEF OwedOnce
  <2>. QED
    BY <1>3, <2>1, <2>2, <2>3 DEF OwedOnce
<1>13. ArmsInMatch => ArmsInMatch'
  <2>. SUFFICES ASSUME ArmsInMatch, NEW m \in 1..depth, frames'[m].kind = "arm"
                PROVE  m > 1 /\ frames'[m - 1].kind = "match" /\ frames'[m - 1].end = frames'[m].end
    BY <1>3 DEF ArmsInMatch
  <2>1. m \in 1..(depth - 1)
    BY <1>1, <1>3, <1>4
  <2>2. m > 1 /\ frames[m - 1].kind = "match" /\ frames[m - 1].end = frames[m].end
    BY <1>3, <1>5, <2>1 DEF ArmsInMatch
  <2>3. m - 1 \in 1..(depth - 1)
    BY <1>0, <2>1, <2>2
  <2>. QED
    BY <1>3, <2>1, <2>2, <2>3
<1>14. LoopsStarted /\ Labelled \subseteq Labelled' => LoopsStarted'
  BY <1>1, <1>3, <1>4, <1>5 DEF LoopsStarted
<1>. QED
  BY <1>9, <1>10, <1>11, <1>12, <1>13, <1>14 DEF top

(***************************************************************************)
(* The steps.                                                              *)
(***************************************************************************)
\* The labels of a step are new on the tape, and what it comes to owe is new.
LEMMA LabelledKept ==
    ASSUME TypeOK, LabelInv, OwedOnce', Once(tape'),
           LabelCounter' \in Nat, LabelCounter' >= LabelCounter,
           \A l \in Owed' : l \in Owed \/ (LabelCounter <= l /\ l \in Nat),
           \A l \in Labelled' : \/ l \in Labelled
                                \/ l \in Names
                                \/ l \in Nat /\ l < LabelCounter' /\ l \notin Owed'
    PROVE  LabelInv'
<1>1. LabelCounter \in Nat
  BY DEF TypeOK
<1>2. \A l \in Labelled' \ Names : l \in Nat /\ l < LabelCounter' /\ l \notin Owed'
  <2>. SUFFICES ASSUME NEW l \in Labelled \ Names
                PROVE  l \in Nat /\ l < LabelCounter' /\ l \notin Owed'
    OBVIOUS
  <2>1. l \in Nat /\ l < LabelCounter /\ l \notin Owed
    BY DEF LabelInv, LabelledOnce
  <2>. QED
    BY <1>1, <2>1
<1>. QED
  BY <1>2 DEF LabelInv, LabelledOnce

\* A step that only puts straight-line instructions on the tape.
LEMMA QuietLabels ==
    ASSUME TypeOK, LabelInv, JumpInv, OwedOnce', Owed' = Owed,
           Labelled' = Labelled, Jumped' = Jumped, Once(tape'),
           LabelCounter' \in Nat, LabelCounter' >= LabelCounter,
           ArmsInMatch', LoopsStarted'
    PROVE  LabelInv' /\ JumpInv'
<1>1. LabelInv'
  BY LabelledKept
<1>2. JumpInv'
  BY DEF JumpInv
<1>. QED
  BY <1>1, <1>2

\* Where break and continue go.
LEMMA LeaveToMarks ==
    ASSUME TypeOK, LoopInv, LoopsStarted, NEW side \in {"start", "end"}
    PROVE  /\ Marks(LeaveTo(side), {"LABEL"}) = {}
           /\ Marks(LeaveTo(side), {"JMP", "JMP_IF_NOT"}) \subseteq Owed \cup Labelled
<1>1. CASE LoopStack = <<>>
  <2>1. LeaveTo(side) = I("TRAP")
    BY <1>1 DEF LeaveTo
  <2>. QED
    BY <2>1, PlainMarks DEF Plain
<1>2. CASE LoopStack # <<>>
  <2>1. Len(LoopStack) \in 1..Len(LoopStack)
    BY <1>2, PopTop DEF TypeOK
  <2>2. PICK m \in 1..Len(frames) : frames[m].kind = "loop" /\ Top(LoopStack) = LoopOf(frames[m])
    BY <2>1, LoopInvOpen DEF LoopStackOpen, Top
  <2>3. frames[m].label \in Labelled
    BY <2>2 DEF LoopsStarted
  <2>4. frames[m].end \in Owed
    <3>1. frames[m].end \in Owes(frames[m])
      BY <2>2 DEF Owes
    <3>. QED
      BY <3>1 DEF Owed
  <2>5. Top(LoopStack)[side] \in Owed \cup Labelled
    BY <2>2, <2>3, <2>4 DEF LoopOf
  <2>6. LeaveTo(side) = J("JMP", Top(LoopStack)[side])
    BY <1>2 DEF LeaveTo
  <2>. QED
    BY <2>5, <2>6, JumpMarks
<1>. QED
  BY <1>1, <1>2

\* Statements without a body.
LEMMA SimpleLabels ==
    ASSUME TypeOK, TypeOK', LabelInv, JumpInv, LoopInv,
           LowerStraight \/ LowerReturn \/ LowerBreak \/ LowerContinue
    PROVE  LabelInv' /\ JumpInv'
<1>0. OwedOnce /\ Once(tape) /\ LoopsStarted /\ ArmsInMatch /\ Jumped \subseteq Owed \cup Labelled
  BY DEF LabelInv, LabelledOnce, JumpInv
<1>a. LabelCounter \in Nat
  BY DEF TypeOK
<1>b. LabelCounter' = LabelCounter
  BY DEF LowerStraight, LowerReturn, LowerBreak, LowerContinue
<1>1. LabelCounter' = LabelCounter /\ LabelCounter' >= LabelCounter /\ LabelCounter' \in Nat
  BY <1>a, <1>b
<1>2. frames' = Lowered(TRUE) \/ frames' = Lowered(FALSE)
  BY DEF LowerStraight, LowerReturn, LowerBreak, LowerContinue
<1>3. /\ OwedOnce' /\ Owed' = Owed /\ ArmsInMatch'
      /\ Labelled \subseteq Labelled' => LoopsStarted'
  BY <1>0, <1>1, <1>2, LoweredOwed
<1>4. CASE LowerStraight
  <2>1. tape' = tape
    BY <1>4 DEF LowerStraight
  <2>2. Labelled' = Labelled /\ Jumped' = Jumped /\ Once(tape')
    BY <1>0, <2>1 DEF Labelled, Jumped
  <2>. QED
    BY <1>1, <1>3, <2>2, QuietLabels
<1>5. CASE LowerReturn
  <2>1. Emit(<<I("RET")>>) /\ I("RET") \in Instruction
    BY <1>5, PlainInstruction DEF LowerReturn, Plain
  <2>2. Marks(I("RET"), {"LABEL"}) = {} /\ Marks(I("RET"), {"JMP", "JMP_IF_NOT"}) = {}
    BY PlainMarks DEF Plain
  <2>3. Labelled' = Labelled /\ Jumped' = Jumped /\ Once(tape')
    BY <1>0, <2>1, <2>2, EmitOneMarks
  <2>. QED
    BY <1>1, <1>3, <2>3, QuietLabels
<1>6. ASSUME NEW side \in {"start", "end"}, Emit(<<LeaveTo(side)>>)
      PROVE  LabelInv' /\ JumpInv'
  <2>1. LeaveTo(side) \in Instruction
    BY LeaveToType
  <2>2. /\ Marks(LeaveTo(side), {"LABEL"}) = {}
        /\ Marks(LeaveTo(side), {"JMP", "JMP_IF_NOT"}) \subseteq Owed \cup Labelled
    BY <1>0, LeaveToMarks
  <2>3. /\ Labelled' = Labelled /\ Once(tape')
        /\ Jumped' = Jumped \cup Marks(LeaveTo(side), {"JMP", "JMP_IF_NOT"})
    BY <1>0, <1>6, <2>1, <2>2, EmitOneMarks
  <2>4. Labelled' = Labelled \cup {} /\ Owed' \subseteq Owed \cup {} /\ LoopsStarted'
    BY <1>3, <2>3
  <2>5. LabelInv'
    BY <1>1, <1>3, <2>3, <2>4, LabelledKept
  <2>6. Jumped' \subseteq Owed' \cup Labelled'
    BY <1>0, <1>3, <2>2, <2>3
  <2>. QED
    BY <1>3, <2>4, <2>5, <2>6 DEF JumpInv
<1>. QED
  BY <1>4, <1>5, <1>6 DEF LowerBreak, LowerContinue

\* The steps of an if.
LEMMA IfLabels ==
    ASSUME TypeOK, TypeOK', LabelInv, JumpInv, LowerIf \/ LowerElse \/ EndIf
    PROVE  LabelInv' /\ JumpInv'
<1>0. OwedOnce /\ Once(tape) /\ LoopsStarted /\ ArmsInMatch /\ Jumped \subseteq Owed \cup Labelled
  BY DEF LabelInv, LabelledOnce, JumpInv
<1>1. LabelCounter \in Nat /\ LabelCounter' \in Nat
  BY DEF TypeOK
<1>2. CASE LowerIf
  <2>. DEFINE jump == J("JMP_IF_NOT", LabelCounter)
              new == Activation("if", LabelCounter, LabelCounter + 1)
  <2>1. Emit(<<jump>>) /\ jump \in Instruction /\ LabelCounter' = LabelCounter + 2
    BY <1>2, NextLabels, LabelInstruction DEF LowerIf, NewLabels
  <2>2. Marks(jump, {"LABEL"}) = {} /\ Marks(jump, {"JMP", "JMP_IF_NOT"}) = {LabelCounter}
    BY JumpMarks
  <2>3. Owes(new) = {LabelCounter, LabelCounter + 1}
    BY DEF Owes, Activation
  <2>. HIDE DEF jump
  <2>4. Labelled' = Labelled \cup {} /\ Jumped' = Jumped \cup {LabelCounter} /\ Once(tape')
    BY <1>0, <2>1, <2>2, EmitOneMarks
  <2>5. /\ "if" \in FrameKinds /\ LabelCounter + 1 \in Nat /\ LabelCounter # LabelCounter + 1
        /\ Open("if", LabelCounter, LabelCounter + 1)
    BY <1>1, <1>2 DEF LowerIf, FrameKinds
  <2>6. \A l \in Owes(new) : LabelCounter <= l /\ l < LabelCounter' /\ l \in Nat
    BY <1>1, <2>1, <2>3
  <2>7. LabelCounter' >= LabelCounter
    BY <1>1, <2>1
  <2>8. OwedOnce' /\ Owed' = Owed \cup Owes(new) /\ ArmsInMatch' /\ LoopsStarted'
    BY <1>0, <1>1, <2>4, <2>5, <2>6, <2>7, OpenOwed
  <2>. HIDE DEF new
  <2>9. LabelInv'
    BY <1>1, <2>4, <2>6, <2>7, <2>8, LabelledKept
  <2>. QED
    BY <1>0, <2>3, <2>4, <2>8, <2>9 DEF JumpInv
<1>3. CASE LowerElse
  <2>. DEFINE jump == J("JMP", Top(frames).end)
              mark == J("LABEL", Top(frames).label)
  <2>1. Emit(<<jump, mark>>) /\ LabelCounter' = LabelCounter /\ LabelCounter' >= LabelCounter
    BY <1>1, <1>3 DEF LowerElse
  <2>2. Top(frames).label \in Nat /\ Top(frames).end \in Nat
    <3>1. Top(frames) \in Frame
      BY <1>3, PopTop DEF TypeOK, LowerElse
    <3>. QED
      BY <3>1 DEF Frame
  <2>3. jump \in Instruction /\ mark \in Instruction
    BY <2>2, LabelInstruction DEF Label
  <2>4. /\ Marks(jump, {"LABEL"}) = {} /\ Marks(mark, {"JMP", "JMP_IF_NOT"}) = {}
        /\ Marks(mark, {"LABEL"}) = {Top(frames).label}
        /\ Marks(jump, {"JMP", "JMP_IF_NOT"}) = {Top(frames).end}
    BY JumpMarks
  <2>. HIDE DEF jump, mark
  <2>5. /\ OwedOnce' /\ Owed = Owed' \cup {Top(frames).label}
        /\ Top(frames).label \notin Owed' /\ Top(frames).end \in Owed'
        /\ ArmsInMatch' /\ (Labelled \subseteq Labelled' => LoopsStarted')
    BY <1>0, <1>3, ElseOwed
  <2>6. \A l \in {Top(frames).label} : l \in Names \/ l \notin Labelled
    BY <2>5 DEF LabelInv, LabelledOnce
  <2>7. /\ Labelled' = Labelled \cup {Top(frames).label}
        /\ Jumped' = Jumped \cup {Top(frames).end}
        /\ Once(tape')
    BY <1>0, <2>1, <2>3, <2>4, <2>6, EmitTwoMarks
  <2>8. Top(frames).label < LabelCounter' /\ Owed' \subseteq Owed \cup {}
    BY <1>0, <2>1, <2>5 DEF OwedOnce
  <2>9. LabelInv'
    <3>1. \A l \in {Top(frames).label} : l \in Names \/ (l \in Nat /\ l < LabelCounter' /\ l \notin Owed')
      BY <2>2, <2>5, <2>8
    <3>. QED
      BY <1>1, <2>1, <2>5, <2>7, <2>8, <3>1, LabelledKept
  <2>. QED
    BY <1>0, <2>5, <2>7, <2>9 DEF JumpInv
<1>4. CASE EndIf
  <2>. DEFINE mark == J("LABEL", Top(frames).end)
  <2>1. /\ Emit(<<mark>>) /\ Close("else") /\ LabelCounter' = LabelCounter
        /\ LabelCounter' >= LabelCounter
    BY <1>1, <1>4 DEF EndIf
  <2>2. Top(frames).end \in Nat /\ Owes(Top(frames)) = {Top(frames).end}
    BY <2>1, CloseType DEF Close, Owes
  <2>3. mark \in Instruction
    BY <2>2, LabelInstruction DEF Label
  <2>4. Marks(mark, {"LABEL"}) = {Top(frames).end} /\ Marks(mark, {"JMP", "JMP_IF_NOT"}) = {}
    BY JumpMarks
  <2>. HIDE DEF mark
  <2>5. /\ OwedOnce' /\ Owed = Owed' \cup {Top(frames).end} /\ Top(frames).end \notin Owed'
        /\ ArmsInMatch' /\ (Labelled \subseteq Labelled' => LoopsStarted')
    BY <1>0, <2>1, <2>2, CloseOwed
  <2>6. \A l \in {Top(frames).end} : l \in Names \/ l \notin Labelled
    BY <2>5 DEF LabelInv, LabelledOnce
  <2>7. Labelled' = Labelled \cup {Top(frames).end} /\ Jumped' = Jumped /\ Once(tape')
    BY <1>0, <2>1, <2>3, <2>4, <2>6, EmitOneMarks
  <2>8. Top(frames).end < LabelCounter' /\ Owed' \subseteq Owed \cup {}
    BY <1>0, <2>1, <2>5 DEF OwedOnce
  <2>9. LabelInv'
    <3>1. \A l \in {Top(frames).end} : l \in Names \/ (l \in Nat /\ l < LabelCounter' /\ l \notin Owed')
      BY <2>2, <2>5, <2>8
    <3>. QED
      BY <1>1, <2>1, <2>5, <2>7, <2>8, <3>1, LabelledKept
  <2>. QED
    BY <1>0, <2>5, <2>7, <2>9 DEF JumpInv
<1>. QED
  BY <1>2, <1>3, <1>4

\* The steps of a loop.
LEMMA LoopLabels ==
    ASSUME TypeOK, TypeOK', LabelInv, JumpInv, LowerWhile \/ LowerFor \/ EndLoop
    PROVE  LabelInv' /\ JumpInv'
<1>0. OwedOnce /\ Once(tape) /\ LoopsStarted /\ ArmsInMatch /\ Jumped \subseteq Owed \cup Labelled
  BY DEF LabelInv, LabelledOnce, JumpInv
<1>1. LabelCounter \in Nat /\ LabelCounter' \in Nat
  BY DEF TypeOK
<1>2. ASSUME NEW kind, OpenLoop(kind)
      PROVE  LabelInv' /\ JumpInv'
  <2>. DEFINE mark == J("LABEL", LabelCounter)
              jump == J("JMP_IF_NOT", LabelCounter + 1)
              new == Activation("loop", LabelCounter, LabelCounter + 1)
  <2>1. /\ Emit(<<mark, jump>>) /\ mark \in Instruction /\ jump \in Instruction
        /\ LabelCounter' = LabelCounter + 2
    BY <1>2, NextLabels, LabelInstruction DEF OpenLoop, NewLabels
  <2>2. /\ Marks(jump, {"LABEL"}) = {} /\ Marks(jump, {"JMP", "JMP_IF_NOT"}) = {LabelCounter + 1}
        /\ Marks(mark, {"LABEL"}) = {LabelCounter} /\ Marks(mark, {"JMP", "JMP_IF_NOT"}) = {}
    BY JumpMarks
  <2>3. Owes(new) = {LabelCounter + 1}
    BY DEF Owes, Activation
  <2>. HIDE DEF jump, mark
  <2>4. \A l \in {LabelCounter} : l \in Names \/ l \notin Labelled
    BY <1>1 DEF LabelInv, LabelledOnce
  <2>5. /\ Labelled' = Labelled \cup {LabelCounter} /\ Jumped' = Jumped \cup {LabelCounter + 1}
        /\ Once(tape')
    BY <1>0, <2>1, <2>2, <2>4, EmitTwoMarks
  <2>6. /\ "loop" \in FrameKinds /\ LabelCounter + 1 \in Nat
        /\ Open("loop", LabelCounter, LabelCounter + 1)
    BY <1>1, <1>2 DEF OpenLoop, FrameKinds
  <2>7. \A l \in Owes(new) : LabelCounter <= l /\ l < LabelCounter' /\ l \in Nat
    BY <1>1, <2>1, <2>3
  <2>8. LabelCounter' >= LabelCounter /\ LabelCounter < LabelCounter'
    BY <1>1, <2>1
  <2>9. OwedOnce' /\ Owed' = Owed \cup Owes(new) /\ ArmsInMatch' /\ LoopsStarted'
    BY <1>0, <1>1, <2>5, <2>6, <2>7, <2>8, OpenOwed
  <2>. HIDE DEF new
  <2>10. LabelCounter \notin Owed'
    <3>1. LabelCounter \notin Owed
      BY <1>0, <1>1 DEF OwedOnce
    <3>. QED
      BY <1>1, <2>3, <2>9, <3>1
  <2>11. LabelInv'
    BY <1>1, <2>5, <2>7, <2>8, <2>9, <2>10, LabelledKept
  <2>. QED
    BY <1>0, <2>3, <2>5, <2>9, <2>11 DEF JumpInv
<1>3. CASE EndLoop
  <2>. DEFINE jump == J("JMP", Top(frames).label)
              mark == J("LABEL", Top(frames).end)
  <2>1. /\ Emit(<<jump, mark>>) /\ Close("loop") /\ LabelCounter' = LabelCounter
        /\ LabelCounter' >= LabelCounter
    BY <1>1, <1>3 DEF EndLoop
  <2>2. /\ Top(frames).end \in Nat /\ Top(frames).label \in Nat
        /\ Owes(Top(frames)) = {Top(frames).end}
    BY <2>1, CloseType DEF Close, Owes
  <2>3. mark \in Instruction /\ jump \in Instruction
    BY <2>2, LabelInstruction DEF Label
  <2>4. /\ Marks(jump, {"LABEL"}) = {} /\ Marks(mark, {"JMP", "JMP_IF_NOT"}) = {}
        /\ Marks(mark, {"LABEL"}) = {Top(frames).end}
        /\ Marks(jump, {"JMP", "JMP_IF_NOT"}) = {Top(frames).label}
    BY JumpMarks
  <2>. HIDE DEF jump, mark
  <2>5. /\ OwedOnce' /\ Owed = Owed' \cup {Top(frames).end} /\ Top(frames).end \notin Owed'
        /\ ArmsInMatch' /\ (Labelled \subseteq Labelled' => LoopsStarted')
    BY <1>0, <2>1, <2>2, CloseOwed
  <2>6. \A l \in {Top(frames).end} : l \in Names \/ l \notin Labelled
    BY <2>5 DEF LabelInv, LabelledOnce
  <2>7. /\ Labelled' = Labelled \cup {Top(frames).end}
        /\ Jumped' = Jumped \cup {Top(frames).label}
        /\ Once(tape')
    BY <1>0, <2>1, <2>3, <2>4, <2>6, EmitTwoMarks
  <2>8. Top(frames).end < LabelCounter'
    BY <1>0, <2>1, <2>5 DEF OwedOnce
  <2>9. LabelInv'
    BY <1>1, <2>1, <2>2, <2>5, <2>7, <2>8, LabelledKept
  <2>10. Top(frames).label \in Labelled
    <3>1. Len(frames) \in 1..Len(frames) /\ frames[Len(frames)].kind = "loop"
      BY <2>1, PopTop DEF Close, Top, TypeOK
    <3>. QED
      BY <1>0, <3>1 DEF LoopsStarted, Top
  <2>. QED
    BY <1>0, <2>5, <2>7, <2>9, <2>10 DEF JumpInv
<1>. QED
  BY <1>2, <1>3 DEF LowerWhile, LowerFor

\* Blocks, regions and subprograms: their labels are names and their brackets plain.
LEMMA PlainOpenLabels ==
    ASSUME TypeOK, TypeOK', LabelInv, JumpInv,
           NEW kind \in Regions \cup {"block", "subprogram"}, Open(kind, 0, 0),
           LabelCounter' = LabelCounter,
           Once(tape'), Jumped' = Jumped,
           \A l \in Labelled' : l \in Labelled \cup Names, Labelled \subseteq Labelled'
    PROVE  LabelInv' /\ JumpInv'
<1>0. OwedOnce /\ LoopsStarted /\ ArmsInMatch /\ Jumped \subseteq Owed \cup Labelled
  BY DEF LabelInv, JumpInv
<1>1. LabelCounter \in Nat /\ LabelCounter' \in Nat
  BY DEF TypeOK
<1>2. LabelCounter' >= LabelCounter
  BY <1>1
<1>3. /\ kind \in FrameKinds /\ kind # "loop" /\ kind # "arm" /\ kind # "if"
      /\ Owes(Activation(kind, 0, 0)) = {}
  BY DEF Regions, FrameKinds, Owes, Activation
<1>4. OwedOnce' /\ Owed' = Owed /\ ArmsInMatch' /\ LoopsStarted'
  <2>1. \A l \in Owes(Activation(kind, 0, 0)) : LabelCounter <= l /\ l < LabelCounter'
    BY <1>3
  <2>2. /\ OwedOnce' /\ Owed' = Owed \cup Owes(Activation(kind, 0, 0))
        /\ ArmsInMatch' /\ LoopsStarted'
    BY <1>0, <1>1, <1>2, <1>3, <2>1, OpenOwed
  <2>. QED
    BY <1>3, <2>2
<1>5. LabelInv'
  BY <1>1, <1>2, <1>4, LabelledKept
<1>. QED
  BY <1>0, <1>4, <1>5 DEF JumpInv

\* At their end they owe nothing.
LEMMA PlainCloseLabels ==
    ASSUME TypeOK, TypeOK', LabelInv, JumpInv,
           NEW kind \in Regions \cup {"block", "subprogram"}, Close(kind),
           LabelCounter' = LabelCounter,
           Once(tape'), Jumped' = Jumped, Labelled' = Labelled
    PROVE  LabelInv' /\ JumpInv'
<1>0. OwedOnce /\ LoopsStarted /\ ArmsInMatch /\ Jumped \subseteq Owed \cup Labelled
  BY DEF LabelInv, JumpInv
<1>1. LabelCounter \in Nat /\ LabelCounter' \in Nat
  BY DEF TypeOK
<1>2. LabelCounter' >= LabelCounter
  BY <1>1
<1>3. Owes(Top(frames)) = {}
  BY DEF Regions, Owes, Close
<1>4. OwedOnce' /\ Owed' = Owed /\ ArmsInMatch' /\ LoopsStarted'
  BY <1>0, <1>3, CloseOwed
<1>. QED
  BY <1>1, <1>2, <1>4, QuietLabels

\* One or two plain instructions leave labels and jumps as they are.
LEMMA PlainEmit ==
    ASSUME TypeOK, Once(tape),
           NEW a \in Instruction, NEW b \in Instruction,
           a.op \notin {"LABEL", "JMP", "JMP_IF_NOT"}, b.op \notin {"LABEL", "JMP", "JMP_IF_NOT"},
           Emit(<<a>>) \/ Emit(<<a, b>>)
    PROVE  Labelled' = Labelled /\ Jumped' = Jumped /\ Once(tape')
<1>1. /\ Marks(a, {"LABEL"}) = {} /\ Marks(a, {"JMP", "JMP_IF_NOT"}) = {}
      /\ Marks(b, {"LABEL"}) = {} /\ Marks(b, {"JMP", "JMP_IF_NOT"}) = {}
  BY DEF Marks
<1>2. CASE Emit(<<a>>)
  BY <1>1, <1>2, EmitOneMarks
<1>3. CASE Emit(<<a, b>>)
  <2>1. /\ \A l \in Marks(a, {"LABEL"}) : l \in Names \/ l \notin Labelled
        /\ \A l \in Marks(b, {"LABEL"}) :
               l \in Names \/ l \notin Labelled \cup Marks(a, {"LABEL"})
    BY <1>1
  <2>2. /\ Labelled' = Labelled \cup Marks(a, {"LABEL"}) \cup Marks(b, {"LABEL"})
        /\ Jumped' = Jumped \cup Marks(a, {"JMP", "JMP_IF_NOT"})
                            \cup Marks(b, {"JMP", "JMP_IF_NOT"})
        /\ Once(tape')
    BY <1>3, <2>1, EmitTwoMarks
  <2>. QED
    BY <1>1, <2>2
<1>. QED
  BY <1>2, <1>3

\* The steps of blocks, regions and subprograms.
LEMMA BlockLabels ==
    ASSUME TypeOK, TypeOK', LabelInv, JumpInv,
           \/ \E kind \in {"block", "defer"} : LowerBlock(kind)
           \/ EndBlock
           \/ \E region \in Regions : LowerScopedBlock(region) \/ EndScopedBlock(region)
           \/ \E name \in Names : LowerSubprogram(name)
           \/ EndSubprogram
    PROVE  LabelInv' /\ JumpInv'
<1>0. Once(tape)
  BY DEF LabelInv, LabelledOnce
<1>. DEFINE begin == I("SCOPE_BEGIN")
            end == I("SCOPE_END")
            defer == I("DEFER")
            ret == I("RET")
<1>1. /\ {begin, end, defer, ret} \subseteq Instruction
      /\ \A a \in {begin, end, defer, ret} : a.op \notin {"LABEL", "JMP", "JMP_IF_NOT"}
  <2>1. begin.op = "SCOPE_BEGIN" /\ end.op = "SCOPE_END" /\ defer.op = "DEFER" /\ ret.op = "RET"
    BY DEF I
  <2>. QED
    BY <2>1, PlainInstruction DEF Plain
<1>. HIDE DEF begin, end, defer, ret
<1>2. ASSUME NEW kind \in {"block", "defer"}, LowerBlock(kind)
      PROVE  LabelInv' /\ JumpInv'
  <2>1. Emit(<<defer, begin>>) \/ Emit(<<begin>>)
    BY <1>2 DEF LowerBlock, begin, defer
  <2>2. Labelled' = Labelled /\ Jumped' = Jumped /\ Once(tape')
    BY <1>0, <1>1, <2>1, PlainEmit
  <2>3. Open("block", 0, 0) /\ LabelCounter' = LabelCounter
    BY <1>2 DEF LowerBlock
  <2>. QED
    BY <2>2, <2>3, PlainOpenLabels
<1>3. CASE EndBlock
  <2>1. Emit(<<end>>) /\ Close("block") /\ LabelCounter' = LabelCounter
    BY <1>3 DEF EndBlock, end
  <2>2. Labelled' = Labelled /\ Jumped' = Jumped /\ Once(tape')
    BY <1>0, <1>1, <2>1, PlainEmit
  <2>. QED
    BY <2>1, <2>2, PlainCloseLabels
<1>4. ASSUME NEW region \in Regions, LowerScopedBlock(region)
      PROVE  LabelInv' /\ JumpInv'
  <2>. DEFINE a == J("REGION_BEGIN", region)
  <2>1. Emit(<<a>>) /\ Open(region, 0, 0) /\ LabelCounter' = LabelCounter
    BY <1>4 DEF LowerScopedBlock
  <2>2. a \in Instruction /\ a.op \notin {"LABEL", "JMP", "JMP_IF_NOT"}
    BY RegionInstruction DEF J
  <2>. HIDE DEF a
  <2>3. Labelled' = Labelled /\ Jumped' = Jumped /\ Once(tape')
    BY <1>0, <2>1, <2>2, PlainEmit
  <2>. QED
    BY <2>1, <2>3, PlainOpenLabels
<1>5. ASSUME NEW region \in Regions, EndScopedBlock(region)
      PROVE  LabelInv' /\ JumpInv'
  <2>. DEFINE a == J("REGION_END", region)
  <2>1. Emit(<<a>>) /\ Close(region) /\ LabelCounter' = LabelCounter
    BY <1>5 DEF EndScopedBlock
  <2>2. a \in Instruction /\ a.op \notin {"LABEL", "JMP", "JMP_IF_NOT"}
    BY RegionInstruction DEF J
  <2>. HIDE DEF a
  <2>3. Labelled' = Labelled /\ Jumped' = Jumped /\ Once(tape')
    BY <1>0, <2>1, <2>2, PlainEmit
  <2>. QED
    BY <2>1, <2>3, PlainCloseLabels
<1>6. ASSUME NEW name \in Names, LowerSubprogram(name)
      PROVE  LabelInv' /\ JumpInv'
  <2>. DEFINE a == J("LABEL", name)
  <2>1. Emit(<<a, begin>>) /\ Open("subprogram", 0, 0) /\ LabelCounter' = LabelCounter
    BY <1>6 DEF LowerSubprogram, begin
  <2>2. a \in Instruction /\ Marks(a, {"LABEL"}) = {name} /\ Marks(a, {"JMP", "JMP_IF_NOT"}) = {}
    BY LabelInstruction, JumpMarks DEF Label
  <2>3. begin \in Instruction /\ Marks(begin, {"LABEL"}) = {} /\ Marks(begin, {"JMP", "JMP_IF_NOT"}) = {}
    BY <1>1 DEF Marks
  <2>. HIDE DEF a
  <2>4. Labelled' = Labelled \cup {name} /\ Jumped' = Jumped /\ Once(tape')
    BY <1>0, <2>1, <2>2, <2>3, EmitTwoMarks
  <2>. QED
    BY <2>1, <2>4, PlainOpenLabels
<1>7. CASE EndSubprogram
  <2>1. (Emit(<<end>>) \/ Emit(<<ret, end>>)) /\ Close("subprogram") /\ LabelCounter' = LabelCounter
    BY <1>7 DEF EndSubprogram, end, ret
  <2>2. Labelled' = Labelled /\ Jumped' = Jumped /\ Once(tape')
    BY <1>0, <1>1, <2>1, PlainEmit
  <2>. QED
    BY <2>1, <2>2, PlainCloseLabels
<1>. QED
  BY <1>2, <1>3, <1>4, <1>5, <1>6, <1>7

\* The steps of a match.
LEMMA MatchLabels ==
    ASSUME TypeOK, TypeOK', LabelInv, JumpInv,
           \/ LowerMatch \/ EndArm \/ EndMatch
           \/ \E guarded \in BOOLEAN : OpenArm(guarded)
    PROVE  LabelInv' /\ JumpInv'
<1>0. OwedOnce /\ Once(tape) /\ LoopsStarted /\ ArmsInMatch /\ Jumped \subseteq Owed \cup Labelled
  BY DEF LabelInv, LabelledOnce, JumpInv
<1>1. LabelCounter \in Nat /\ LabelCounter' \in Nat
  BY DEF TypeOK
<1>2. CASE LowerMatch
  <2>. DEFINE new == Activation("match", 0, LabelCounter)
  <2>1. tape' = tape /\ LabelCounter' = LabelCounter + 1 /\ Open("match", 0, LabelCounter)
    BY <1>2 DEF LowerMatch, NewLabels
  <2>2. Labelled' = Labelled /\ Jumped' = Jumped /\ Once(tape')
    BY <1>0, <2>1 DEF Labelled, Jumped
  <2>3. Owes(new) = {LabelCounter} /\ "match" \in FrameKinds
    BY DEF Owes, Activation, FrameKinds
  <2>4. \A l \in Owes(new) : LabelCounter <= l /\ l < LabelCounter' /\ l \in Nat
    BY <1>1, <2>1, <2>3
  <2>5. LabelCounter' >= LabelCounter
    BY <1>1, <2>1
  <2>6. OwedOnce' /\ Owed' = Owed \cup Owes(new) /\ ArmsInMatch' /\ LoopsStarted'
    BY <1>0, <1>1, <2>1, <2>2, <2>3, <2>4, <2>5, OpenOwed
  <2>. HIDE DEF new
  <2>7. LabelInv'
    BY <1>1, <2>2, <2>4, <2>5, <2>6, LabelledKept
  <2>. QED
    BY <1>0, <2>2, <2>6, <2>7 DEF JumpInv
<1>3. ASSUME NEW guarded \in BOOLEAN, OpenArm(guarded)
      PROVE  LabelInv' /\ JumpInv'
  <2>. DEFINE test == J("JMP_IF_NOT", LabelCounter)
              end == Top(frames).end
              new == Activation("arm", LabelCounter, end)
  <2>1. /\ Emit(<<test>>) \/ Emit(<<test, test>>)
        /\ test \in Instruction /\ LabelCounter' = LabelCounter + 1
        /\ frames # <<>> /\ Top(frames).kind = "match" /\ Open("arm", LabelCounter, end)
    BY <1>3, NextLabels, LabelInstruction DEF OpenArm, NewLabels
  <2>2. Marks(test, {"LABEL"}) = {} /\ Marks(test, {"JMP", "JMP_IF_NOT"}) = {LabelCounter}
    BY JumpMarks
  <2>3. Owes(new) = {LabelCounter} /\ "arm" \in FrameKinds
    BY DEF Owes, Activation, FrameKinds
  <2>4. end \in Nat
    <3>1. Top(frames) \in Frame
      BY <2>1, PopTop DEF TypeOK
    <3>. QED
      BY <3>1 DEF Frame
  <2>. HIDE DEF test, end
  <2>5. Labelled' = Labelled /\ Jumped' = Jumped \cup {LabelCounter} /\ Once(tape')
    <3>1. CASE Emit(<<test>>)
      BY <1>0, <2>1, <2>2, <3>1, EmitOneMarks
    <3>2. CASE Emit(<<test, test>>)
      <4>1. /\ Labelled' = Labelled \cup Marks(test, {"LABEL"}) \cup Marks(test, {"LABEL"})
            /\ Jumped' = Jumped \cup Marks(test, {"JMP", "JMP_IF_NOT"})
                                \cup Marks(test, {"JMP", "JMP_IF_NOT"})
            /\ Once(tape')
        BY <1>0, <2>1, <2>2, <3>2, EmitTwoMarks
      <4>. QED
        BY <2>2, <4>1
    <3>. QED
      BY <2>1, <3>1, <3>2
  <2>6. \A l \in Owes(new) : LabelCounter <= l /\ l < LabelCounter' /\ l \in Nat
    BY <1>1, <2>1, <2>3
  <2>7. LabelCounter' >= LabelCounter
    BY <1>1, <2>1
  <2>8. OwedOnce' /\ Owed' = Owed \cup Owes(new) /\ ArmsInMatch' /\ LoopsStarted'
    BY <1>0, <1>1, <2>1, <2>3, <2>4, <2>5, <2>6, <2>7, OpenOwed DEF end
  <2>. HIDE DEF new
  <2>9. LabelInv'
    BY <1>1, <2>5, <2>6, <2>7, <2>8, LabelledKept
  <2>. QED
    BY <1>0, <2>3, <2>5, <2>8, <2>9 DEF JumpInv
<1>4. CASE EndArm
  <2>. DEFINE top == Top(frames)
              jump == J("JMP", top.end)
              mark == J("LABEL", top.label)
  <2>1. /\ Emit(<<jump, mark>>) /\ Close("arm") /\ LabelCounter' = LabelCounter
        /\ LabelCounter' >= LabelCounter
    BY <1>1, <1>4 DEF EndArm
  <2>2. top.end \in Nat /\ top.label \in Nat /\ Owes(top) = {top.label}
    BY <2>1, CloseType DEF Close, Owes
  <2>3. mark \in Instruction /\ jump \in Instruction
    BY <2>2, LabelInstruction DEF Label
  <2>4. /\ Marks(jump, {"LABEL"}) = {} /\ Marks(mark, {"JMP", "JMP_IF_NOT"}) = {}
        /\ Marks(mark, {"LABEL"}) = {top.label}
        /\ Marks(jump, {"JMP", "JMP_IF_NOT"}) = {top.end}
    BY JumpMarks
  <2>. HIDE DEF jump, mark
  <2>5. /\ OwedOnce' /\ Owed = Owed' \cup {top.label} /\ top.label \notin Owed'
        /\ ArmsInMatch' /\ (Labelled \subseteq Labelled' => LoopsStarted')
    BY <1>0, <2>1, <2>2, CloseOwed
  <2>6. top.end \in Owed'
    <3>1. /\ Len(frames) \in 1..Len(frames) /\ frames[Len(frames)].kind = "arm"
          /\ Len(frames') = Len(frames) - 1 /\ top = frames[Len(frames)]
          /\ \A i \in 1..(Len(frames) - 1) : frames'[i] = frames[i]
      BY <2>1, PopTop DEF Close, Top, TypeOK
    <3>2. /\ Len(frames) - 1 \in 1..(Len(frames) - 1)
          /\ frames[Len(frames) - 1].kind = "match" /\ frames[Len(frames) - 1].end = top.end
      BY <1>0, <3>1 DEF ArmsInMatch
    <3>3. top.end \in Owes(frames[Len(frames) - 1])
      BY <3>2 DEF Owes
    <3>. QED
      BY <3>1, <3>2, <3>3 DEF Owed
  <2>. HIDE DEF top
  <2>7. \A l \in {top.label} : l \in Names \/ l \notin Labelled
    BY <2>5 DEF LabelInv, LabelledOnce
  <2>8. Labelled' = Labelled \cup {top.label} /\ Jumped' = Jumped \cup {top.end} /\ Once(tape')
    BY <1>0, <2>1, <2>3, <2>4, <2>7, EmitTwoMarks
  <2>9. top.label < LabelCounter'
    BY <1>0, <2>1, <2>5 DEF OwedOnce
  <2>10. LabelInv'
    BY <1>1, <2>1, <2>2, <2>5, <2>8, <2>9, LabelledKept
  <2>. QED
    BY <1>0, <2>5, <2>6, <2>8, <2>10 DEF JumpInv
<1>5. CASE EndMatch
  <2>. DEFINE mark == J("LABEL", Top(frames).end)
  <2>1. /\ Emit(<<mark>>) /\ Close("match") /\ LabelCounter' = LabelCounter
        /\ LabelCounter' >= LabelCounter
    BY <1>1, <1>5 DEF EndMatch
  <2>2. Top(frames).end \in Nat /\ Owes(Top(frames)) = {Top(frames).end}
    BY <2>1, CloseType DEF Close, Owes
  <2>3. mark \in Instruction
    BY <2>2, LabelInstruction DEF Label
  <2>4. Marks(mark, {"LABEL"}) = {Top(frames).end} /\ Marks(mark, {"JMP", "JMP_IF_NOT"}) = {}
    BY JumpMarks
  <2>. HIDE DEF mark
  <2>5. /\ OwedOnce' /\ Owed = Owed' \cup {Top(frames).end} /\ Top(frames).end \notin Owed'
        /\ ArmsInMatch' /\ (Labelled \subseteq Labelled' => LoopsStarted')
    BY <1>0, <2>1, <2>2, CloseOwed
  <2>6. \A l \in {Top(frames).end} : l \in Names \/ l \notin Labelled
    BY <2>5 DEF LabelInv, LabelledOnce
  <2>7. Labelled' = Labelled \cup {Top(frames).end} /\ Jumped' = Jumped /\ Once(tape')
    BY <1>0, <2>1, <2>3, <2>4, <2>6, EmitOneMarks
  <2>8. Top(frames).end < LabelCounter'
    BY <1>0, <2>1, <2>5 DEF OwedOnce
  <2>9. LabelInv'
    BY <1>1, <2>1, <2>2, <2>5, <2>7, <2>8, LabelledKept
  <2>. QED
    BY <1>0, <2>5, <2>7, <2>9 DEF JumpInv
<1>. QED
  BY <1>2, <1>3, <1>4, <1>5

\* No statement breaks the two invariants.
LEMMA LabelStep ==
    TypeOK /\ TypeOK' /\ LoopInv /\ LabelInv /\ JumpInv /\ [Next]_vars => LabelInv' /\ JumpInv'
<1>. SUFFICES ASSUME TypeOK, TypeOK', LoopInv, LabelInv, JumpInv, [Next]_vars
              PROVE  LabelInv' /\ JumpInv'
  OBVIOUS
<1>1. CASE Finish \/ UNCHANGED vars
  <2>1. UNCHANGED <<tape, LabelCounter, frames>>
    BY <1>1 DEF Finish, vars
  <2>. QED
    BY <2>1 DEF LabelInv, OwedOnce, LabelledOnce, JumpInv, LoopsStarted, ArmsInMatch, Owed,
                Labelled, Jumped
<1>. QED
  BY <1>1, SimpleLabels, IfLabels, LoopLabels, BlockLabels, MatchLabels DEF Next, Returned

\* The tape starts empty, and nothing is owed.
LEMMA LabelInit == Init => LabelInv /\ JumpInv
<1>. SUFFICES ASSUME Init
              PROVE  LabelInv /\ JumpInv
  OBVIOUS
<1>1. tape = <<>> /\ frames = <<>>
  BY DEF Init
<1>2. Labelled = {} /\ Jumped = {} /\ Owed = {}
  BY <1>1 DEF Labelled, Jumped, Owed, Args, Sites
<1>. QED
  BY <1>1, <1>2 DEF LabelInv, OwedOnce, LabelledOnce, Once, Sites, JumpInv, LoopsStarted, ArmsInMatch

\* At every point of the lowering the labels owed are disjoint from those on the tape,
\* and every jump names one of either.
THEOREM LabelInvariant == Spec => [](LabelInv /\ JumpInv)
<1>1. Spec => []TypeOK /\ []LoopInv
  BY TypeCorrect, LoopInvariant
<1>. QED
  BY <1>1, LabelInit, LabelStep, PTL DEF Spec

\* Every label that NewLabel made is emitted once, for every program, whatever its
\* subprograms are called.
THEOREM LabelsEmittedOnce == Spec => []LabelsOnce
<1>1. ASSUME LabelInv
      PROVE  LabelsOnce
  <2>. SUFFICES ASSUME NEW i \in LabelSites, tape[i].arg \notin Names
                PROVE  /\ tape[i].arg \notin Owed
                       /\ \A j \in LabelSites : tape[i].arg = tape[j].arg => i = j
    BY DEF LabelsOnce
  <2>1. LabelSites = Sites(tape, {"LABEL"})
    BY DEF LabelSites, Sites
  <2>2. tape[i].arg \in Labelled
    BY <2>1 DEF Labelled, Args
  <2>. QED
    BY <1>1, <2>1, <2>2 DEF LabelInv, LabelledOnce, Once
<1>. QED
  BY <1>1, LabelInvariant, PTL

\* No jump dangles: its label is on the tape or will be.
THEOREM JumpsHaveTargets == Spec => []JumpsResolve
<1>1. ASSUME JumpInv
      PROVE  JumpsResolve
  <2>. SUFFICES ASSUME NEW j \in JumpSites
                PROVE  \/ tape[j].arg \in Owed
                       \/ \E i \in LabelSites : tape[i].arg = tape[j].arg
    BY DEF JumpsResolve
  <2>1. tape[j].arg \in Jumped
    BY DEF JumpSites, Jumped, Args, Sites
  <2>2. tape[j].arg \in Owed \/ tape[j].arg \in Labelled
    BY <1>1, <2>1 DEF JumpInv
  <2>. QED
    BY <2>2 DEF Labelled, Args, Sites, LabelSites
<1>. QED
  BY <1>1, LabelInvariant, PTL
=============================================================================
