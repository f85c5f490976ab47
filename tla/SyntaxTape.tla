----------------------------- MODULE SyntaxTape -----------------------------
(***************************************************************************)
(* How compiler/Middleend/SyntaxTapeS/SS.c lowers an AST to a linear tape: *)
(* LowerSS walks the top-level statements, then the subprograms, and       *)
(* LowerStatement recurses through the nested constructs.                  *)
(*                                                                         *)
(* The AST is the environment's choice: every step either lowers one more  *)
(* statement of the innermost open construct or closes that construct, so  *)
(* the behaviours are the left-to-right walks of all the ASTs within the   *)
(* bounds.  The C call stack of the Lower functions is `frames', with the  *)
(* label locals of each activation, next to the fixed-size LoopStack that  *)
(* break and continue consult.                                             *)
(*                                                                         *)
(* The tape is projected on control: LABEL, JMP, JMP_IF_NOT, RET, TRAP,    *)
(* DEFER and the SCOPE and REGION brackets.  LowerExpression emits none of *)
(* these and touches neither LabelCounter nor the LoopStack, so the        *)
(* straight-line instructions of expressions are left out here.            *)
(***************************************************************************)
EXTENDS Integers, Sequences

CONSTANTS
    LoopStackMax,    \* LOOP_STACK_MAX: the slots of LoopStack
    Kinds,           \* the kinds of statement the AST may contain
    Names,           \* the names its subprograms may have
    MaxStatements,   \* bound: statements, match arms and subprograms
    MaxDepth         \* bound: constructs open at once

StatementKinds == {"straight", "if", "while", "for", "block", "unsafe", "safe",
                   "trusted", "defer", "match", "return", "break", "continue"}
Regions == {"unsafe", "safe", "trusted"}

ASSUME LoopStackMaxAssumption == LoopStackMax \in Nat \ {0}
ASSUME KindsAssumption == Kinds \subseteq StatementKinds
ASSUME BoundsAssumption == MaxStatements \in Nat /\ MaxDepth \in Nat

VARIABLES
    tape,            \* Program->Instructions, the control instructions
    LabelCounter,    \* the next number NewLabel formats as L<n>
    LoopStack,       \* LoopStack[0 .. LoopStackTop-1]
    frames,          \* the open activations, outermost first
    part,            \* which loop of LowerSS is running
    lowered          \* statements lowered so far (only a bound)

vars == <<tape, LabelCounter, LoopStack, frames, part, lowered>>

\* A generated label is its number; a subprogram's label is its name, and a
\* subprogram called L<n> is the number n in Names: the strings are the same.
Label == Nat \cup Names
Plain == {"RET", "TRAP", "DEFER", "SCOPE_BEGIN", "SCOPE_END"}
Instruction ==
    [op : {"LABEL", "JMP", "JMP_IF_NOT"}, arg : Label]
    \cup [op : {"REGION_BEGIN", "REGION_END"}, arg : Regions]
    \cup [op : Plain]
Loop == [start : Nat, end : Nat]
FrameKinds == {"if", "else", "loop", "match", "arm", "block", "subprogram"}
                  \cup Regions
\* `label' is LabelElse, LabelStart or LabelNext, `end' is LabelEnd; both are 0 in
\* an activation that has no labels.
Frame == [kind : FrameKinds, label : Nat, end : Nat, returned : BOOLEAN]

TypeOK ==
    /\ tape \in Seq(Instruction)
    /\ LabelCounter \in Nat
    /\ LoopStack \in Seq(Loop)
    /\ Len(LoopStack) <= LoopStackMax
    /\ frames \in Seq(Frame)
    /\ part \in {"statements", "subprograms", "done"}
    /\ lowered \in Nat

-----------------------------------------------------------------------------
(* Instructions, labels and the two stacks *)

I(op) == [op |-> op]
J(op, arg) == [op |-> op, arg |-> arg]

Emit(code) == tape' = tape \o code

\* Mutant: one number for all the labels of a construct.
NewLabelsShared(n) == LabelCounter' = LabelCounter + 1

NewLabels(n) == LabelCounter' = LabelCounter + n

Top(s) == s[Len(s)]
Pop(s) == SubSeq(s, 1, Len(s) - 1)

\* Mutants: a bound that wastes the last slot, and no bound at all.
PushLoopOneSlotLess(start, end) ==
    LoopStack' = IF Len(LoopStack) < LoopStackMax - 1
                 THEN Append(LoopStack, [start |-> start, end |-> end])
                 ELSE LoopStack
PushLoopUnbounded(start, end) ==
    LoopStack' = Append(LoopStack, [start |-> start, end |-> end])

\* PushLoop drops the pair silently when the array is full.
PushLoop(start, end) ==
    LoopStack' = IF Len(LoopStack) < LoopStackMax
                 THEN Append(LoopStack, [start |-> start, end |-> end])
                 ELSE LoopStack

\* Mutant: the loop's labels stay on the stack.
PopLoopForgotten == LoopStack' = LoopStack

\* PopLoop only looks at LoopStackTop, not at whether the push was dropped.
PopLoop ==
    LoopStack' = IF LoopStack = <<>> THEN <<>> ELSE Pop(LoopStack)

\* LowerBreak and LowerContinue: CurrentLoopEnd or CurrentLoopStart, and a TRAP when
\* LoopStackTop is 0.
LeaveTo(side) ==
    IF LoopStack = <<>> THEN I("TRAP") ELSE J("JMP", Top(LoopStack)[side])

\* Mutant: a RETURN anywhere in the body counts, not only a last one.
LoweredSticky(isReturn) ==
    IF frames = <<>> THEN <<>>
    ELSE [frames EXCEPT ![Len(frames)].returned = @ \/ isReturn]

\* The innermost activation after it lowered one more statement: LowerSubprogram
\* asks at the end whether the last one was a RETURN.
Lowered(isReturn) ==
    IF frames = <<>> THEN <<>>
    ELSE [frames EXCEPT ![Len(frames)].returned = isReturn]

\* LowerStatement is called: at top level by the first loop of LowerSS, inside a
\* construct by the loop over its body.  A match calls it from an arm.
Statement(kind) ==
    /\ kind \in Kinds
    /\ lowered < MaxStatements
    /\ lowered' = lowered + 1
    /\ IF frames = <<>> THEN part = "statements" ELSE Top(frames).kind # "match"
    /\ UNCHANGED part

Activation(kind, label, end) ==
    [kind |-> kind, label |-> label, end |-> end, returned |-> FALSE]

\* A construct with a body is entered.
Open(kind, label, end) ==
    /\ Len(frames) < MaxDepth
    /\ frames' = Append(Lowered(FALSE), Activation(kind, label, end))

\* The body of the innermost construct is finished and its activation returns.
Close(kind) ==
    /\ frames # <<>>
    /\ Top(frames).kind = kind
    /\ frames' = Pop(frames)
    /\ UNCHANGED <<part, lowered>>

-----------------------------------------------------------------------------
Init ==
    /\ tape = <<>>
    /\ LabelCounter = 0
    /\ LoopStack = <<>>
    /\ frames = <<>>
    /\ part = "statements"
    /\ lowered = 0

\* Declarations, assignments, expressions, CHECK, ASSUME and the statements
\* LowerStatement ignores: no control instruction.
LowerStraight ==
    /\ Statement("straight")
    /\ frames' = Lowered(FALSE)
    /\ UNCHANGED <<tape, LabelCounter, LoopStack>>

LowerIf ==
    /\ Statement("if")
    /\ Open("if", LabelCounter, LabelCounter + 1)
    /\ Emit(<<J("JMP_IF_NOT", LabelCounter)>>)
    /\ NewLabels(2)
    /\ UNCHANGED <<LoopStack>>

LowerElse ==
    /\ frames # <<>>
    /\ Top(frames).kind = "if"
    /\ Emit(<<J("JMP", Top(frames).end), J("LABEL", Top(frames).label)>>)
    /\ frames' = Append(Pop(frames), Activation("else", Top(frames).label, Top(frames).end))
    /\ UNCHANGED <<LabelCounter, LoopStack, part, lowered>>

\* Mutant: LABEL LabelEnd is forgotten.
EndIfUnlabelled ==
    /\ Close("else")
    /\ UNCHANGED <<tape, LabelCounter, LoopStack>>

EndIf ==
    /\ Close("else")
    /\ Emit(<<J("LABEL", Top(frames).end)>>)
    /\ UNCHANGED <<LabelCounter, LoopStack>>

\* What LowerWhile and LowerFor share: LABEL start, the exit test, PushLoop.
\* ParseForStatement gives every for a condition.
OpenLoop(kind) ==
    /\ Statement(kind)
    /\ Open("loop", LabelCounter, LabelCounter + 1)
    /\ Emit(<<J("LABEL", LabelCounter), J("JMP_IF_NOT", LabelCounter + 1)>>)
    /\ PushLoop(LabelCounter, LabelCounter + 1)
    /\ NewLabels(2)

LowerWhile == OpenLoop("while")
LowerFor == OpenLoop("for")

EndLoop ==
    /\ Close("loop")
    /\ PopLoop
    /\ Emit(<<J("JMP", Top(frames).label), J("LABEL", Top(frames).end)>>)
    /\ UNCHANGED LabelCounter

LowerReturn ==
    /\ Statement("return")
    /\ frames' = Lowered(TRUE)
    /\ Emit(<<I("RET")>>)
    /\ UNCHANGED <<LabelCounter, LoopStack>>

LowerBreak ==
    /\ Statement("break")
    /\ frames' = Lowered(FALSE)
    /\ Emit(<<LeaveTo("end")>>)
    /\ UNCHANGED <<LabelCounter, LoopStack>>

LowerContinue ==
    /\ Statement("continue")
    /\ frames' = Lowered(FALSE)
    /\ Emit(<<LeaveTo("start")>>)
    /\ UNCHANGED <<LabelCounter, LoopStack>>

\* LowerBlock, and LowerDefer, which marks its block with DEFER.
LowerBlock(kind) ==
    /\ Statement(kind)
    /\ Open("block", 0, 0)
    /\ Emit(IF kind = "defer" THEN <<I("DEFER"), I("SCOPE_BEGIN")>> ELSE <<I("SCOPE_BEGIN")>>)
    /\ UNCHANGED <<LabelCounter, LoopStack>>

\* Mutant: SCOPE_END is forgotten.
EndBlockOpen ==
    /\ Close("block")
    /\ UNCHANGED <<tape, LabelCounter, LoopStack>>

EndBlock ==
    /\ Close("block")
    /\ Emit(<<I("SCOPE_END")>>)
    /\ UNCHANGED <<LabelCounter, LoopStack>>

LowerScopedBlock(region) ==
    /\ Statement(region)
    /\ Open(region, 0, 0)
    /\ Emit(<<J("REGION_BEGIN", region)>>)
    /\ UNCHANGED <<LabelCounter, LoopStack>>

EndScopedBlock(region) ==
    /\ Close(region)
    /\ Emit(<<J("REGION_END", region)>>)
    /\ UNCHANGED <<LabelCounter, LoopStack>>

LowerMatch ==
    /\ Statement("match")
    /\ Open("match", 0, LabelCounter)
    /\ NewLabels(1)
    /\ UNCHANGED <<tape, LoopStack>>

\* One iteration of LowerMatch's loop begins.  ParseMatchStatement gives every
\* arm a pattern; a guard is optional.
OpenArm(guarded) ==
    /\ frames # <<>>
    /\ Top(frames).kind = "match"
    /\ lowered < MaxStatements
    /\ lowered' = lowered + 1
    /\ Open("arm", LabelCounter, Top(frames).end)
    /\ LET test == J("JMP_IF_NOT", LabelCounter)
       IN Emit(IF guarded THEN <<test, test>> ELSE <<test>>)
    /\ NewLabels(1)
    /\ UNCHANGED <<LoopStack, part>>

EndArm ==
    /\ Close("arm")
    /\ Emit(<<J("JMP", Top(frames).end), J("LABEL", Top(frames).label)>>)
    /\ UNCHANGED <<LabelCounter, LoopStack>>

EndMatch ==
    /\ Close("match")
    /\ Emit(<<J("LABEL", Top(frames).end)>>)
    /\ UNCHANGED <<LabelCounter, LoopStack>>

\* The second loop of LowerSS: the PARAMs are straight-line.
LowerSubprogram(name) ==
    /\ frames = <<>>
    /\ part # "done"
    /\ part' = "subprograms"
    /\ lowered < MaxStatements
    /\ lowered' = lowered + 1
    /\ Open("subprogram", 0, 0)
    /\ Emit(<<J("LABEL", name), I("SCOPE_BEGIN")>>)
    /\ UNCHANGED <<LabelCounter, LoopStack>>

EndSubprogram ==
    /\ Close("subprogram")
    /\ Emit(IF Top(frames).returned THEN <<I("SCOPE_END")>> ELSE <<I("RET"), I("SCOPE_END")>>)
    /\ UNCHANGED <<LabelCounter, LoopStack>>

\* LowerSS returns the tape.
Finish ==
    /\ frames = <<>>
    /\ part # "done"
    /\ part' = "done"
    /\ UNCHANGED <<tape, LabelCounter, LoopStack, frames, lowered>>

\* The caller has the tape; nothing more happens to it.
Returned == part = "done" /\ UNCHANGED vars

Next ==
    \/ LowerStraight \/ LowerIf \/ LowerElse \/ EndIf
    \/ LowerWhile \/ LowerFor \/ EndLoop
    \/ LowerReturn \/ LowerBreak \/ LowerContinue
    \/ \E kind \in {"block", "defer"} : LowerBlock(kind)
    \/ EndBlock
    \/ \E region \in Regions : LowerScopedBlock(region) \/ EndScopedBlock(region)
    \/ LowerMatch \/ EndArm \/ EndMatch
    \/ \E guarded \in BOOLEAN : OpenArm(guarded)
    \/ \E name \in Names : LowerSubprogram(name)
    \/ EndSubprogram \/ Finish \/ Returned

Spec == Init /\ [][Next]_vars

-----------------------------------------------------------------------------
(* Properties *)

LabelSites == {i \in 1..Len(tape) : tape[i].op = "LABEL"}
JumpSites == {i \in 1..Len(tape) : tape[i].op \in {"JMP", "JMP_IF_NOT"}}

\* The labels an activation still has to emit.
Owes(f) ==
    CASE f.kind = "if" -> {f.label, f.end}
      [] f.kind = "arm" -> {f.label}
      [] f.kind \in {"else", "loop", "match"} -> {f.end}
      [] OTHER -> {}
Owed == UNION {Owes(frames[n]) : n \in 1..Len(frames)}

\* No label NewLabel made is emitted twice, nor emitted while an activation of
\* LowerIf, LowerMatch, LowerWhile or LowerFor still has to emit it: a jump to it
\* has at most one destination, however the constructs nest.
LabelsOnce ==
    \A i \in LabelSites : tape[i].arg \notin Names =>
        /\ tape[i].arg \notin Owed
        /\ \A j \in LabelSites : tape[i].arg = tape[j].arg => i = j

\* Every jump has a destination: its label is on the tape or an open activation
\* will emit it, so that when LowerSS returns no JMP or JMP_IF_NOT dangles.
JumpsResolve ==
    \A j \in JumpSites :
        \/ tape[j].arg \in Owed
        \/ \E i \in LabelSites : tape[i].arg = tape[j].arg

LoopOf(f) == [start |-> f.label, end |-> f.end]

\* The pairs on LoopStack are those of loops still being lowered, whatever
\* PushLoop dropped and PopLoop removed: break and continue never jump to a loop
\* that is already closed, and outside every loop they trap.
LoopStackOpen ==
    \A n \in 1..Len(LoopStack) : \E m \in 1..Len(frames) :
        frames[m].kind = "loop" /\ LoopStack[n] = LoopOf(frames[m])

InnermostLoop(m) ==
    frames[m].kind = "loop" /\ \A k \in (m + 1)..Len(frames) : frames[k].kind # "loop"

\* As long as no more than LOOP_STACK_MAX constructs nest, a break jumps to the end
\* and a continue to the start of the innermost loop around it, and both trap only
\* outside every loop.
JumpsInnermost ==
    [][\A m \in 1..Len(frames) : InnermostLoop(m) =>
          /\ LowerBreak => tape' = Append(tape, J("JMP", frames[m].end))
          /\ LowerContinue => tape' = Append(tape, J("JMP", frames[m].label))]_vars
=============================================================================
