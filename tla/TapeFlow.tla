------------------------------ MODULE TapeFlow ------------------------------
(***************************************************************************)
(* What the finished tape of SyntaxTape means to a machine that executes   *)
(* it: the flow of control from instruction to instruction, the brackets a *)
(* linear reader such as AnalyzeProgram sees, and the units the tape is    *)
(* cut into by the subprograms' labels.                                    *)
(***************************************************************************)
EXTENDS SyntaxTape, FiniteSets

\* The instruction ends the bracket that is open innermost.
Closes(open, ins) ==
    open # <<>> /\ Top(open) = IF ins.op = "SCOPE_END" THEN "scope" ELSE ins.arg

\* What a linear reader has open, before an instruction and after it.
Read(open, ins) ==
    CASE ins.op = "SCOPE_BEGIN" -> Append(open, "scope")
      [] ins.op = "REGION_BEGIN" -> Append(open, ins.arg)
      [] ins.op \in {"SCOPE_END", "REGION_END"} ->
             IF Closes(open, ins) THEN Pop(open) ELSE Append(open, "mismatched")
      [] OTHER -> open

\* The brackets open after each instruction.
Reading(t) ==
    LET after[n \in 0..Len(t)] == IF n = 0 THEN <<>> ELSE Read(after[n - 1], t[n])
    IN after

\* The bracket an activation has emitted and still has to close.
Bracket(f) ==
    CASE f.kind \in Regions -> <<f.kind>>
      [] f.kind \in {"block", "subprogram"} -> <<"scope">>
      [] OTHER -> <<>>

\* Those of the activations up to each of them, outermost first.
Nest(s) ==
    LET upTo[n \in 0..Len(s)] == IF n = 0 THEN <<>> ELSE upTo[n - 1] \o Bracket(s[n])
    IN upTo

\* A linear reader of the tape is inside exactly the scopes and regions whose
\* Lower functions are active, in their order: AnalyzeProgram's CurrentScopeDepth
\* is the source's nesting, and at the end every bracket is matched by its own.
BracketsNest == Reading(tape)[Len(tape)] = Nest(frames)[Len(frames)]

Target(j) == CHOOSE i \in LabelSites : tape[i].arg = tape[j].arg

\* Where control may go after instruction i of a finished tape.
Successors(i) ==
    CASE tape[i].op = "JMP" -> {Target(i)}
      [] tape[i].op = "JMP_IF_NOT" -> {i + 1, Target(i)}
      [] tape[i].op \in {"RET", "TRAP"} -> {}
      [] OTHER -> {i + 1}

\* 0 for the top-level statements, then the subprograms in order.
Entries == {i \in LabelSites : tape[i].arg \in Names}
Unit(i) == Cardinality({e \in Entries : e <= i})
UnitEnd(i) == i = Len(tape) \/ i + 1 \in Entries

\* Control that entered a subprogram leaves it by RET or TRAP only: no jump crosses
\* into another unit and nothing runs into the SCOPE_END that ends the subprogram,
\* behind which the next one starts.
NoFallThrough ==
    part = "done" =>
        \A i \in 1..Len(tape) : Unit(i) > 0 /\ ~UnitEnd(i) =>
            \A k \in Successors(i) : Unit(k) = Unit(i) /\ k <= Len(tape) /\ ~UnitEnd(k)

\* The instructions between a start label and the last jump back to it.
LoopBody(s) == UNION {(s + 1)..j : j \in {k \in JumpSites : Target(k) = s}}

\* A loop is entered at its start only: nothing jumps or falls into the middle of
\* the instructions between a start label and the last jump back to it.
SingleEntryLoops ==
    part = "done" =>
        \A s \in LabelSites :
            LET body == LoopBody(s)
            IN \A i \in 1..Len(tape) : \A k \in Successors(i) : k \in body => i \in body \cup {s}
=============================================================================
