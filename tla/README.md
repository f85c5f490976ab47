# Koboi: specifications, checks and proofs

TLA+ modules for the Koboi compiler and virtual machine (`src/compiler`), the TLC
configurations that check them on small instances, and theorems about them that TLAPS
checks for every value of the constants.

## The system

Koboi is one sequential C program. `compiler/CLI/Koboi.c` reads a file and passes it
through the stages below; each returns a data structure that the next one reads. The
ownership analysis is called nowhere (its call is commented out, `Koboi.c:53`), no code
generator turns the tape into bytecode yet, and `KVMRun` is handed an unassigned pointer.

| component | state it keeps | operations | what makes it correct | modules |
|---|---|---|---|---|
| Statement lowering, `SyntaxTapeS/SS.c` | the tape, `LabelCounter`, `LoopStack` and its top, the C call stack | `LowerSS`, one `Lower...` per statement, `PushLoop`, `PopLoop`, `NewLabel`, `Emit` | labels unique, jumps resolved, `break` and `continue` reach the right loop, brackets nest | `SyntaxTape`, `TapeFlow`, `MCSyntaxTape`, `SyntaxTape_proofs`, `TapeFlow_proofs` |
| Expression lowering, `SS.c` | `TemporaryCounter`, the operands on the C stack | `LowerExpression` and its cases, assignments, declarations, conditions, matches | a register is computed once, before it is read, and read once | `Expressions`, `Expressions_proofs` |
| Ownership analysis, `Semantics/SSSS.c` | `Symbols`, `CurrentScopeDepth`, `ErrorCount` | one case of `AnalyzeProgram` per instruction, `HandleScopeEnd` | a symbol lives as long as its scope; exactly the reads of what is not owned are reported | `SSSS`, `Scopes`, `SSSS_proofs`, `OwnershipPaths`, `ParameterReads` |
| Virtual machine, `Backend/Core`, `Backend/Execution` | `State`, three owned pointers | `KVMCreate`, `KVMInitialize`, `KVMDestroy`, `KVMRun`, `KVMStep`, `KVMPause`, `KVMResume`, `KVMStop` | parts owned together or not at all, one run, the run ends | `KVM`, `KVM_proofs` |
| Interpreter, `RuntimeKVM.c`, `Reader.c` | registers, bytecode, instruction pointer, `Running` | `RuntimeKVMLoad`, `RuntimeKVMRun`, the reader | stays within the bytecode, registers hold what the program wrote | `RuntimeKVM` |
| Compile-time machine, `CompiletimeKVM.c` | its own allocation | create and destroy; `CompileTimeExecute` is empty | owned by the machine | steps of `KVM` |
| Lexer, `Frontend/Lexer/Lexer.c` | position, brace depth, context flags and depths, `HasError`, the diagnostics | `LexerNext`, `LexerSkipWC`, `LexerNextToken`, `Tokenize` | tokens end with an EOF, contexts follow the braces, known faults only | `Lexer`, `MCLexer`, `Lexer_proofs` |
| Parser, `Frontend/Parser/Parser.c` | token position, six depth counters, panic mode, `HasError` | one `Parse...` per construct, `Synchronise` | progress, recovery, precedence, no half-built statement without an error | `Parser`, `MCParser`, `Precedence`, `Parser_proofs`, `Precedence_proofs` |
| Pipeline, `CLI/Koboi.c` | the results of the stages | `main`, `ReadFile` | nothing rejected reaches the machine, main ends | `Koboi`, `KVM_proofs` |
| Filesystem driver, `drivers/` | a handle | open, read, write, close | thin wrappers that nothing calls; the registry is only declared | not modelled |
| `archive/` | | | an earlier middle end, not built | not modelled |

What is hard here is not concurrency but long sequences: labels reserved on entry to a
construct and emitted on exit with any program in between; a fixed-size stack that drops
pushes and not the matching pops; a flat symbol table that stands for a stack of scopes;
calls on a machine in any order, with allocations that fail half-way and retries; an
unsigned pointer that moves before it is compared; a recursive descent whose progress after
an error depends on every caller's loop; a lexer that counts braces wherever they stand.
`PROJECT.json` lists the hazards line
by line with the properties that watch them, and says where a property only shows that the code
has no other fault of the kind than the one it has.

## The modules

**`SyntaxTape.tla`** models `LowerSS`. The AST is the environment's choice: each action
lowers one more statement of the innermost open construct or closes that construct, so the
behaviours are the left-to-right walks of all ASTs within the bounds. `frames` is the C
call stack with the label locals of every activation. The tape keeps its control
instructions; expressions emit none of them and are left out. A generated label `L<n>` is
the number *n*; a subprogram's label is its name. **`TapeFlow.tla`** gives the finished tape
its meaning: successors of an instruction, the subprogram it belongs to, the brackets a
linear reader sees.

**`SSSS.tla`** models `AnalyzeProgram`. The tape is the environment's choice again: any
instruction with operands from `Names`, with scopes nested as `BracketsNest` establishes.
`Finish` is the code after the loop. **`Scopes.tla`** is the abstract specification: a stack
of scopes with no table. `ScopesRespected` is the refinement, under a mapping that cuts the
table into the scopes by depth.

**`RuntimeKVM.tla`** models the interpreter: one action per opcode is one iteration of the
loop, and the bytes are chosen when they are read, which is enough since the pointer never
goes back within a run. `ReadI32` copies, advances, and only then compares, as the code
does; `Stray` stands for bytes from behind the program. **`KVM.tla`** composes it with the
life of a machine. `pc` says where the call on the stack stands (`begun`, `loaded`, `loop`,
`returned`), `faulted` is the dereference of NULL or the second `free` that follow some
allocation failures, and `failed` records which allocations failed.

*Callers.* One caller creates, initialises, runs and destroys. Nothing in the repository
calls `KVMStep`, `KVMPause`, `KVMResume` or `KVMStop`; they make sense only while `KVMRun`
is on the stack, because RUNNING and PAUSED are seen by nobody else (`RunningMeansActive`
says so), so the model lets them run whole between any two steps of `KVMRun`, as a signal
handler or a callback would. Two assumptions go with that: the loop rereads `Running`, a
plain `int`, on each iteration, and nothing calls `KVMRun` or `KVMDestroy` from such a
handler. With a second thread the tests and assignments of `State` would race.

**`OwnershipPaths.tla`** sets the linear analysis against control flow: ifs and whiles around
STOREs and MOVEs are lowered as in `SyntaxTape`, `SSSS` analyses each instruction as it is
emitted, and then the tape is executed. **`ParameterReads.tla`** runs the analysis on tapes as
`LowerSubprogram` begins them, a PARAM for each parameter behind the SCOPE_BEGIN, and remembers
what the program may read.

**`Expressions.tla`** models `LowerExpression` and the statements that call it. The tree is the
environment's choice, node by node; `work` is what the activations still have to do and
`operands` what they have been returned. Which constant, operator or member is left out.

**`Parser.tla`** models every `Parse` function that `ParseProgram` reaches. A definition with
the function's name gives what it does to the token stream as a sequence of *symbols*
(`Expect`, `Match`, `Call`, `Enter` and `Leave` of a counter, ...), chosen by the tokens in
sight; `stack` holds the symbols to be done and so is the C call stack, and a loop is a symbol
that puts itself back. Tokens are classes the parser treats alike, and the stream is the
environment's choice, a token at a time when it comes into the window of three that is as far
as any function looks. `ParserError`, panic mode and `Synchronise` are steps of their own. The
tree is left out but for the `Kind` that decides on an assignment and for NULL statements.
**`Precedence.tla`** is the rest of the tree: `ParseBinaryFromLeft` with its activations
(`frames`) and the binary nodes it makes.

**`Lexer.tla`** models `Tokenize` and `LexerNextToken`, one character a step at most, with
`LexerNext` counting braces and moving contexts at every one. Characters are classes; a keyword
is one character of the model, a keyword only when it stands alone. The source comes into
sight two characters at a time, which is as far as the lexer looks. Diagnostics are recorded by
`LexerReport` and shown, all of them again each time, by `PrintDiagnostics`. One that was recorded
behind a newline (`misplaced`) has the Column 0, and showing it writes 2^32 - 1 characters of its
line (`Lexer.c:557`): a fault. That happens for an escaped newline in a string as soon as another
report is shown, and for a string that is cut by the newline that ends the source. The other faults
are a quote that is the last character, whose token has the length -1, and what malloc and realloc
refuse (`OutOfMemory`). `MCParser` and `MCLexer` hold the alphabets of the runs.

**`Koboi.tla`** composes `main` with the machine of `KVM.tla`, whose actions it calls one
after the other. The front end is its outcomes, and these are not free: `TokenizeEnds` and
`ParserEnds` say how the two stages can end, `RecursionConsumes` that the C stack grows with the
program only but for one recursion, and `NullOnlyAfterError` that a NULL statement comes with
`HasError`. Memory may be refused in every stage. `XMalloc` and `XCalloc` of the parser then exit;
`KVMCreate` and most of `KVMInitialize` return; what `ReadFile`, the lexer, the arrays of the
parser, `LowerSS`, `Emit` and `CreateContext` get is not tested, and they fault. The modules of
the parser, the lowering and the analysis leave that out: it is an outcome of `main` alone.
`KVMInitialize` gets no registers, as `Koboi.c:62` leaves `RegisterCount` at 0. The bytecode pointer
is NULL, an address that cannot be read, or by chance one that can; then its `Data` and `Size` are
whatever is found there, and the run may fault or, with a `Size` next to 2^32, never end (`Astray`).

## The runs

| run | what it shows | bounds |
|---|---|---|
| `all` | all kinds of statement: types, scope and region brackets that nest as the source does, and `break` and `continue` that go to a loop still open though pushes were dropped | 4 statements, 4 deep, a loop stack of 1: overflow, pops and a new loop afterwards |
| `flow` | one destination for every jump; control stays in its subprogram and does not run into the closing `SCOPE_END`; loops are entered at their start; `break` and `continue` go to the innermost loop while the nesting fits the stack | 5 statements, 4 deep for 4 slots, two subprogram names: a branch in a loop in a match, exits from each, the last slot used |
| `scopes` | the flat table is the stack of scopes; the analysis implements `Scopes` | 3 names, 7 instructions, 3 deep, depths modulo 4 so that the final decrement wraps |
| `straight` | an accepted tape reads only what is owned while control keeps to its order | 2 names, 5 instructions, 2 ifs and whiles in each other: a move and a store in front of, in and behind a branch |
| `lifecycle` | ownership through failed and repeated initialisation, no fault without a failure, pointer bound, one run per machine, every run ends | 2 registers of 2 bits, operands 0 to 2, up to 7 bytes: a whole LOAD_CONST, one cut off, one at the very end |
| `parser` | what is accepted nests; NULL statements follow errors; counters return to 0; recursion consumes tokens, and parsing ends, but for the loops and the recursion the properties name | all streams of 7 tokens over statements with blocks and over functions, 5 over operands, suffixes and nao blocks, 4 over all other keywords: an error in each construct and what follows its recovery; 60 symbols of stack, which only the unbounded recursion fills |
| `lexer` | contexts stay inside their braces; behind an EOF only EOF; `Tokenize` returns unless a brace is counted open, or it faults at one of the causes above | all sources of 7 characters of keywords, braces, strings and comments: two contexts opened and closed; 6 of strings with newlines and escapes: a misplaced diagnostic and a report behind it that shows it; 5 of literals, operators and comments, cut off anywhere |
| `registers` | registers are computed once, before they are read, and read once | 4 nodes: each kind of expression in each other one, a match with two arms |
| `climbing` | the tree groups by precedence and from the left and has all operators | 5 operators, one or two of each precedence |
| `main` | what can fault, what reaches the machine, and that `main` ends, unless a stage or a run of no bytecode is endless | every outcome of each stage; the machine as in `lifecycle`, without registers |
| `endless`, `parameters` | disagreements, below | 4 characters; 2 names and 4 instructions |

Real constants are scaled down: `LOOP_STACK_MAX` is 64, depths and pointers are 32 bits
wide, the C stack has megabytes. The properties depend on whether these are reached, not on
their size, and the theorems hold for every size. `CHECK_DEADLOCK FALSE` stands where the
system does stop: after a fault or `KVMDestroy` (`lifecycle`), when the parser, the lexer or
`main` has returned, and at the end of an expression, of a statement list or of a tape that is
executed.

*Fairness.* `KVM` has `WF_vars(RunStep)`, the parser, the lexer and `main` have weak fairness
of their one next-state relation: all of it is sequential code that waits for nothing, so it
takes its next step; no caller has to call anything and no input has to be well-formed. It is
used for `RunEnds`, `ParserEnds`, `TokenizeEnds` and `MainEnds`.

### Disagreements

- `endless`: with a brace counted open at the end of the source, `Tokenize` reports "unclosed
  '{'", does not leave its loop, and adds EOF tokens until memory is gone.
- `parameters`: PARAM declares nothing, so that the first STORE, MOVE or arithmetic that reads a
  parameter is reported as undeclared, which the `a + b` of `tests/FunctionArithmetic.kb` would be:
  `NoFalseErrors` fails behind SCOPE_BEGIN, PARAM and one ADD. With a PARAM that declares its
  variable the run finds no error within the same bounds.

Read in the code while modelling, without a run of their own: arguments, return values,
comparisons and copies of a moved variable are not errors, and `a = b` moves nothing, against
`documentation/Concepts/Ownerships.md`; a move in a loop is judged for its first round only
(hence the `jumped` of `StraightPathsOwned`); `ParseUnary` takes the `!` of `!$x` before the
explicit free is looked for; a function in the body of an environment is parsed and dropped; a
brace in a string or a comment counts; "invalid numeric literal" is decided behind every token;
the analysis, part of the `safe` mode of the project's `README.md`, is never called.

## The proofs

TLAPS checks these for every value of the constants under the named assumptions of the modules.

**`SyntaxTape_proofs`.** `TypeCorrect`. `BreakTargetsOpen` is `LoopStackOpen`, for every size
of the loop stack: the stack's pairs have to be related to the open loop frames, which is not
inductive as it stands because after a dropped push the pop removes the pair of an *outer*
loop. The invariant `LoopInv` adds that labels grow with the nesting, on the C stack and on the
loop stack alike, so that the only pair the loop being closed can have is the last one.
`InnermostJumps` assumes `MaxDepth <= LoopStackMax`, under which no pair is ever missing.
`LabelsEmittedOnce` (`LabelsOnce`) and `JumpsHaveTargets` (`JumpsResolve`) rest on an account of
the labels: no two activations owe the same label (`OwedOnce`), an owed one is below
`LabelCounter` and not on the tape, an arm's end is owed by the match around it
(`ArmsInMatch`), and the start of a loop that is open is on the tape (`LoopsStarted`); with
`LoopInv` that covers the jumps of `break` and `continue`. Neither needs an assumption on `Names`:
a subprogram called `L0` adds a second label of that name but takes none away.

**`TapeFlow_proofs`.** `BracketsMatch` (`BracketsNest`), for every program: what a linear reader
has open is what the activations have still to close, an activation at a time. `Reading` and
`Nest` are recursive functions, about which the provers can do no induction; the invariant says
instead, for the tape and for `frames`, that the recursive equation has exactly one solution and
what its last value is. Both sequences change only at their ends, so that a step extends the one
solution by a value or takes one away.

`SubprogramsSealed` (`NoFallThrough`) and `LoopsSealed` (`SingleEntryLoops`) say where control can
go on a finished tape. Labels that are emitted once and jumps that resolve do not suffice: of every
jump one has to know on which side of each open construct it stands, while its label is still to
come. `FlowInvariant` is that account, in two parts. `Flow`: a jump that waits for a label stands in
the subprogram being lowered and inside the loops that were open at the time (`WaitingInside`); open
loops belong to that subprogram and are nested by their starts (`StartsInUnit`, `StartsNest`); no
jump leads over the start of an open loop to behind it (`EnteredAtStart`) or over a subprogram's
label (`WithinUnit`); and a jump back goes to the start of a loop, one that is open or one that is
finished, into whose instructions nothing leads from outside (`BackToStarts`). That a step keeps
`Flow` is one lemma, `FlowGrows`, about what all steps but the start of a subprogram have in common
(`Extends`: what they may append to the tape and do to the activations); each `Lower` function is
then shown to be such a step. `Ends`: `Returned`, on which the closing `RET` depends
(`SS.c:740`), is set only while the last instruction is a `RET` (`ReturnedIsLast`), so that
the subprograms that are finished end with a `RET` and its `SCOPE_END`.

All three assume that `Names` contains no number, that is, no subprogram is named like a generated
label. Nothing in the code sees to it (`SS.c:728`), and both properties need it. In TLC, with a
subprogram called `L0` a jump to the generated `L0` leaves its subprogram; with one called `L2` whose
body is a loop that ends at the generated `L2`, the exit of the loop is a jump back to the label of
the subprogram, and that second loop is entered in the middle.

**`SSSS_proofs`.** `TypeCorrect`, `TableIsStack` (`SymbolTable`: sorted depths, no name twice)
and `ImplementsScopes`, the refinement. The invariant is the type invariant with `SymbolTable`;
sortedness is what makes `HandleScopeEnd`, which stops at the first symbol of another depth,
remove exactly the innermost scope. `AcceptedPathsOwned` (`StraightPathsOwned`) is about the
executions of `OwnershipPaths`. Its invariant says that the tape has a `History`: a set of owned
variables behind each instruction, which is what the table held when the instruction was analysed
and what the execution has when it gets there. Without an error every read is in it (`Clean`);
a jump over nothing but labels changes nothing; and every jump finds its label (`Targets`).

**`KVM_proofs`.** `TypeCorrect` and `PointerBounded`: each operand is read at most at the end
of the program, a constant moves the pointer at most four bytes further, and `SizeAssumption`
leaves room for that below 2^32; hence `%` never wraps and a register never receives `Stray`.
`Ownership`, `NoFaultUnlessFailure`, `RunningOnlyInRun` and `SingleRun` follow from the
conjunction `Inv`; `FailuresRecorded` strengthens it, since a fault may come many calls after
the failure that causes it. `MainTypes`, `MainFaults` (`FaultsExplained`) and `RejectedStopped`
(`RejectedNeverRuns`) are about `Koboi`'s `main`, which takes steps of the machine: `MainInv` adds
to `Inv` that the machine is untouched until it is initialised and that an error keeps `main`
away from it. What `MainFaults` adds to the list of causes is that there are no others behind it:
that no program makes the machine fault, and that the tape of a program without an error can be
made. They assume `RegisterCount = 0`, which is what `main` passes
(`Koboi.c:62`): with registers, memory refused for them would be one more cause of a fault.

**`Precedence_proofs`.** `TypeCorrect`, `Grouping` (`TreeGroups`) and `Complete`
(`TreeComplete`), for expressions of any length. A node's grouping is settled when it is made
and depends on operators parsed long before. `FramesClimb` says that the minima grow with the
activations, `LeftsBind` that everything between an activation's first operand and the token in
sight binds at least as much as its minimum, `TopBinds` what is known of the operand just
parsed, and `Covered` which operators have their node already.

**`Expressions_proofs`.** `TypeCorrect`, `RegistersUnique` (`ComputedOnce`), `Defined`
(`DefinedBeforeUse`) and `Consumed` (`ReadOnce`), for expressions and statements of any size.
What an instruction reads was returned by activations that are long gone, so that the invariant
speaks of everything that waits: `OperandsInv` that each operand is computed, of one owner and
not read yet, `WorkInv` that the arms of a match and the elements of an array hold a target and
an array's register, `TapeInv` that all registers are below `TemporaryCounter`, and `Fits` that
there are as many operands at every task as it takes, without which `operands[2]` of a binary
operator could be the operand of the expression around it, or none.

**`Lexer_proofs`.** `TypeCorrect`, `ContextsNest` (`ContextsInside`) and `EOFEnds`
(`EOFIsLast`), for sources of any length. `EndInv` says that behind an EOF the source has ended
or an error was reported, and neither is taken back; `DepthInv` counts the open braces of a
context. Both rest on `AheadInv`: behind the end of the source there is nothing but its end.

**`Parser_proofs`.** For every stream of tokens and every `StackLimit`. `NullReported`
(`NullOnlyAfterError`): a NULL is kept many tokens behind its error, so the invariant adds that
panic mode follows an error (`PanicFollowsError`), which `Synchronise` ends and `HasError`
outlives. `ParserTypes` is `TypeOK`: each function's symbols are symbols. `CountersGivenBack`
(`CountersReturn`) and `AcceptedIsBracketed` (`AcceptedNests`) depend on what was put on the stack
when a construct was entered. Their invariants read the stack as a walk (`Walk`): each symbol
takes the counters, or the brackets that are open, from one value to another (`CounterLinks`,
`BracketLinks`), and the walk ends at 0, or at nothing. What a function puts on the stack in its
own place has to go the way that its `Call` went: that is one lemma for each `Parse` function.
An error drops no symbol, so that the counters return through every recovery.

`StackIsLinear` and `StackHolds` (`RecursionConsumes`) are about the C stack. `RecursionConsumes` is
not inductive, and for long streams it is false unless the stack is large enough: `{{{{` nests for
as long as the stream lasts. What holds of every stream is that the stack grows with the tokens
consumed. Each `Parse` function has a `Rank`, and until a token is consumed a function calls only
those of lower ranks, or of its own in the last call it makes (`Descends`); the rest of the bodies
begin with a symbol that consumes (`Consumes`). That is again one lemma with a step for each
function (`BodiesReplace`), and the body of `ParsePrimary` at a `!` that no `$` follows is its only
exception. The invariant, `Bounded`, says of each symbol on the stack that its height is at most 14,
the longest body, for each rank below the eighth that it has come down to, and 126 for each token
consumed since. Between the choice of a body and the `ParserAdvance` in it a token is decided on and
not yet consumed: `Spare` counts it as gone, without which the bound would not be inductive. A
stream of at most n tokens needs no more than `Needed(n)` = 112 + 126n symbols, and a larger
`StackLimit` is never reached but in the recursion; `BangIsForever` says that no step leads out of
that. The constants are coarse: that 60 symbols do for 7 tokens of the run's alphabets is TLC's
result and not implied.

Two things the proofs found in the models: `Read` of `TapeFlow` and the choices of `ParseStatement`
and `IdentifierStatement` were `CASE`s whose guards could hold together, of which TLC takes the
first and TLA+ any; they are disjoint now, in the order in which the code tests.

*Only model-checked*: the liveness properties `RunEnds`, `ParserEnds`, `TokenizeEnds` and `MainEnds`,
which these provers cannot do, and `RecursionConsumes` for stacks smaller than `StackHolds` asks for.

## Not modelled

- Without a caller: `MergePrograms`, `ParseControlBlock` and the `ParseRepeat...` functions of
  the parser, `LexerPeekToken` and `LexerConsumePeek`; `EXPR_MEMBER` and `Binary.IsAssignment`
  are lowered and never made.
- What nothing decides by: texts and messages, positions but for that of a diagnostic behind a
  newline, the printing of tokens, trees and tapes.
- Memory that is refused, in the modules of the parser, the lowering and the analysis; for the first
  two it is an outcome of `main` in `Koboi`.
- The filesystem driver, which nothing calls, and `archive/`, which is not built.
- `CompileTimeExecute` and `RuntimeKVMStep`, which have no body, beyond their results.

## The plan

Done: the stages of the compiler and the machine, each with its runs; every safety property of the
runs proved, `RecursionConsumes` for stacks in proportion to the stream. Left: a bound on the stack
that is as tight as what TLC finds, for which the ranks would have to say how long each function's
body can still be.
