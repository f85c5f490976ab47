------------------------------- MODULE Parser -------------------------------
(***************************************************************************)
(* The recursive descent of compiler/Frontend/Parser/Parser.c.             *)
(*                                                                         *)
(* Every Parse function is a definition of the same name: what it does to  *)
(* the token stream from here on, as a sequence of symbols that is chosen  *)
(* by the tokens in sight.  `stack' holds the symbols still to be done, of *)
(* all activations, the innermost first: it is the C call stack, and an    *)
(* iteration of a loop is a symbol that puts itself back.                  *)
(*                                                                         *)
(* The token stream is the environment's choice, one token at a time when  *)
(* it comes into sight; no function looks further than two tokens ahead.   *)
(* Tokens are classes: the parser treats the members of one alike.  The    *)
(* tree it builds is left out but for what a property needs of it.         *)
(***************************************************************************)
EXTENDS Integers, Sequences

CONSTANTS
    Streams,       \* bound: the classes of tokens a stream is made of, and its length
    StackLimit     \* where the C stack overflows, in symbols

Identifiers == {"ident", "branch", "nao", "concept", "reactive"}
Literals == {"INT_LITERAL", "literal"}
Modifiers == {"modifier", "export"}
OwnershipOperators == {"&", "@", "#", "!", "$"}
Assignments == {"=", "+=", "-="}
Operators == {"or", "and", "==", "<", "+", "-", "*"}
Brackets == {"LBRACE", "RBRACE", "LPAREN", "RPAREN", "LBRACKET", "RBRACKET"}
Punctuation == Brackets \cup {"COMMA", "SEMICOLON", ":", "::", ".", "..", "->", ">>"}
StatementKeywords ==
    {"if", "while", "for", "return", "break", "rollback", "match", "unsafe",
     "safe", "trusted", "check", "assume", "defer", "region", "transaction",
     "compiletime", "fn", "with"}
DeclarationKeywords ==
    {"enum", "state", "struct", "partial", "module", "world", "context",
     "macro", "env", "using", "sys"}
OtherKeywords == {"else", "noalias", "extends", "requires", "provides"}
\* "type" stands for int, float, bool, string and void; "literal" for the literals
\* but integers; "branch" for the names b0, b1, ... of history branches; "modifier"
\* for the modifiers but export; "==", "<" and "*" for all of their precedence.
TokenTypes == Identifiers \cup Literals \cup Modifiers \cup OwnershipOperators
    \cup Assignments \cup Operators \cup Punctuation \cup StatementKeywords
    \cup DeclarationKeywords \cup OtherKeywords \cup {"type", "error", "EOF"}

\* `tokens' counts those before EOF.
ASSUME StreamsAssumption ==
    \A s \in Streams : s.alphabet \subseteq TokenTypes \ {"EOF"} /\ s.tokens \in Nat \ 0..2
ASSUME StackAssumption == StackLimit \in Nat \ {0}

VARIABLES
    window,        \* Current, PeekNext and PeekNextNext
    alphabet,      \* what the tokens behind the window are chosen from (only a bound)
    left,          \* how many may still come into sight (only a bound)
    stack,         \* what is left to do, innermost activation first
    PanicMode,
    HasError,
    isIdentifier,  \* the Kind of the last expression returned is EXPR_IDENTIFIER
    depth,         \* ScopeDepth, FunctionDepth, InLoop, InMatch, InUnsafe, InMacro
    nesting,       \* history: the brackets consumed and not yet closed
    nullKept       \* history: a node of the tree holds a NULL statement

parser == <<PanicMode, HasError, isIdentifier, depth>>
vars == <<window, alphabet, left, stack, parser, nesting, nullKept>>

tok == window[1]
next == window[2]
third == window[3]

-----------------------------------------------------------------------------
(* Symbols *)

Call(f) == [op |-> "call", arg |-> f]        \* an activation of f
Expect(t) == [op |-> "expect", arg |-> t]
Match(t) == [op |-> "match", arg |-> t]      \* ParserMatch, whatever it returns
Comma(f) == [op |-> "comma", arg |-> f]      \* if (!ParserMatch(COMMA)) break;
Enter(c) == [op |-> "enter", arg |-> c]      \* c++
Leave(c) == [op |-> "leave", arg |-> c]      \* c--
Make(k) == [op |-> "make", arg |-> k]        \* NewExpression(k), or its result
Do(what) == [op |-> "do", arg |-> what]
Climb(min) == [op |-> "climb", min |-> min]  \* ParseBinaryFromLeft(Left, min)
Nao(open) == [op |-> "nao", min |-> open]    \* the loop of ParseNaoBlock

Advance == Do("advance")           \* ParserAdvance
Skip == Do("skip")                 \* the same for a token that nothing looks at
Error == Do("error")               \* ParsingError
Synchronise == Do("synchronise")
Single == Do("single")             \* ParseStatement, its result kept unseen

Is(token, kind) == token = kind \/ (kind = "ident" /\ token \in Identifiers)
AtEnd(close) == tok \in {close, "EOF"}
If(condition, symbols) == IF condition THEN symbols ELSE <<>>

\* while (!Check(close) && !Check(EOF)) { item; if (!ParserMatch(COMMA)) break; }
List(self, item, close) == If(~AtEnd(close), item \o <<Comma(self)>>)

-----------------------------------------------------------------------------
(* Types and expressions *)

ParseType ==
    CASE tok = "noalias" -> <<Advance, Call("ParseType")>>
      [] tok = "LBRACKET" -> <<Advance, Call("ParseType"), Call("ArraySize"),
                               Expect("RBRACKET")>>
      [] Is(tok, "ident") \/ tok = "type" -> <<Advance>>
      [] OTHER -> <<Error>>

ArraySize == If(tok = "COMMA", <<Advance, Expect("INT_LITERAL")>>)

Unexpected == <<Error, Advance, Make("literal")>>

ParsePrimary ==
    CASE tok \in OwnershipOperators -> <<Call("ParseOwnership")>>
      [] tok = "-" -> <<Advance, Call("ParseUnary"), Make("unary")>>
      [] tok \in Literals -> <<Advance, Make("literal")>>
      [] tok = "LPAREN" -> <<Advance, Call("ParseExpression"), Expect("RPAREN")>>
      [] tok = "LBRACE" -> <<Call("ParseArrayLiteral")>>
      [] tok \in Identifiers \cup {"sys"} -> <<Advance, Make("identifier")>>
      [] OTHER -> Unexpected

OwnershipTarget(kind) == <<Call("ParsePrimary"), Match(".."), Make(kind)>>

\* Mutant: the "$" is looked at and not consumed.
ParseOwnershipChecked ==
    IF tok = "$" THEN <<Call("ParsePrimary"), Make("ownership")>>
                 ELSE <<Advance>> \o OwnershipTarget("ownership")

\* A "!" that no "$" follows is none of the cases, so that ParsePrimary is called
\* with it again.
ParseOwnership ==
    CASE tok = "!" /\ next = "$" -> <<Advance, Advance>> \o OwnershipTarget("free")
      [] tok = "$" -> <<Advance, Call("ParsePrimary"), Make("ownership")>>
      [] tok \in {"&", "@", "#"} -> <<Advance>> \o OwnershipTarget("ownership")
      [] OTHER -> OwnershipTarget("ownership")

\* The suffixes that ParsePostfix and ParseStatement both know; `self' is the loop.
Suffix(self) ==
    CASE tok = "LPAREN" -> <<Advance, Call("ParseCallOrAccess"), self>>
      [] tok = "LBRACKET" -> <<Advance, Call("ParseExpression"), Expect("RBRACKET"),
                               Make("index"), self>>
      [] tok = "." -> <<Advance, Expect("ident"), Make("binary"), self>>
      [] tok = "@" -> <<Advance, Expect("INT_LITERAL"), Match("branch"),
                        Make("index"), self>>
      [] tok = ".." -> <<Advance, Make("ownership"), self>>
      [] OTHER -> <<>>

ParsePostfix == <<Call("ParsePrimary"), Call("Postfix")>>

IsStructInit ==
    tok = "LBRACE" /\ isIdentifier /\ Is(next, "ident") /\ third = ":"

Postfix ==
    IF IsStructInit
    THEN <<Advance, Call("Fields"), Expect("RBRACE"), Make("call"), Call("Postfix")>>
    ELSE Suffix(Call("Postfix"))

Fields == List("Fields",
               If(Is(tok, "ident"), <<Advance>>)
                   \o <<Match(":"), Call("ParseExpression")>>, "RBRACE")

ParseCallOrAccess == <<Call("Arguments"), Expect("RPAREN"), Make("call")>>
Arguments == List("Arguments", <<Call("ParseExpression")>>, "RPAREN")

ParseUnary ==
    IF tok \in {"!", "-"} THEN <<Advance, Call("ParseUnary"), Make("unary")>>
                          ELSE <<Call("ParsePostfix")>>

GetOperatorPrecedence(t) ==
    CASE t = "or" -> 1 [] t = "and" -> 2 [] t = "==" -> 3 [] t = "<" -> 4
      [] t \in {"+", "-"} -> 5 [] t = "*" -> 6 [] OTHER -> -1

ParseBinary(min) == <<Call("ParseUnary"), Climb(min)>>

ParseBinaryFromLeft(min) ==
    LET precedence == GetOperatorPrecedence(tok)
    IN  If(precedence >= min,
           <<Advance>> \o ParseBinary(precedence + 1)
               \o <<Make("binary"), Climb(min)>>)

ParseExpression == ParseBinary(0)

ParseArrayLiteral ==
    <<Expect("LBRACE"), Call("Elements"), Expect("RBRACE"), Make("array")>>
Elements == List("Elements", <<Call("ParseExpression")>>, "RBRACE")

-----------------------------------------------------------------------------
(* Statements *)

Annotation == If(tok = ":", <<Advance, Call("ParseType")>>)
Initializer == If(tok = "=", <<Advance, Call("ParseExpression")>>)

ParseVariableDeclaration ==
    IF tok = "type"
    THEN <<Call("ParseType"), Expect("ident"), Call("Initializer")>>
    ELSE <<Expect("ident"), Call("Annotation"), Call("Initializer")>>

ParseModifiers == If(tok \in Modifiers, <<Advance, Call("ParseModifiers")>>)

Within(counter, symbols) == <<Enter(counter)>> \o symbols \o <<Leave(counter)>>

\* Mutant: the closing brace may be missing.
ParseBlockOpen ==
    <<Expect("LBRACE"), Enter("ScopeDepth"), Call("Statements"), Match("RBRACE"),
      Leave("ScopeDepth")>>

ParseBlock ==
    <<Expect("LBRACE")>> \o Within("ScopeDepth", <<Call("Statements"), Expect("RBRACE")>>)
Statements == If(~AtEnd("RBRACE"), <<Call("ParseStatement"), Call("Statements")>>)

ParseConditionBlock == <<Expect("LBRACE"), Call("ParseExpression"), Expect("RBRACE")>>

ParseIfStatement == <<Call("ParseExpression"), Call("Branch"), Call("Else")>>
Branch == IF tok = "LBRACE" THEN <<Call("ParseBlock")>> ELSE <<Single>>
Else == If(tok = "else",
           IF next = "if" THEN <<Advance, Advance, Call("ParseIfStatement")>>
                          ELSE <<Advance, Call("Branch")>>)

ParseWhileStatement ==
    Within("InLoop", <<Call("ParseExpression"), Call("ParseBlock")>>)

ParseForStatement ==
    <<Expect("ident"), Expect("="), Call("ParseExpression"), Expect("COMMA"),
      Call("ParseExpression"), Expect("COMMA"), Call("ParseExpression"), Call("Step")>>
        \o Within("InLoop", <<Call("ParseBlock")>>)
Step == If(tok \in {"+=", "-="}, <<Advance, Call("ParseExpression")>>)

ParseReturnStatement ==
    If(~AtEnd("RBRACE") /\ tok # "SEMICOLON", <<Call("ParseExpression")>>)
        \o <<Match("SEMICOLON")>>

\* Mutant: the counter is lowered twice.
ParseMatchStatementTwice ==
    <<Enter("InMatch"), Call("ParseExpression"), Expect("LBRACE"), Call("Arms"),
      Expect("RBRACE"), Leave("InMatch"), Leave("InMatch")>>

ParseMatchStatement ==
    Within("InMatch", <<Call("ParseExpression"), Expect("LBRACE"), Call("Arms"),
                        Expect("RBRACE")>>)
Arms == If(~AtEnd("RBRACE"),
           <<Call("Pattern"), Call("Guard"), Expect(">>"), Call("ArmBody"),
             Match("COMMA"), Call("Arms")>>)
Pattern == IF tok = "LPAREN" THEN <<Advance, Call("Tuple"), Expect("RPAREN")>>
                        ELSE <<Call("ParseExpression")>>
Tuple == List("Tuple", <<Call("ParseExpression")>>, "RPAREN")
Guard == If(tok = "if", <<Advance, Call("ParseExpression")>>)
ArmBody == IF tok = "LBRACE" THEN <<Call("ParseBlock")>>
                        ELSE <<Call("ParseExpressionStatement")>>

ParseUnsafeBlock == Within("InUnsafe", <<Call("ParseBlock")>>)

\* Mutant: the counter stays up.
ParseTrustedBlockLeaking == <<Match("unsafe"), Enter("InUnsafe"), Call("ParseBlock")>>

ParseTrustedBlock == <<Match("unsafe")>> \o ParseUnsafeBlock
\* safe, defer, transaction, compiletime, concept and reactive
ParsePlainBlock == <<Call("ParseBlock")>>
\* region and with
ParseNamedBlock == <<Match("ident"), Call("ParseBlock")>>

\* `open' braces are to be closed before the block ends; the rest is not looked at.
NaoLoop(open) ==
    CASE tok = "EOF" -> <<>>
      [] tok = "LBRACE" -> <<Advance, Nao(open + 1)>>
      [] tok = "RBRACE" -> <<Advance>> \o If(open > 1, <<Nao(open - 1)>>)
      [] OTHER -> <<Skip, Nao(open)>>
ParseNaoBlock == <<Expect("LBRACE"), Nao(1)>>

Assignment == If(tok \in Assignments, <<Advance, Call("ParseExpression")>>)
                  \o <<Match("SEMICOLON")>>
ParseExpressionStatement == <<Call("ParseExpression"), Call("Assignment")>>

KeywordStatement ==
    CASE tok = "if" -> <<Call("ParseIfStatement")>>
      [] tok = "while" -> <<Call("ParseWhileStatement")>>
      [] tok = "for" -> <<Call("ParseForStatement")>>
      [] tok = "return" -> <<Call("ParseReturnStatement")>>
      [] tok = "match" -> <<Call("ParseMatchStatement")>>
      [] tok = "unsafe" -> <<Call("ParseUnsafeBlock")>>
      [] tok = "trusted" -> <<Call("ParseTrustedBlock")>>
      [] tok \in {"check", "assume"} -> <<Call("ParseConditionBlock")>>
      [] tok \in {"region", "with"} -> <<Call("ParseNamedBlock")>>
      [] tok \in {"break", "rollback"} -> <<>>
      [] tok = "fn" -> <<Call("ParseSubprogram")>>
      [] tok \in {"safe", "defer", "transaction"} -> <<Call("ParsePlainBlock")>>

\* `compiletime fn' in a block: both tokens are dropped, not the function.
ComptimeStatement == IF next = "fn" THEN <<Advance, Advance>>
                                    ELSE <<Advance, Call("ParsePlainBlock")>>

Access == Suffix(Call("Access"))

IdentifierStatement ==
    IF next = ":" THEN <<Advance, Advance, Call("ParseType"), Call("Initializer")>>
    ELSE IF Is(next, "ident") /\ third \in {"=", "SEMICOLON", "RBRACE", "EOF"}
    THEN <<Advance, Advance, Call("Initializer")>>
    ELSE IF tok = "reactive" THEN <<Advance, Call("ParsePlainBlock")>>
    ELSE <<Advance, Call("Access"), Climb(0), Call("Assignment")>>

ParseStatement ==
    IF PanicMode THEN <<Synchronise>>
    ELSE CASE tok \in Modifiers -> <<Call("ParseModifiers"),
                                     Call("ParseVariableDeclaration")>>
           [] tok = "type" -> <<Call("ParseVariableDeclaration")>>
           [] tok = "compiletime" -> ComptimeStatement
           [] tok \in StatementKeywords \ {"compiletime"} ->
                 <<Advance>> \o KeywordStatement
           [] Is(tok, "ident") -> IdentifierStatement
           [] OTHER -> <<Call("ParseExpressionStatement")>>

-----------------------------------------------------------------------------
(* Declarations and the program *)

ParseSubprogram ==
    <<Expect("ident")>>
        \o Within("FunctionDepth",
                  <<Expect("LPAREN"), Call("Parameters"), Expect("RPAREN"),
                    Call("Clauses"), Call("ReturnType"), Call("ParseBlock")>>)

\* Mutant: the loop goes on when no comma follows.
ParametersLoop ==
    If(~AtEnd("RPAREN"), <<Expect("ident"), Call("Annotation"), Match("COMMA"),
                      Call("Parameters")>>)

Parameters == List("Parameters", <<Expect("ident"), Call("Annotation")>>, "RPAREN")
Clauses ==
    CASE tok = "requires" ->
            <<Advance, Match("env"), Expect("ident"), Call("Clauses")>>
      [] tok = "provides" ->
            <<Advance, Match("env"), Expect("ident"), Call("Initializer"),
              Call("Clauses")>>
      [] OTHER -> <<>>
ReturnType == If(tok \in {"->", ":"}, <<Advance, Call("ParseType")>>)

\* enum and state.  A token that is neither a name nor a comma stays where it is.
ParseEnumDecl ==
    <<Expect("ident"), Expect("LBRACE"), Call("Variants"), Expect("RBRACE")>>
Variants == If(~AtEnd("RBRACE"),
               If(Is(tok, "ident"), <<Advance>>) \o <<Match("COMMA"), Call("Variants")>>)

\* struct and partial, in the same way
ParseStructDecl ==
    <<Expect("ident"), Expect("LBRACE"), Call("Members"), Expect("RBRACE")>>
Members ==
    If(~AtEnd("RBRACE"),
       If(Is(tok, "ident"), <<Advance, Expect(":"), Call("ParseType")>>)
           \o <<Match("COMMA"), Match("SEMICOLON"), Call("Members")>>)

Function == <<Advance, Call("ParseSubprogram")>>

DeclarationBody == <<Expect("LBRACE"), Call("Items"), Expect("RBRACE")>>
Items ==
    If(~AtEnd("RBRACE"),
       (IF tok = "fn" THEN Function ELSE <<Call("ParseStatement")>>) \o <<Call("Items")>>)

ParseWorldDeclaration == <<Expect("ident"), Call("Extends")>> \o DeclarationBody
Extends == If(tok = "extends", <<Advance, Expect("ident")>>)
ParseContextDeclaration == <<Expect("ident")>> \o DeclarationBody
ParseModuleDeclaration ==
    <<Expect("ident"), Expect("LBRACE"), Call("ModuleItems"), Expect("RBRACE")>>
ModuleItems ==
    If(~AtEnd("RBRACE"),
       (CASE tok = "fn" -> <<Advance, Match("fn"), Call("ParseSubprogram")>>
          [] tok = "export" -> <<Advance, Match("fn"), Call("ParseSubprogram")>>
          [] OTHER -> <<Call("ParseStatement")>>) \o <<Call("ModuleItems")>>)

ParseMacroDeclaration ==
    <<Expect("ident")>>
        \o Within("InMacro", <<Expect("LPAREN"), Call("MacroParameters"),
                               Expect("RPAREN"), Call("ParseBlock")>>)
MacroParameters == List("MacroParameters", <<Expect("ident")>>, "RPAREN")

ParseEnvironmentDeclaration == <<Expect("ident"), Call("EnvironmentBody")>>
EnvironmentBody == If(tok = "LBRACE", <<Call("ParseBlock")>>)

ParseUsing == <<Match("ident"), Call("Path"), Match("SEMICOLON")>>

Path == If(tok = "::", <<Advance, Match("ident"), Call("Path")>>)

ParseSysDecl == <<Expect("ident"), Expect("="), Call("ParseExpression")>>

KeywordDeclaration ==
    CASE tok \in {"enum", "state"} -> <<Call("ParseEnumDecl")>>
      [] tok \in {"struct", "partial"} -> <<Call("ParseStructDecl")>>
      [] tok = "module" -> <<Call("ParseModuleDeclaration")>>
      [] tok = "world" -> <<Call("ParseWorldDeclaration")>>
      [] tok = "context" -> <<Call("ParseContextDeclaration")>>
      [] tok = "macro" -> <<Call("ParseMacroDeclaration")>>
      [] tok = "env" -> <<Call("ParseEnvironmentDeclaration")>>
      [] tok = "using" -> <<Call("ParseUsing")>>
      [] tok = "sys" -> <<Call("ParseSysDecl")>>

Declaration ==
    CASE tok = "fn" -> Function
      [] tok = "compiletime" ->
            IF next = "fn" THEN <<Advance>> \o Function
                           ELSE <<Advance, Call("ParsePlainBlock")>>
      [] tok = "unsafe" /\ next = "fn" -> <<Advance>> \o Function
      [] tok \in DeclarationKeywords -> <<Advance>> \o KeywordDeclaration
      [] tok = "nao" -> <<Advance>> \o ParseNaoBlock
      [] tok \in {"concept", "reactive"} -> <<Advance, Call("ParsePlainBlock")>>
      [] tok = "with" -> <<Advance, Call("ParseNamedBlock")>>
      [] OTHER -> <<Call("ParseStatement")>>

\* The declaration after a Synchronise that ran into EOF is parsed all the same.
ParseProgram ==
    If(tok # "EOF",
       If(PanicMode, <<Synchronise>>) \o <<Call("Declaration"), Call("ParseProgram")>>)

-----------------------------------------------------------------------------
(* The machine: one step per symbol *)

Body(f) ==
    CASE f = "ParseType" -> ParseType
      [] f = "ArraySize" -> ArraySize
      [] f = "ParsePrimary" -> ParsePrimary
      [] f = "ParseOwnership" -> ParseOwnership
      [] f = "ParsePostfix" -> ParsePostfix
      [] f = "Postfix" -> Postfix
      [] f = "Fields" -> Fields
      [] f = "ParseCallOrAccess" -> ParseCallOrAccess
      [] f = "Arguments" -> Arguments
      [] f = "ParseUnary" -> ParseUnary
      [] f = "ParseExpression" -> ParseExpression
      [] f = "ParseArrayLiteral" -> ParseArrayLiteral
      [] f = "Elements" -> Elements
      [] f = "Annotation" -> Annotation
      [] f = "Initializer" -> Initializer
      [] f = "ParseVariableDeclaration" -> ParseVariableDeclaration
      [] f = "ParseModifiers" -> ParseModifiers
      [] f = "ParseBlock" -> ParseBlock
      [] f = "Statements" -> Statements
      [] f = "ParseConditionBlock" -> ParseConditionBlock
      [] f = "ParseIfStatement" -> ParseIfStatement
      [] f = "Branch" -> Branch
      [] f = "Else" -> Else
      [] f = "ParseWhileStatement" -> ParseWhileStatement
      [] f = "ParseForStatement" -> ParseForStatement
      [] f = "Step" -> Step
      [] f = "ParseReturnStatement" -> ParseReturnStatement
      [] f = "ParseMatchStatement" -> ParseMatchStatement
      [] f = "Arms" -> Arms
      [] f = "Pattern" -> Pattern
      [] f = "Tuple" -> Tuple
      [] f = "Guard" -> Guard
      [] f = "ArmBody" -> ArmBody
      [] f = "ParseUnsafeBlock" -> ParseUnsafeBlock
      [] f = "ParseTrustedBlock" -> ParseTrustedBlock
      [] f = "ParsePlainBlock" -> ParsePlainBlock
      [] f = "ParseNamedBlock" -> ParseNamedBlock
      [] f = "Assignment" -> Assignment
      [] f = "ParseExpressionStatement" -> ParseExpressionStatement
      [] f = "Access" -> Access
      [] f = "ParseStatement" -> ParseStatement
      [] f = "ParseSubprogram" -> ParseSubprogram
      [] f = "Parameters" -> Parameters
      [] f = "Clauses" -> Clauses
      [] f = "ReturnType" -> ReturnType
      [] f = "ParseEnumDecl" -> ParseEnumDecl
      [] f = "Variants" -> Variants
      [] f = "ParseStructDecl" -> ParseStructDecl
      [] f = "Members" -> Members
      [] f = "Items" -> Items
      [] f = "ParseWorldDeclaration" -> ParseWorldDeclaration
      [] f = "Extends" -> Extends
      [] f = "ParseContextDeclaration" -> ParseContextDeclaration
      [] f = "ParseModuleDeclaration" -> ParseModuleDeclaration
      [] f = "ModuleItems" -> ModuleItems
      [] f = "ParseMacroDeclaration" -> ParseMacroDeclaration
      [] f = "MacroParameters" -> MacroParameters
      [] f = "ParseEnvironmentDeclaration" -> ParseEnvironmentDeclaration
      [] f = "EnvironmentBody" -> EnvironmentBody
      [] f = "ParseUsing" -> ParseUsing
      [] f = "Path" -> Path
      [] f = "ParseSysDecl" -> ParseSysDecl
      [] f = "Declaration" -> Declaration
      [] f = "ParseProgram" -> ParseProgram

Counters ==
    {"ScopeDepth", "FunctionDepth", "InLoop", "InMatch", "InUnsafe", "InMacro"}

Init ==
    /\ \E s \in Streams :
          /\ alphabet = s.alphabet /\ left = s.tokens - 3
          /\ window \in {w \in [1..3 -> s.alphabet \cup {"EOF"}] :
                             \A i \in 1..2 : w[i] = "EOF" => w[i + 1] = "EOF"}
    /\ stack = <<Call("ParseProgram")>>
    /\ PanicMode = FALSE /\ HasError = FALSE /\ isIdentifier = FALSE
    /\ depth = [c \in Counters |-> 0]
    /\ nesting = <<>> /\ nullKept = FALSE

Finished == stack = <<>>
Overflow == Len(stack) >= StackLimit

\* The symbol that is done next.
Doing(op) == ~Finished /\ ~Overflow /\ Head(stack).op = op
Done == stack' = Tail(stack)
Replace(symbols) == stack' = symbols \o Tail(stack)

\* ParserAdvance: behind the last token, which is EOF, Current stays on it.
ParserAdvance ==
    /\ \/ /\ third # "EOF" /\ left > 0
          /\ \E t \in alphabet : window' = <<next, third, t>>
          /\ left' = left - 1
       \/ /\ window' = <<next, third, "EOF">>
          /\ left' = 0
    /\ UNCHANGED alphabet

Opens == [b \in {"RBRACE", "RPAREN", "RBRACKET"} |->
             CASE b = "RBRACE" -> "LBRACE" [] b = "RPAREN" -> "LPAREN"
               [] b = "RBRACKET" -> "LBRACKET"]

\* The brackets that are open behind t.
Bracketed(open, t) ==
    CASE t \in {"LBRACE", "LPAREN", "LBRACKET"} -> <<t>> \o open
      [] t \in DOMAIN Opens ->
            IF open # <<>> /\ Head(open) = Opens[t] THEN Tail(open) ELSE <<t>> \o open
      [] OTHER -> open

\* Those of what was accepted so far; after an error they are of no interest.
Nested(t) == IF HasError THEN <<>> ELSE Bracketed(nesting, t)

Consume == ParserAdvance /\ nesting' = Nested(tok)
Keep == UNCHANGED <<window, alphabet, left, nesting>>

\* Mutant: only the panic is recorded.
ParserErrorQuiet == PanicMode' = TRUE /\ UNCHANGED HasError /\ nesting' = <<>>

\* ParserError says and does nothing more until the next Synchronise.
ParserError ==
    /\ IF PanicMode THEN UNCHANGED <<PanicMode, HasError>>
                    ELSE PanicMode' = TRUE /\ HasError' = TRUE
    /\ nesting' = <<>>

Activate ==
    /\ \/ Doing("call") /\ Replace(Body(Head(stack).arg))
       \/ Doing("climb") /\ Replace(ParseBinaryFromLeft(Head(stack).min))
       \/ Doing("nao") /\ Replace(NaoLoop(Head(stack).min))
    /\ Keep /\ UNCHANGED <<parser, nullKept>>

ExpectToken ==
    /\ Doing("expect")
    /\ Done
    /\ IF Is(tok, Head(stack).arg)
       THEN Consume /\ UNCHANGED <<PanicMode, HasError>>
       ELSE ParserError /\ UNCHANGED <<window, alphabet, left>>
    /\ UNCHANGED <<isIdentifier, depth, nullKept>>

ParserMatch ==
    /\ Doing("match")
    /\ Done
    /\ IF Is(tok, Head(stack).arg) THEN Consume ELSE Keep
    /\ UNCHANGED <<parser, nullKept>>

MatchComma ==
    /\ Doing("comma")
    /\ IF tok = "COMMA" THEN Consume /\ Replace(<<Call(Head(stack).arg)>>)
                    ELSE Keep /\ Done
    /\ UNCHANGED <<parser, nullKept>>

Count ==
    /\ \/ Doing("enter") /\ depth' = [depth EXCEPT ![Head(stack).arg] = @ + 1]
       \/ Doing("leave") /\ depth' = [depth EXCEPT ![Head(stack).arg] = @ - 1]
    /\ Done
    /\ Keep
    /\ UNCHANGED <<PanicMode, HasError, isIdentifier, nullKept>>

NewExpression ==
    /\ Doing("make")
    /\ Done
    /\ isIdentifier' = (Head(stack).arg = "identifier")
    /\ Keep /\ UNCHANGED <<PanicMode, HasError, depth, nullKept>>

DoAdvance ==
    /\ Doing("do") /\ Head(stack) \in {Advance, Skip}
    /\ Done
    /\ ParserAdvance
    /\ nesting' = IF Head(stack) = Skip THEN nesting ELSE Nested(tok)
    /\ UNCHANGED <<parser, nullKept>>

ParsingError ==
    /\ Doing("do") /\ Head(stack) = Error
    /\ Done
    /\ ParserError
    /\ UNCHANGED <<window, alphabet, left, isIdentifier, depth, nullKept>>

SyncTokens ==
    (StatementKeywords \ {"break", "rollback", "with"})
        \cup (DeclarationKeywords \ {"using", "sys"}) \cup {"EOF"}

\* One round of the loop of Synchronise, which puts itself back.
DoSynchronise ==
    /\ Doing("do") /\ Head(stack) = Synchronise
    /\ PanicMode' = FALSE
    /\ IF tok \in SyncTokens THEN Done /\ Keep
                             ELSE ParserAdvance /\ UNCHANGED <<stack, nesting>>
    /\ UNCHANGED <<HasError, isIdentifier, depth, nullKept>>

\* The branch of an if that is a single statement: ParseStatement returns NULL when
\* it had to synchronise, and the branch keeps it.
DoSingle ==
    /\ Doing("do") /\ Head(stack) = Single
    /\ Replace(<<Call("ParseStatement")>>)
    /\ nullKept' = (nullKept \/ PanicMode)
    /\ Keep /\ UNCHANGED <<parser>>

Next ==
    \/ Activate \/ ExpectToken \/ ParserMatch \/ MatchComma \/ Count
    \/ NewExpression \/ DoAdvance \/ ParsingError \/ DoSynchronise \/ DoSingle

Spec == Init /\ [][Next]_vars

\* The parser waits for nothing: it takes its next step.
FairSpec == Spec /\ WF_vars(Next)

-----------------------------------------------------------------------------
(* Properties *)

\* The types of the variables; the counters, which are int, never get below 0.
TypeOK ==
    /\ window \in [1..3 -> alphabet \cup {"EOF"}]
    /\ left \in Nat
    /\ Len(stack) <= StackLimit + 12
    /\ PanicMode \in BOOLEAN /\ HasError \in BOOLEAN /\ isIdentifier \in BOOLEAN
    /\ depth \in [Counters -> Nat]

\* What is parsed without an error is properly bracketed: whatever the functions
\* match, skip and leave to their callers, every bracket consumed is closed by
\* its own kind and in order.  (But for a nao block, whose end may be that of the
\* file: streams with nao are left out.)
AcceptedNests == Finished /\ ~HasError /\ "nao" \notin alphabet => nesting = <<>>

\* An if whose branch is a NULL statement, on which LowerStatement would fault, is
\* only built once an error was reported.
NullOnlyAfterError == nullKept => HasError

\* Every activation lowers the counters it raised, through any number of errors
\* and recoveries in between.
CountersReturn == Finished => \A c \in Counters : depth[c] = 0

\* The one recursion that consumes nothing: ParsePrimary and ParseOwnership call each
\* other on a "!" that no "$" follows.
BangRecursion ==
    ~Finished /\ tok = "!" /\ next # "$"
        /\ Head(stack) \in {Call("ParseOwnership"), Call("ParsePrimary")}

\* The C stack grows with the tokens consumed: no stream fills StackLimit symbols,
\* except in that recursion.
RecursionConsumes == Overflow => BangRecursion

\* The loops over the variants of an enum or a state and over the members of a struct
\* do not advance at a token they have no case for.
Spinning ==
    /\ ~Finished /\ ~AtEnd("RBRACE") /\ ~Is(tok, "ident") /\ tok # "COMMA"
    /\ \/ Head(stack) = Call("Variants")
       \/ Head(stack) = Call("Members") /\ tok # "SEMICOLON"

\* ParseProgram returns for every token stream, with an error or without, unless
\* it comes to one of these loops or to the recursion.
ParserEnds == <>(Finished \/ Spinning \/ BangRecursion)

=============================================================================
