---------------------------- MODULE Parser_proofs ----------------------------
(***************************************************************************)
(* The parser for every token stream, however long, and every size of the  *)
(* C stack: the types of its variables, the counters it gives back, the    *)
(* brackets of what it accepts, the NULL statement it only keeps behind an *)
(* error, and how deep its calls nest.                                     *)
(*                                                                         *)
(* None of these is inductive: at the end of a statement a counter is 0    *)
(* because of what was on the stack when it was raised.  The invariants    *)
(* read the stack as a walk: each symbol on it will take the counters, or  *)
(* the brackets that are open, from one value to another, and the last     *)
(* value is the one that the property asks for.  A step preserves the walk *)
(* when the body of each function, put in the place of its call, walks     *)
(* from where the call did to where the call did.                          *)
(***************************************************************************)
EXTENDS Parser, SequenceTheorems, TLAPS

(***************************************************************************)
(* The errors.  A NULL is kept while PanicMode is set, many tokens behind  *)
(* the error: the invariant adds that panic only follows an error that was *)
(* counted.                                                                *)
(***************************************************************************)
PanicFollowsError == PanicMode => HasError
IInv == PanicFollowsError /\ NullOnlyAfterError

\* There is no error to begin with.
LEMMA InitIInv == Init => IInv
  BY DEF Init, IInv, PanicFollowsError, NullOnlyAfterError

\* An error sets HasError before it raises the panic; the next one changes nothing.
LEMMA ErrorIInv ==
    ASSUME IInv, ParserError, UNCHANGED nullKept
    PROVE  IInv'
<1>1. CASE PanicMode
  BY <1>1 DEF IInv, PanicFollowsError, NullOnlyAfterError, ParserError
<1>2. CASE ~PanicMode
  BY <1>2 DEF IInv, PanicFollowsError, NullOnlyAfterError, ParserError
<1> QED BY <1>1, <1>2

\* Steps that touch neither the errors nor what is kept.
LEMMA QuietIInv ==
    ASSUME IInv, UNCHANGED <<PanicMode, HasError, nullKept>>
    PROVE  IInv'
  BY DEF IInv, PanicFollowsError, NullOnlyAfterError

\* The steps, one action after the other.
LEMMA StepIInv == ASSUME IInv, [Next]_vars PROVE IInv'
<1>1. CASE Activate
  BY <1>1, QuietIInv DEF Activate, parser
<1>2. CASE ExpectToken
  <2>1. CASE Is(tok, Head(stack).arg)
    BY <1>2, <2>1, QuietIInv DEF ExpectToken
  <2>2. CASE ~Is(tok, Head(stack).arg)
    BY <1>2, <2>2, ErrorIInv DEF ExpectToken
  <2> QED BY <2>1, <2>2
<1>3. CASE ParserMatch
  BY <1>3, QuietIInv DEF ParserMatch, parser
<1>4. CASE MatchComma
  BY <1>4, QuietIInv DEF MatchComma, parser
<1>5. CASE Count
  BY <1>5, QuietIInv DEF Count
<1>6. CASE NewExpression
  BY <1>6, QuietIInv DEF NewExpression
<1>7. CASE DoAdvance
  BY <1>7, QuietIInv DEF DoAdvance, parser
<1>8. CASE ParsingError
  BY <1>8, ErrorIInv DEF ParsingError
<1>9. CASE DoSynchronise
  BY <1>9 DEF DoSynchronise, IInv, PanicFollowsError, NullOnlyAfterError
<1>10. CASE DoSingle
  BY <1>10 DEF DoSingle, parser, IInv, PanicFollowsError, NullOnlyAfterError
<1>11. CASE UNCHANGED vars
  BY <1>11, QuietIInv DEF vars, parser
<1> QED BY <1>1, <1>2, <1>3, <1>4, <1>5, <1>6, <1>7, <1>8, <1>9, <1>10, <1>11 DEF Next

\* An if whose branch is NULL, which LowerStatement would read, is only in the tree of
\* a program that the parser has reported: main can tell before it goes on.
THEOREM NullReported == Spec => []NullOnlyAfterError
<1>1. IInv => NullOnlyAfterError
  BY DEF IInv
<1> QED BY InitIInv, StepIInv, <1>1, PTL DEF Spec

(***************************************************************************)
(* Walks.  A symbol on the stack will take what it works on, a counter or  *)
(* the brackets, from one value to another; the stack is a walk along      *)
(* such links to the value it ends with.                                   *)
(***************************************************************************)
Walk(links, s, d, e) ==
    \E h : /\ h[0] = d /\ h[Len(s)] = e
           /\ \A i \in 1..Len(s) : <<s[i], h[i - 1], h[i]>> \in links

\* With nothing to do the value stays.
LEMMA WalkEmpty ==
    ASSUME NEW links, NEW d
    PROVE  Walk(links, <<>>, d, d)
<1>. DEFINE h == [i \in 0..0 |-> d]
<1>1. h[0] = d /\ Len(<<>>) = 0
  OBVIOUS
<1>2. 1..0 = {}
  OBVIOUS
<1>. HIDE DEF h
<1>. QED
  BY <1>1, <1>2 DEF Walk

\* The end of a walk without symbols is its beginning.
LEMMA WalkOver ==
    ASSUME NEW links, NEW d, NEW e, Walk(links, <<>>, d, e)
    PROVE  d = e
BY DEF Walk

\* The symbol done next is the first link.
LEMMA WalkHead ==
    ASSUME NEW links, NEW S, NEW s \in Seq(S), s # <<>>, NEW d, NEW e, Walk(links, s, d, e)
    PROVE  \E m : <<Head(s), d, m>> \in links /\ Walk(links, Tail(s), m, e)
<1>1. PICK h : /\ h[0] = d /\ h[Len(s)] = e
               /\ \A i \in 1..Len(s) : <<s[i], h[i - 1], h[i]>> \in links
  BY DEF Walk
<1>2. /\ Len(s) \in Nat /\ Len(s) >= 1 /\ Head(s) = s[1]
      /\ Tail(s) \in Seq(S) /\ Len(Tail(s)) = Len(s) - 1
      /\ \A i \in 1..(Len(s) - 1) : Tail(s)[i] = s[i + 1]
  OBVIOUS
<1>. DEFINE t == Tail(s)
            g == [i \in 0..Len(t) |-> h[i + 1]]
<1>3. g[0] = h[1] /\ g[Len(t)] = e
  BY <1>1, <1>2
<1>4. ASSUME NEW i \in 1..Len(t)
      PROVE  <<t[i], g[i - 1], g[i]>> \in links
  <2>1. /\ i + 1 \in 1..Len(s) /\ t[i] = s[i + 1] /\ i + 1 - 1 = i
        /\ g[i - 1] = h[i] /\ g[i] = h[i + 1]
    BY <1>2
  <2>2. <<s[i + 1], h[i + 1 - 1], h[i + 1]>> \in links
    BY <1>1, <2>1
  <2>. QED
    BY <2>1, <2>2
<1>5. <<Head(s), d, h[1]>> \in links
  <2>1. 1 \in 1..Len(s) /\ 1 - 1 = 0
    BY <1>2
  <2>2. <<s[1], h[1 - 1], h[1]>> \in links
    BY <1>1, <2>1
  <2>. QED
    BY <1>1, <1>2, <2>1, <2>2
<1>. HIDE DEF g, t
<1>6. Walk(links, t, h[1], e)
  BY <1>3, <1>4 DEF Walk
<1>. QED
  BY <1>5, <1>6 DEF t

\* One walk after the other.
LEMMA WalkJoin ==
    ASSUME NEW links, NEW S, NEW s \in Seq(S), NEW t \in Seq(S), NEW d, NEW m, NEW e,
           Walk(links, s, d, m), Walk(links, t, m, e)
    PROVE  Walk(links, s \o t, d, e)
<1>1. PICK h : /\ h[0] = d /\ h[Len(s)] = m
               /\ \A i \in 1..Len(s) : <<s[i], h[i - 1], h[i]>> \in links
  BY DEF Walk
<1>2. PICK g : /\ g[0] = m /\ g[Len(t)] = e
               /\ \A i \in 1..Len(t) : <<t[i], g[i - 1], g[i]>> \in links
  BY DEF Walk
<1>. DEFINE u == s \o t
            a == Len(s)
            b == Len(t)
            f == [i \in 0..(a + b) |-> IF i <= a THEN h[i] ELSE g[i - a]]
<1>3. /\ a \in Nat /\ b \in Nat /\ Len(u) = a + b
      /\ \A i \in 1..Len(u) : u[i] = IF i <= a THEN s[i] ELSE t[i - a]
  BY ConcatProperties, LenProperties
<1>4. \A i \in 1..a : <<s[i], h[i - 1], h[i]>> \in links
  BY <1>1
<1>5. \A i \in 1..b : <<t[i], g[i - 1], g[i]>> \in links
  BY <1>2
<1>6. h[0] = d /\ h[a] = m /\ g[0] = m /\ g[b] = e
  BY <1>1, <1>2
<1>. HIDE DEF u, a, b
<1>7. \A i \in 0..(a + b) : i <= a => f[i] = h[i]
  OBVIOUS
<1>8. \A i \in 0..(a + b) : i > a => f[i] = g[i - a]
  BY <1>3
<1>. HIDE DEF f
<1>9. \A k \in 0..b : f[a + k] = g[k]
  <2>. SUFFICES ASSUME NEW k \in 0..b
                PROVE  f[a + k] = g[k]
    OBVIOUS
  <2>1. CASE k = 0
    <3>1. a + k = a /\ a \in 0..(a + b)
      BY <1>3, <2>1
    <3>. QED
      BY <1>6, <1>7, <2>1, <3>1
  <2>2. CASE k > 0
    <3>1. a + k \in 0..(a + b) /\ a + k > a /\ (a + k) - a = k
      BY <1>3, <2>2
    <3>. QED
      BY <1>8, <3>1
  <2>. QED
    BY <2>1, <2>2
<1>10. f[0] = d /\ f[Len(u)] = e
  <2>1. 0 \in 0..(a + b) /\ 0 <= a /\ b \in 0..b
    BY <1>3
  <2>. QED
    BY <1>3, <1>6, <1>7, <1>9, <2>1
<1>11. ASSUME NEW i \in 1..Len(u)
       PROVE  <<u[i], f[i - 1], f[i]>> \in links
  <2>1. CASE i <= a
    <3>1. /\ i \in 1..a /\ u[i] = s[i]
          /\ i \in 0..(a + b) /\ i - 1 \in 0..(a + b) /\ i - 1 <= a
      BY <1>3, <2>1
    <3>2. f[i - 1] = h[i - 1] /\ f[i] = h[i]
      BY <1>7, <2>1, <3>1
    <3>. QED
      BY <1>4, <3>1, <3>2
  <2>2. CASE i > a
    <3>1. PICK k \in 1..b : i = a + k
      <4>1. i - a \in 1..b /\ i = a + (i - a)
        BY <1>3, <2>2
      <4>. QED
        BY <4>1
    <3>2. u[i] = t[k]
      <4>1. i - a = k
        BY <1>3, <3>1
      <4>. QED
        BY <1>3, <2>2, <4>1
    <3>3. f[i] = g[k] /\ f[i - 1] = g[k - 1]
      <4>1. k \in 0..b /\ k - 1 \in 0..b /\ i - 1 = a + (k - 1)
        BY <1>3, <3>1
      <4>. QED
        BY <1>9, <3>1, <4>1
    <3>. QED
      BY <1>5, <3>1, <3>2, <3>3
  <2>. QED
    BY <1>3, <2>1, <2>2
<1>12. Walk(links, u, d, e)
  BY <1>10, <1>11 DEF Walk
<1>. QED
  BY <1>12 DEF u

\* Symbols that leave the value alone.
LEMMA WalkStays ==
    ASSUME NEW links, NEW s, NEW d, Len(s) \in Nat,
           \A i \in 1..Len(s) : <<s[i], d, d>> \in links
    PROVE  Walk(links, s, d, d)
<1>. DEFINE h == [i \in 0..Len(s) |-> d]
<1>1. h[0] = d /\ h[Len(s)] = d /\ \A i \in 1..Len(s) : h[i - 1] = d /\ h[i] = d
  OBVIOUS
<1>. HIDE DEF h
<1>. QED
  BY <1>1 DEF Walk

\* Symbols that do, but for one.
LEMMA WalkOnce ==
    ASSUME NEW links, NEW s, NEW d, NEW e, Len(s) \in Nat, NEW j \in 1..Len(s),
           <<s[j], d, e>> \in links,
           \A i \in 1..Len(s) : i < j => <<s[i], d, d>> \in links,
           \A i \in 1..Len(s) : i > j => <<s[i], e, e>> \in links
    PROVE  Walk(links, s, d, e)
<1>. DEFINE h == [i \in 0..Len(s) |-> IF i < j THEN d ELSE e]
<1>1. h[0] = d /\ h[Len(s)] = e
  OBVIOUS
<1>2. ASSUME NEW i \in 1..Len(s)
      PROVE  <<s[i], h[i - 1], h[i]>> \in links
  <2>1. CASE i < j
    <3>1. h[i - 1] = d /\ h[i] = d
      BY <2>1
    <3>. QED
      BY <2>1, <3>1
  <2>2. CASE i = j
    <3>1. h[i - 1] = d /\ h[i] = e
      BY <2>2
    <3>. QED
      BY <2>2, <3>1
  <2>3. CASE i > j
    <3>1. h[i - 1] = e /\ h[i] = e
      BY <2>3
    <3>. QED
      BY <2>3, <3>1
  <2>. QED
    BY <2>1, <2>2, <2>3
<1>. HIDE DEF h
<1>. QED
  BY <1>1, <1>2 DEF Walk

\* But for two, of which the second takes back what the first did.
LEMMA WalkTwice ==
    ASSUME NEW links, NEW s, NEW d, NEW m, Len(s) \in Nat,
           NEW j \in 1..Len(s), NEW k \in 1..Len(s), j < k,
           <<s[j], d, m>> \in links, <<s[k], m, d>> \in links,
           \A i \in 1..Len(s) : i < j \/ i > k => <<s[i], d, d>> \in links,
           \A i \in 1..Len(s) : j < i /\ i < k => <<s[i], m, m>> \in links
    PROVE  Walk(links, s, d, d)
<1>. DEFINE h == [i \in 0..Len(s) |-> IF j <= i /\ i < k THEN m ELSE d]
<1>1. h[0] = d /\ h[Len(s)] = d
  OBVIOUS
<1>2. ASSUME NEW i \in 1..Len(s)
      PROVE  <<s[i], h[i - 1], h[i]>> \in links
  <2>1. CASE i < j \/ i > k
    <3>1. h[i - 1] = d /\ h[i] = d
      BY <2>1
    <3>. QED
      BY <2>1, <3>1
  <2>2. CASE i = j
    <3>1. h[i - 1] = d /\ h[i] = m
      BY <2>2
    <3>. QED
      BY <2>2, <3>1
  <2>3. CASE j < i /\ i < k
    <3>1. h[i - 1] = m /\ h[i] = m
      BY <2>3
    <3>. QED
      BY <2>3, <3>1
  <2>4. CASE i = k
    <3>1. h[i - 1] = m /\ h[i] = d
      BY <2>4
    <3>. QED
      BY <2>4, <3>1
  <2>. QED
    BY <2>1, <2>2, <2>3, <2>4
<1>. HIDE DEF h
<1>. QED
  BY <1>1, <1>2 DEF Walk

(***************************************************************************)
(* The symbols.                                                            *)
(***************************************************************************)
Functions ==
    {"ParseType", "ArraySize", "ParsePrimary", "ParseOwnership", "ParsePostfix",
     "Postfix", "Fields", "ParseCallOrAccess", "Arguments", "ParseUnary",
     "ParseExpression", "ParseArrayLiteral", "Elements", "Annotation",
     "Initializer", "ParseVariableDeclaration", "ParseModifiers", "ParseBlock",
     "Statements", "ParseConditionBlock", "ParseIfStatement", "Branch", "Else",
     "ParseWhileStatement", "ParseForStatement", "Step", "ParseReturnStatement",
     "ParseMatchStatement", "Arms", "Pattern", "Tuple", "Guard", "ArmBody",
     "ParseUnsafeBlock", "ParseTrustedBlock", "ParsePlainBlock", "ParseNamedBlock",
     "Assignment", "ParseExpressionStatement", "Access", "ParseStatement",
     "ParseSubprogram", "Parameters", "Clauses", "ReturnType", "ParseEnumDecl",
     "Variants", "ParseStructDecl", "Members", "Items", "ParseWorldDeclaration",
     "Extends", "ParseContextDeclaration", "ParseModuleDeclaration", "ModuleItems",
     "ParseMacroDeclaration", "MacroParameters", "ParseEnvironmentDeclaration",
     "EnvironmentBody", "ParseUsing", "Path", "ParseSysDecl", "Declaration",
     "ParseProgram"}

\* What is expected, but for the brackets, and matched.
Expected == {"ident", "INT_LITERAL", "=", "COMMA", ":", ">>"}
Matched == {"ident", "..", "branch", ":", "SEMICOLON", "COMMA", "unsafe", "fn", "env"}

\* All symbols but those that count.
Quiet ==
    [op : {"call", "comma"}, arg : Functions]
    \cup [op : {"expect"}, arg : Expected \cup Brackets]
    \cup [op : {"match"}, arg : Matched]
    \cup [op : {"make"}, arg : {"unary", "literal", "identifier", "ownership", "free",
                               "index", "binary", "call", "array"}]
    \cup [op : {"do"}, arg : {"advance", "skip", "error", "synchronise", "single"}]
    \cup [op : {"climb", "nao"}, min : Nat]
Symbol == Quiet \cup [op : {"enter", "leave"}, arg : Counters]

\* The calls are symbols.
LEMMA CallSymbol ==
    ASSUME NEW f \in Functions
    PROVE  Call(f) \in Quiet /\ Comma(f) \in Quiet
BY DEF Call, Comma, Quiet

\* So is what the functions expect, match and make.
LEMMA TokenSymbol ==
    /\ \A t \in Expected \cup Brackets : Expect(t) \in Quiet
    /\ \A t \in Matched : Match(t) \in Quiet
    /\ \A k \in {"unary", "literal", "identifier", "ownership", "free", "index", "binary",
                "call", "array"} : Make(k) \in Quiet
    /\ {Advance, Skip, Error, Synchronise, Single} \subseteq Quiet
    /\ \A n \in Nat : Climb(n) \in Quiet /\ Nao(n) \in Quiet
<1>1. \A t \in Expected \cup Brackets : Expect(t) \in Quiet
  BY DEF Expect, Quiet
<1>2. \A t \in Matched : Match(t) \in Quiet
  BY DEF Match, Quiet
<1>3. \A k \in {"unary", "literal", "identifier", "ownership", "free", "index", "binary",
               "call", "array"} : Make(k) \in Quiet
  BY DEF Make, Quiet
<1>4. {Advance, Skip, Error, Synchronise, Single} \subseteq Quiet
  BY DEF Advance, Skip, Error, Synchronise, Single, Do, Quiet
<1>5. \A n \in Nat : Climb(n) \in Quiet /\ Nao(n) \in Quiet
  BY DEF Climb, Nao, Quiet
<1>. QED
  BY <1>1, <1>2, <1>3, <1>4, <1>5

\* The functions by name.
LEMMA Calls ==
    /\ Call("ParseType") \in Quiet
    /\ Call("ArraySize") \in Quiet
    /\ Call("ParsePrimary") \in Quiet
    /\ Call("ParseOwnership") \in Quiet
    /\ Call("ParsePostfix") \in Quiet
    /\ Call("Postfix") \in Quiet
    /\ Call("Fields") \in Quiet
    /\ Call("ParseCallOrAccess") \in Quiet
    /\ Call("Arguments") \in Quiet
    /\ Call("ParseUnary") \in Quiet
    /\ Call("ParseExpression") \in Quiet
    /\ Call("ParseArrayLiteral") \in Quiet
    /\ Call("Elements") \in Quiet
    /\ Call("Annotation") \in Quiet
    /\ Call("Initializer") \in Quiet
    /\ Call("ParseVariableDeclaration") \in Quiet
    /\ Call("ParseModifiers") \in Quiet
    /\ Call("ParseBlock") \in Quiet
    /\ Call("Statements") \in Quiet
    /\ Call("ParseConditionBlock") \in Quiet
    /\ Call("ParseIfStatement") \in Quiet
    /\ Call("Branch") \in Quiet
    /\ Call("Else") \in Quiet
    /\ Call("ParseWhileStatement") \in Quiet
    /\ Call("ParseForStatement") \in Quiet
    /\ Call("Step") \in Quiet
    /\ Call("ParseReturnStatement") \in Quiet
    /\ Call("ParseMatchStatement") \in Quiet
    /\ Call("Arms") \in Quiet
    /\ Call("Pattern") \in Quiet
    /\ Call("Tuple") \in Quiet
    /\ Call("Guard") \in Quiet
    /\ Call("ArmBody") \in Quiet
    /\ Call("ParseUnsafeBlock") \in Quiet
    /\ Call("ParseTrustedBlock") \in Quiet
    /\ Call("ParsePlainBlock") \in Quiet
    /\ Call("ParseNamedBlock") \in Quiet
    /\ Call("Assignment") \in Quiet
    /\ Call("ParseExpressionStatement") \in Quiet
    /\ Call("Access") \in Quiet
    /\ Call("ParseStatement") \in Quiet
    /\ Call("ParseSubprogram") \in Quiet
    /\ Call("Parameters") \in Quiet
    /\ Call("Clauses") \in Quiet
    /\ Call("ReturnType") \in Quiet
    /\ Call("ParseEnumDecl") \in Quiet
    /\ Call("Variants") \in Quiet
    /\ Call("ParseStructDecl") \in Quiet
    /\ Call("Members") \in Quiet
    /\ Call("Items") \in Quiet
    /\ Call("ParseWorldDeclaration") \in Quiet
    /\ Call("Extends") \in Quiet
    /\ Call("ParseContextDeclaration") \in Quiet
    /\ Call("ParseModuleDeclaration") \in Quiet
    /\ Call("ModuleItems") \in Quiet
    /\ Call("ParseMacroDeclaration") \in Quiet
    /\ Call("MacroParameters") \in Quiet
    /\ Call("ParseEnvironmentDeclaration") \in Quiet
    /\ Call("EnvironmentBody") \in Quiet
    /\ Call("ParseUsing") \in Quiet
    /\ Call("Path") \in Quiet
    /\ Call("ParseSysDecl") \in Quiet
    /\ Call("Declaration") \in Quiet
    /\ Call("ParseProgram") \in Quiet
<1>1. \A f \in Functions : Call(f) \in Quiet
  BY CallSymbol
<1>. QED
  BY <1>1 DEF Functions


\* The loops over lists by name.
LEMMA Commas ==
    /\ Comma("Arguments") \in Quiet
    /\ Comma("Elements") \in Quiet
    /\ Comma("Fields") \in Quiet
    /\ Comma("MacroParameters") \in Quiet
    /\ Comma("Parameters") \in Quiet
    /\ Comma("Tuple") \in Quiet
<1>1. \A f \in Functions : Comma(f) \in Quiet
  BY CallSymbol
<1>. QED
  BY <1>1 DEF Functions

\* The tokens that are expected or matched, and what is made, by name.
LEMMA Tokens ==
    /\ Expect(":") \in Quiet
    /\ Expect("=") \in Quiet
    /\ Expect(">>") \in Quiet
    /\ Expect("COMMA") \in Quiet
    /\ Expect("INT_LITERAL") \in Quiet
    /\ Expect("LBRACE") \in Quiet
    /\ Expect("LPAREN") \in Quiet
    /\ Expect("RBRACE") \in Quiet
    /\ Expect("RBRACKET") \in Quiet
    /\ Expect("RPAREN") \in Quiet
    /\ Expect("ident") \in Quiet
    /\ Match("..") \in Quiet
    /\ Match(":") \in Quiet
    /\ Match("COMMA") \in Quiet
    /\ Match("SEMICOLON") \in Quiet
    /\ Match("branch") \in Quiet
    /\ Match("env") \in Quiet
    /\ Match("fn") \in Quiet
    /\ Match("ident") \in Quiet
    /\ Match("unsafe") \in Quiet
    /\ Make("array") \in Quiet
    /\ Make("binary") \in Quiet
    /\ Make("call") \in Quiet
    /\ Make("identifier") \in Quiet
    /\ Make("index") \in Quiet
    /\ Make("literal") \in Quiet
    /\ Make("ownership") \in Quiet
    /\ Make("unary") \in Quiet
    /\ Make("free") \in Quiet
    /\ Advance \in Quiet
    /\ Skip \in Quiet
    /\ Error \in Quiet
    /\ Synchronise \in Quiet
    /\ Single \in Quiet
BY TokenSymbol DEF Expected, Brackets, Matched

(***************************************************************************)
(* The bodies.                                                             *)
(***************************************************************************)
QuietBody == {b \in Seq(Quiet) : Len(b) <= 14}

Counting ==
    {"ParseBlock", "ParseWhileStatement", "ParseForStatement", "ParseMatchStatement",
     "ParseUnsafeBlock", "ParseTrustedBlock", "ParseSubprogram", "ParseMacroDeclaration"}

\* What the calls that count nothing do.
LEMMA QuietBodies ==
    ASSUME NEW f \in Functions, f \notin Counting
    PROVE  Body(f) \in QuietBody
<1>1. ParseType \in QuietBody
  BY Calls, Commas, Tokens DEF QuietBody, ParseType, If
<1>2. ArraySize \in QuietBody
  BY Calls, Commas, Tokens DEF QuietBody, ArraySize, If
<1>3. ParsePrimary \in QuietBody
  BY Calls, Commas, Tokens DEF QuietBody, ParsePrimary, Unexpected
<1>4. ParseOwnership \in QuietBody
  BY Calls, Commas, Tokens DEF QuietBody, ParseOwnership, OwnershipTarget
<1>5. ParsePostfix \in QuietBody
  BY Calls, Commas, Tokens DEF QuietBody, ParsePostfix
<1>6. Postfix \in QuietBody
  BY Calls, Commas, Tokens DEF QuietBody, Postfix, Suffix
<1>7. Fields \in QuietBody
  BY Calls, Commas, Tokens DEF QuietBody, Fields, List, If
<1>8. ParseCallOrAccess \in QuietBody
  BY Calls, Commas, Tokens DEF QuietBody, ParseCallOrAccess
<1>9. Arguments \in QuietBody
  BY Calls, Commas, Tokens DEF QuietBody, Arguments, List, If
<1>10. ParseUnary \in QuietBody
  BY Calls, Commas, Tokens DEF QuietBody, ParseUnary
<1>11. ParseExpression \in QuietBody
  <2>1. Climb(0) \in Quiet
    BY TokenSymbol
  <2>. QED
    BY <2>1, Calls DEF QuietBody, ParseExpression, ParseBinary
<1>12. ParseArrayLiteral \in QuietBody
  BY Calls, Commas, Tokens DEF QuietBody, ParseArrayLiteral
<1>13. Elements \in QuietBody
  BY Calls, Commas, Tokens DEF QuietBody, Elements, List, If
<1>14. Annotation \in QuietBody
  BY Calls, Commas, Tokens DEF QuietBody, Annotation, If
<1>15. Initializer \in QuietBody
  BY Calls, Commas, Tokens DEF QuietBody, Initializer, If
<1>16. ParseVariableDeclaration \in QuietBody
  BY Calls, Commas, Tokens DEF QuietBody, ParseVariableDeclaration
<1>17. ParseModifiers \in QuietBody
  BY Calls, Commas, Tokens DEF QuietBody, ParseModifiers, If
<1>18. Statements \in QuietBody
  BY Calls, Commas, Tokens DEF QuietBody, Statements, If
<1>19. ParseConditionBlock \in QuietBody
  BY Calls, Commas, Tokens DEF QuietBody, ParseConditionBlock
<1>20. ParseIfStatement \in QuietBody
  BY Calls, Commas, Tokens DEF QuietBody, ParseIfStatement
<1>21. Branch \in QuietBody
  BY Calls, Commas, Tokens DEF QuietBody, Branch
<1>22. Else \in QuietBody
  BY Calls, Commas, Tokens DEF QuietBody, Else, If
<1>23. Step \in QuietBody
  BY Calls, Commas, Tokens DEF QuietBody, Step, If
<1>24. ParseReturnStatement \in QuietBody
  BY Calls, Commas, Tokens DEF QuietBody, ParseReturnStatement, If
<1>25. Arms \in QuietBody
  BY Calls, Commas, Tokens DEF QuietBody, Arms, If
<1>26. Pattern \in QuietBody
  BY Calls, Commas, Tokens DEF QuietBody, Pattern
<1>27. Tuple \in QuietBody
  BY Calls, Commas, Tokens DEF QuietBody, Tuple, List, If
<1>28. Guard \in QuietBody
  BY Calls, Commas, Tokens DEF QuietBody, Guard, If
<1>29. ArmBody \in QuietBody
  BY Calls, Commas, Tokens DEF QuietBody, ArmBody
<1>30. ParsePlainBlock \in QuietBody
  BY Calls, Commas, Tokens DEF QuietBody, ParsePlainBlock
<1>31. ParseNamedBlock \in QuietBody
  BY Calls, Commas, Tokens DEF QuietBody, ParseNamedBlock
<1>32. Assignment \in QuietBody
  BY Calls, Commas, Tokens DEF QuietBody, Assignment, If
<1>33. ParseExpressionStatement \in QuietBody
  BY Calls, Commas, Tokens DEF QuietBody, ParseExpressionStatement
<1>34. Access \in QuietBody
  BY Calls, Commas, Tokens DEF QuietBody, Access, Suffix
<1>35. ParseStatement \in QuietBody
  <2>1. tok \in StatementKeywords \ {"compiletime"} => <<Advance>> \o KeywordStatement \in QuietBody
    <3>1. tok \in StatementKeywords \ {"compiletime"} =>
              \/ KeywordStatement = <<>>
              \/ \E g \in {"ParseIfStatement", "ParseWhileStatement", "ParseForStatement",
                          "ParseReturnStatement", "ParseMatchStatement", "ParseUnsafeBlock",
                          "ParseTrustedBlock", "ParseConditionBlock", "ParseNamedBlock",
                          "ParseSubprogram", "ParsePlainBlock"} : KeywordStatement = <<Call(g)>>
      BY DEF StatementKeywords, KeywordStatement
    <3>2. tok \in StatementKeywords \ {"compiletime"} =>
              KeywordStatement = <<>> \/ \E x \in Quiet : KeywordStatement = <<x>>
      BY <3>1, CallSymbol DEF Functions
    <3>3. \A x \in Quiet : <<Advance>> \o <<x>> \in QuietBody
      BY Tokens DEF QuietBody
    <3>4. <<Advance>> \o <<>> \in QuietBody
      BY Tokens DEF QuietBody
    <3>. QED
      BY <3>2, <3>3, <3>4
  <2>2. ComptimeStatement \in QuietBody
    BY Calls, Tokens DEF QuietBody, ComptimeStatement
  <2>3. IdentifierStatement \in QuietBody
    <3>1. Climb(0) \in Quiet
      BY TokenSymbol
    <3>. QED
      BY <3>1, Calls, Tokens DEF QuietBody, IdentifierStatement
  <2>. QED
    BY <2>1, <2>2, <2>3, Calls, Tokens DEF QuietBody, ParseStatement
<1>36. Parameters \in QuietBody
  BY Calls, Commas, Tokens DEF QuietBody, Parameters, List, If
<1>37. Clauses \in QuietBody
  BY Calls, Commas, Tokens DEF QuietBody, Clauses
<1>38. ReturnType \in QuietBody
  BY Calls, Commas, Tokens DEF QuietBody, ReturnType, If
<1>39. ParseEnumDecl \in QuietBody
  BY Calls, Commas, Tokens DEF QuietBody, ParseEnumDecl
<1>40. Variants \in QuietBody
  BY Calls, Commas, Tokens DEF QuietBody, Variants, If
<1>41. ParseStructDecl \in QuietBody
  BY Calls, Commas, Tokens DEF QuietBody, ParseStructDecl
<1>42. Members \in QuietBody
  BY Calls, Commas, Tokens DEF QuietBody, Members, If
<1>43. Items \in QuietBody
  BY Calls, Commas, Tokens DEF QuietBody, Items, If, Function
<1>44. ParseWorldDeclaration \in QuietBody
  BY Calls, Commas, Tokens DEF QuietBody, ParseWorldDeclaration, DeclarationBody
<1>45. Extends \in QuietBody
  BY Calls, Commas, Tokens DEF QuietBody, Extends, If
<1>46. ParseContextDeclaration \in QuietBody
  BY Calls, Commas, Tokens DEF QuietBody, ParseContextDeclaration, DeclarationBody
<1>47. ParseModuleDeclaration \in QuietBody
  BY Calls, Commas, Tokens DEF QuietBody, ParseModuleDeclaration
<1>48. ModuleItems \in QuietBody
  BY Calls, Commas, Tokens DEF QuietBody, ModuleItems, If
<1>49. MacroParameters \in QuietBody
  BY Calls, Commas, Tokens DEF QuietBody, MacroParameters, List, If
<1>50. ParseEnvironmentDeclaration \in QuietBody
  BY Calls, Commas, Tokens DEF QuietBody, ParseEnvironmentDeclaration
<1>51. EnvironmentBody \in QuietBody
  BY Calls, Commas, Tokens DEF QuietBody, EnvironmentBody, If
<1>52. ParseUsing \in QuietBody
  BY Calls, Commas, Tokens DEF QuietBody, ParseUsing
<1>53. Path \in QuietBody
  BY Calls, Commas, Tokens DEF QuietBody, Path, If
<1>54. ParseSysDecl \in QuietBody
  BY Calls, Commas, Tokens DEF QuietBody, ParseSysDecl
<1>55. Declaration \in QuietBody
  <2>1. tok \in DeclarationKeywords => <<Advance>> \o KeywordDeclaration \in QuietBody
    <3>1. tok \in DeclarationKeywords =>
              \E g \in {"ParseEnumDecl", "ParseStructDecl", "ParseModuleDeclaration",
                       "ParseWorldDeclaration", "ParseContextDeclaration",
                       "ParseMacroDeclaration", "ParseEnvironmentDeclaration",
                       "ParseUsing", "ParseSysDecl"} : KeywordDeclaration = <<Call(g)>>
      BY DEF DeclarationKeywords, KeywordDeclaration
    <3>2. tok \in DeclarationKeywords => \E x \in Quiet : KeywordDeclaration = <<x>>
      BY <3>1, CallSymbol DEF Functions
    <3>3. \A x \in Quiet : <<Advance>> \o <<x>> \in QuietBody
      BY Tokens DEF QuietBody
    <3>4. <<Advance>> \o <<>> \in QuietBody
      BY Tokens DEF QuietBody
    <3>. QED
      BY <3>2, <3>3, <3>4
  <2>2. <<Advance>> \o ParseNaoBlock \in QuietBody
    <3>1. Nao(1) \in Quiet
      BY TokenSymbol
    <3>. QED
      BY <3>1, Tokens DEF QuietBody, ParseNaoBlock
  <2>3. <<Advance>> \o Function \in QuietBody /\ Function \in QuietBody
    BY Calls, Tokens DEF QuietBody, Function
  <2>. QED
    BY <2>1, <2>2, <2>3, Calls, Tokens DEF QuietBody, Declaration
<1>56. ParseProgram \in QuietBody
  BY Calls, Commas, Tokens DEF QuietBody, ParseProgram, If
<1>. QED
  BY SMTT(30), <1>1, <1>2, <1>3, <1>4, <1>5, <1>6, <1>7, <1>8, <1>9, <1>10, <1>11, <1>12,
     <1>13, <1>14, <1>15, <1>16, <1>17, <1>18, <1>19, <1>20, <1>21, <1>22, <1>23, <1>24, <1>25,
     <1>26, <1>27, <1>28, <1>29, <1>30, <1>31, <1>32, <1>33, <1>34, <1>35, <1>36, <1>37,
     <1>38, <1>39, <1>40, <1>41, <1>42, <1>43, <1>44, <1>45, <1>46, <1>47, <1>48, <1>49,
     <1>50, <1>51, <1>52, <1>53, <1>54, <1>55, <1>56 DEF Functions, Body, Counting


(***************************************************************************)
(* The counters.  What is on the stack raises and lowers them until each   *)
(* is 0 again; a call that is not yet under way does so by itself.         *)
(***************************************************************************)
Counts == [Counters -> Nat]
Zero == [c \in Counters |-> 0]
Raised(d, c) == [d EXCEPT ![c] = @ + 1]

CounterLinks ==
    {link \in Symbol \X Counts \X Counts :
        CASE link[1].op = "enter" -> link[3] = Raised(link[2], link[1].arg)
          [] link[1].op = "leave" -> link[2] = Raised(link[3], link[1].arg)
          [] OTHER -> link[2] = link[3]}

\* Short sequences of symbols that give the counters back.
Neutral(n) ==
    {b \in Seq(Symbol) : Len(b) <= n /\ \A d \in Counts : Walk(CounterLinks, b, d, d)}

\* What each symbol does to the counters.
LEMMA CounterLink ==
    ASSUME NEW d \in Counts, NEW x \in Quiet, NEW c \in Counters
    PROVE  /\ x \in Symbol /\ Enter(c) \in Symbol /\ Leave(c) \in Symbol
           /\ Raised(d, c) \in Counts
           /\ <<x, d, d>> \in CounterLinks
           /\ <<Enter(c), d, Raised(d, c)>> \in CounterLinks
           /\ <<Leave(c), Raised(d, c), d>> \in CounterLinks
<1>1. x \in Symbol /\ Enter(c) \in Symbol /\ Leave(c) \in Symbol
  BY DEF Symbol, Enter, Leave
<1>2. Raised(d, c) \in Counts
  BY DEF Raised, Counts
<1>3. x.op \notin {"enter", "leave"}
  BY DEF Quiet
<1>4. Enter(c).op = "enter" /\ Enter(c).arg = c /\ Leave(c).op = "leave" /\ Leave(c).arg = c
  BY DEF Enter, Leave
<1>5. <<x, d, d>> \in CounterLinks
  BY <1>1, <1>3 DEF CounterLinks
<1>6. <<Enter(c), d, Raised(d, c)>> \in CounterLinks
  BY <1>1, <1>2, <1>4 DEF CounterLinks
<1>7. <<Leave(c), Raised(d, c), d>> \in CounterLinks
  BY <1>1, <1>2, <1>4 DEF CounterLinks
<1>. QED
  BY <1>1, <1>2, <1>5, <1>6, <1>7

\* Symbols that count nothing are neutral.
LEMMA QuietNeutral ==
    ASSUME NEW n \in Nat, NEW b \in Seq(Quiet), Len(b) <= n
    PROVE  b \in Neutral(n)
<1>1. Len(b) \in Nat /\ \A i \in 1..Len(b) : b[i] \in Quiet
  OBVIOUS
<1>2. Quiet \subseteq Symbol
  BY DEF Symbol
<1>3. b \in Seq(Symbol)
  BY <1>1, <1>2
<1>4. ASSUME NEW d \in Counts
      PROVE  Walk(CounterLinks, b, d, d)
  <2>1. \A i \in 1..Len(b) : <<b[i], d, d>> \in CounterLinks
    BY <1>1, CounterLink DEF Counters
  <2>. QED
    BY <1>1, <2>1, WalkStays
<1>. QED
  BY <1>3, <1>4 DEF Neutral

\* So is one neutral sequence after the other.
LEMMA JoinNeutral ==
    ASSUME NEW n \in Nat, NEW k \in Nat, NEW a \in Neutral(n), NEW b \in Neutral(k)
    PROVE  a \o b \in Neutral(n + k)
<1>1. /\ a \in Seq(Symbol) /\ b \in Seq(Symbol) /\ Len(a) <= n /\ Len(b) <= k
      /\ \A d \in Counts : Walk(CounterLinks, a, d, d) /\ Walk(CounterLinks, b, d, d)
  BY DEF Neutral
<1>2. a \o b \in Seq(Symbol) /\ Len(a \o b) <= n + k
  BY <1>1
<1>3. ASSUME NEW d \in Counts
      PROVE  Walk(CounterLinks, a \o b, d, d)
  BY <1>1, WalkJoin
<1>. QED
  BY <1>2, <1>3 DEF Neutral

\* One symbol that is a link.
LEMMA WalkOne ==
    ASSUME NEW links, NEW x, NEW d, NEW e, <<x, d, e>> \in links
    PROVE  Walk(links, <<x>>, d, e)
<1>. DEFINE s == <<x>>
<1>1. Len(s) = 1 /\ s[1] = x
  OBVIOUS
<1>. HIDE DEF s
<1>2. Len(s) \in Nat /\ 1 \in 1..Len(s) /\ \A i \in 1..Len(s) : ~(i < 1) /\ ~(i > 1)
  BY <1>1
<1>3. Walk(links, s, d, e)
  BY <1>1, <1>2, WalkOnce
<1>. QED
  BY <1>3 DEF s

\* And what raises a counter, does something neutral and lowers it.
LEMMA WithinNeutral ==
    ASSUME NEW n \in Nat, NEW b \in Neutral(n), NEW c \in Counters
    PROVE  Within(c, b) \in Neutral(n + 2)
<1>1. /\ b \in Seq(Symbol) /\ Len(b) <= n
      /\ \A d \in Counts : Walk(CounterLinks, b, d, d)
  BY DEF Neutral
<1>2. Enter(c) \in Symbol /\ Leave(c) \in Symbol
  BY DEF Enter, Leave, Symbol
<1>. DEFINE a == <<Enter(c)>>
            z == <<Leave(c)>>
<1>3. a \in Seq(Symbol) /\ z \in Seq(Symbol) /\ Len(a) = 1 /\ Len(z) = 1
  BY <1>2
<1>4. ASSUME NEW d \in Counts
      PROVE  Walk(CounterLinks, (a \o b) \o z, d, d)
  <2>. DEFINE m == Raised(d, c)
  <2>1. Call("ParseType") \in Quiet
    BY Calls
  <2>2. m \in Counts /\ <<Enter(c), d, m>> \in CounterLinks /\ <<Leave(c), m, d>> \in CounterLinks
    BY <2>1, CounterLink
  <2>. HIDE DEF m
  <2>3. Walk(CounterLinks, a, d, m) /\ Walk(CounterLinks, z, m, d)
    BY <2>2, WalkOne
  <2>4. Walk(CounterLinks, b, m, m)
    BY <1>1, <2>2
  <2>. HIDE DEF a, z
  <2>5. a \o b \in Seq(Symbol) /\ Walk(CounterLinks, a \o b, d, m)
    BY <1>1, <1>3, <2>3, <2>4, WalkJoin
  <2>. QED
    BY <1>3, <2>3, <2>5, WalkJoin
<1>. HIDE DEF a, z
<1>5. (a \o b) \o z \in Seq(Symbol) /\ Len((a \o b) \o z) <= n + 2
  <2>1. a \o b \in Seq(Symbol) /\ Len(a \o b) = 1 + Len(b) /\ Len(b) \in Nat
    <3>1. /\ a \o b \in Seq(Symbol) /\ Len(a \o b) = Len(a) + Len(b)
      BY <1>1, <1>3, ConcatProperties
    <3>. QED
      BY <1>1, <1>3, <3>1
  <2>2. (a \o b) \o z \in Seq(Symbol) /\ Len((a \o b) \o z) = Len(a \o b) + 1
    BY <1>3, <2>1, ConcatProperties
  <2>. QED
    BY <1>1, <2>1, <2>2
<1>6. Within(c, b) = (a \o b) \o z
  BY DEF Within, a, z
<1>. QED
  BY <1>4, <1>5, <1>6 DEF Neutral

\* The bodies that count.
LEMMA CountingBodies ==
    /\ ParseBlock \in Neutral(14) /\ ParseWhileStatement \in Neutral(14)
    /\ ParseForStatement \in Neutral(14) /\ ParseMatchStatement \in Neutral(14)
    /\ ParseUnsafeBlock \in Neutral(14) /\ ParseTrustedBlock \in Neutral(14)
    /\ ParseSubprogram \in Neutral(14) /\ ParseMacroDeclaration \in Neutral(14)
<1>0. /\ "ScopeDepth" \in Counters /\ "FunctionDepth" \in Counters /\ "InLoop" \in Counters
      /\ "InMatch" \in Counters /\ "InUnsafe" \in Counters /\ "InMacro" \in Counters
  BY DEF Counters
<1>1. \A n \in Nat, k \in Nat : n <= k => Neutral(n) \subseteq Neutral(k)
  BY DEF Neutral
<1>2. ParseBlock \in Neutral(14)
  <2>. DEFINE a == <<Expect("LBRACE")>>
              b == <<Call("Statements"), Expect("RBRACE")>>
  <2>1. b \in Seq(Quiet) /\ Len(b) <= 2
    BY Calls, Tokens
  <2>2. a \in Seq(Quiet) /\ Len(a) <= 1
    BY Tokens
  <2>3. ParseBlock = a \o Within("ScopeDepth", b)
    BY DEF ParseBlock, a, b
  <2>. HIDE DEF a, b
  <2>4. b \in Neutral(2) /\ a \in Neutral(1)
    BY <2>1, <2>2, QuietNeutral
  <2>5. Within("ScopeDepth", b) \in Neutral(4)
    BY <1>0, <2>4, WithinNeutral
  <2>6. ParseBlock \in Neutral(5)
    BY <2>3, <2>4, <2>5, JoinNeutral
  <2>. QED
    BY <1>1, <2>6
<1>3. ParseWhileStatement \in Neutral(14)
  <2>. DEFINE b == <<Call("ParseExpression"), Call("ParseBlock")>>
  <2>1. b \in Seq(Quiet) /\ Len(b) <= 12
    BY Calls
  <2>. HIDE DEF b
  <2>2. b \in Neutral(12)
    BY <2>1, QuietNeutral
  <2>. QED
    BY <1>0, <2>2, WithinNeutral DEF ParseWhileStatement, b
<1>4. ParseForStatement \in Neutral(14)
  <2>. DEFINE a == <<Expect("ident"), Expect("="), Call("ParseExpression"), Expect("COMMA"),
                     Call("ParseExpression"), Expect("COMMA"), Call("ParseExpression"),
                     Call("Step")>>
              b == <<Call("ParseBlock")>>
  <2>1. a \in Seq(Quiet) /\ Len(a) <= 8 /\ b \in Seq(Quiet) /\ Len(b) <= 4
    BY Calls, Tokens
  <2>. HIDE DEF a, b
  <2>2. a \in Neutral(8) /\ b \in Neutral(4)
    BY <2>1, QuietNeutral
  <2>3. Within("InLoop", b) \in Neutral(6)
    BY <1>0, <2>2, WithinNeutral
  <2>4. a \o Within("InLoop", b) \in Neutral(14)
    BY <2>2, <2>3, JoinNeutral
  <2>. QED
    BY <2>4 DEF ParseForStatement, a, b
<1>5. ParseMatchStatement \in Neutral(14)
  <2>. DEFINE b == <<Call("ParseExpression"), Expect("LBRACE"), Call("Arms"), Expect("RBRACE")>>
  <2>1. b \in Seq(Quiet) /\ Len(b) <= 12
    BY Calls, Tokens
  <2>. HIDE DEF b
  <2>2. b \in Neutral(12)
    BY <2>1, QuietNeutral
  <2>. QED
    BY <1>0, <2>2, WithinNeutral DEF ParseMatchStatement, b
<1>6. ParseUnsafeBlock \in Neutral(5)
  <2>. DEFINE b == <<Call("ParseBlock")>>
  <2>1. b \in Seq(Quiet) /\ Len(b) <= 3
    BY Calls
  <2>. HIDE DEF b
  <2>2. b \in Neutral(3)
    BY <2>1, QuietNeutral
  <2>. QED
    BY <1>0, <2>2, WithinNeutral DEF ParseUnsafeBlock, b
<1>7. ParseTrustedBlock \in Neutral(14)
  <2>. DEFINE a == <<Match("unsafe")>>
  <2>1. a \in Seq(Quiet) /\ Len(a) <= 9
    BY Tokens
  <2>. HIDE DEF a
  <2>2. a \in Neutral(9)
    BY <2>1, QuietNeutral
  <2>3. a \o ParseUnsafeBlock \in Neutral(14)
    BY <1>6, <2>2, JoinNeutral
  <2>. QED
    BY <2>3 DEF ParseTrustedBlock, a
<1>8. ParseSubprogram \in Neutral(14)
  <2>. DEFINE a == <<Expect("ident")>>
              b == <<Expect("LPAREN"), Call("Parameters"), Expect("RPAREN"),
                     Call("Clauses"), Call("ReturnType"), Call("ParseBlock")>>
  <2>1. a \in Seq(Quiet) /\ Len(a) <= 2 /\ b \in Seq(Quiet) /\ Len(b) <= 10
    BY Calls, Tokens
  <2>. HIDE DEF a, b
  <2>2. a \in Neutral(2) /\ b \in Neutral(10)
    BY <2>1, QuietNeutral
  <2>3. Within("FunctionDepth", b) \in Neutral(12)
    BY <1>0, <2>2, WithinNeutral
  <2>4. a \o Within("FunctionDepth", b) \in Neutral(14)
    BY <2>2, <2>3, JoinNeutral
  <2>. QED
    BY <2>4 DEF ParseSubprogram, a, b
<1>9. ParseMacroDeclaration \in Neutral(14)
  <2>. DEFINE a == <<Expect("ident")>>
              b == <<Expect("LPAREN"), Call("MacroParameters"), Expect("RPAREN"),
                     Call("ParseBlock")>>
  <2>1. a \in Seq(Quiet) /\ Len(a) <= 2 /\ b \in Seq(Quiet) /\ Len(b) <= 10
    BY Calls, Tokens
  <2>. HIDE DEF a, b
  <2>2. a \in Neutral(2) /\ b \in Neutral(10)
    BY <2>1, QuietNeutral
  <2>3. Within("InMacro", b) \in Neutral(12)
    BY <1>0, <2>2, WithinNeutral
  <2>4. a \o Within("InMacro", b) \in Neutral(14)
    BY <2>2, <2>3, JoinNeutral
  <2>. QED
    BY <2>4 DEF ParseMacroDeclaration, a, b
<1>10. ParseUnsafeBlock \in Neutral(14)
  BY <1>1, <1>6
<1>. QED
  BY <1>2, <1>3, <1>4, <1>5, <1>7, <1>8, <1>9, <1>10


\* Whatever is called gives the counters back, and so do the two loops.
LEMMA Bodies ==
    ASSUME NEW f \in Functions
    PROVE  Body(f) \in Neutral(14)
<1>1. CASE f \notin Counting
  <2>1. Body(f) \in QuietBody
    BY <1>1, QuietBodies
  <2>2. Body(f) \in Seq(Quiet) /\ Len(Body(f)) <= 14
    BY <2>1 DEF QuietBody
  <2>. QED
    BY <2>2, QuietNeutral
<1>2. CASE f = "ParseBlock"
  BY <1>2, CountingBodies DEF Body
<1>3. CASE f = "ParseWhileStatement"
  BY <1>3, CountingBodies DEF Body
<1>4. CASE f = "ParseForStatement"
  BY <1>4, CountingBodies DEF Body
<1>5. CASE f = "ParseMatchStatement"
  BY <1>5, CountingBodies DEF Body
<1>6. CASE f = "ParseUnsafeBlock"
  BY <1>6, CountingBodies DEF Body
<1>7. CASE f = "ParseTrustedBlock"
  BY <1>7, CountingBodies DEF Body
<1>8. CASE f = "ParseSubprogram"
  BY <1>8, CountingBodies DEF Body
<1>9. CASE f = "ParseMacroDeclaration"
  BY <1>9, CountingBodies DEF Body
<1>. QED
  BY <1>1, <1>2, <1>3, <1>4, <1>5, <1>6, <1>7, <1>8, <1>9 DEF Counting

\* The climb only goes up: the precedence it calls ParseBinary with is never negative.
LEMMA ClimbBody ==
    ASSUME NEW min \in Nat
    PROVE  ParseBinaryFromLeft(min) \in Seq(Quiet) /\ Len(ParseBinaryFromLeft(min)) <= 14
<1>. DEFINE p == GetOperatorPrecedence(tok)
<1>1. p \in -1..6
  BY DEF GetOperatorPrecedence
<1>. HIDE DEF p
<1>2. p >= min => p + 1 \in Nat
  BY <1>1
<1>3. Climb(min) \in Quiet /\ (p >= min => Climb(p + 1) \in Quiet)
  BY <1>2, TokenSymbol
<1>4. ParseBinaryFromLeft(min) =
          IF p >= min THEN <<Advance>> \o <<Call("ParseUnary"), Climb(p + 1)>>
                               \o <<Make("binary"), Climb(min)>>
                      ELSE <<>>
  BY DEF ParseBinaryFromLeft, If, ParseBinary, p
<1>5. CASE p >= min
  BY <1>3, <1>4, <1>5, Calls, Tokens
<1>6. CASE ~(p >= min)
  BY <1>4, <1>6
<1>. QED
  BY <1>5, <1>6

\* A nao block has at least one open brace for as long as it lasts.
LEMMA NaoBody ==
    ASSUME NEW open \in Nat
    PROVE  NaoLoop(open) \in Seq(Quiet) /\ Len(NaoLoop(open)) <= 14
<1>1. Nao(open) \in Quiet /\ Nao(open + 1) \in Quiet
  BY TokenSymbol
<1>2. open > 1 => Nao(open - 1) \in Quiet
  BY TokenSymbol
<1>3. CASE tok = "EOF"
  BY <1>3 DEF NaoLoop
<1>4. CASE tok = "LBRACE"
  BY <1>1, <1>4, Tokens DEF NaoLoop
<1>5. CASE tok = "RBRACE"
  <2>1. CASE open > 1
    BY <1>2, <1>5, <2>1, Tokens DEF NaoLoop, If
  <2>2. CASE ~(open > 1)
    BY <1>5, <2>2, Tokens DEF NaoLoop, If
  <2>. QED
    BY <2>1, <2>2
<1>6. CASE tok \notin {"EOF", "LBRACE", "RBRACE"}
  BY <1>1, <1>6, Tokens DEF NaoLoop
<1>. QED
  BY <1>3, <1>4, <1>5, <1>6

(***************************************************************************)
(* The invariant: what is still to be done is made of symbols that the     *)
(* functions use, and takes the counters from what they are to 0.          *)
(***************************************************************************)
StackOK ==
    /\ stack \in Seq(Symbol)
    /\ Len(stack) <= StackLimit + 12
    /\ depth \in Counts
    /\ Walk(CounterLinks, stack, depth, Zero)

TokensOK ==
    /\ window \in [1..3 -> alphabet \cup {"EOF"}]
    /\ left \in Nat
    /\ PanicMode \in BOOLEAN /\ HasError \in BOOLEAN /\ isIdentifier \in BOOLEAN

\* What can be said of the symbol that is done next.
LEMMA NextSymbol ==
    ASSUME StackOK, ~Finished
    PROVE  /\ Head(stack) \in Symbol /\ Tail(stack) \in Seq(Symbol)
           /\ Len(Tail(stack)) = Len(stack) - 1 /\ Len(stack) \in Nat
           /\ \E m \in Counts : /\ <<Head(stack), depth, m>> \in CounterLinks
                                /\ Walk(CounterLinks, Tail(stack), m, Zero)
<1>1. stack \in Seq(Symbol) /\ stack # <<>>
  BY DEF StackOK, Finished
<1>2. /\ Head(stack) \in Symbol /\ Tail(stack) \in Seq(Symbol)
      /\ Len(Tail(stack)) = Len(stack) - 1 /\ Len(stack) \in Nat
  BY <1>1
<1>3. PICK m : <<Head(stack), depth, m>> \in CounterLinks /\ Walk(CounterLinks, Tail(stack), m, Zero)
  BY <1>1, WalkHead DEF StackOK
<1>4. m \in Counts
  BY <1>3 DEF CounterLinks
<1>. QED
  BY <1>2, <1>3, <1>4

\* Doing a symbol that does not count, and nothing else.
LEMMA QuietDone ==
    ASSUME StackOK, ~Finished, Head(stack).op \notin {"enter", "leave"}, Done, depth' = depth
    PROVE  StackOK'
<1>1. PICK m \in Counts : /\ <<Head(stack), depth, m>> \in CounterLinks
                          /\ Walk(CounterLinks, Tail(stack), m, Zero)
  BY NextSymbol
<1>2. depth = m
  BY <1>1 DEF CounterLinks
<1>3. Walk(CounterLinks, Tail(stack), depth, Zero)
  BY <1>1, <1>2
<1>4. /\ Tail(stack) \in Seq(Symbol) /\ Len(Tail(stack)) <= StackLimit + 12
      /\ depth \in Counts
  <2>1. Len(stack) <= StackLimit + 12 /\ depth \in Counts
    BY DEF StackOK
  <2>. QED
    BY <2>1, NextSymbol, StackAssumption
<1>. QED
  BY <1>3, <1>4 DEF StackOK, Done

\* Doing more in its place.
LEMMA QuietReplaced ==
    ASSUME StackOK, ~Finished, ~Overflow, Head(stack).op \notin {"enter", "leave"},
           NEW symbols \in Neutral(14), Replace(symbols), depth' = depth
    PROVE  StackOK'
<1>1. PICK m \in Counts : /\ <<Head(stack), depth, m>> \in CounterLinks
                          /\ Walk(CounterLinks, Tail(stack), m, Zero)
  BY NextSymbol
<1>2. depth = m
  BY <1>1 DEF CounterLinks
<1>3. symbols \in Seq(Symbol) /\ Len(symbols) <= 14 /\ Walk(CounterLinks, symbols, depth, depth)
  BY DEF Neutral, StackOK
<1>4. Walk(CounterLinks, symbols \o Tail(stack), depth, Zero)
  BY <1>1, <1>2, <1>3, NextSymbol, WalkJoin
<1>5. /\ symbols \o Tail(stack) \in Seq(Symbol)
      /\ Len(symbols \o Tail(stack)) = Len(symbols) + Len(stack) - 1
  BY <1>3, NextSymbol, ConcatProperties
<1>6. Len(stack) < StackLimit /\ Len(symbols) \in Nat /\ StackLimit \in Nat
  BY <1>3, NextSymbol, StackAssumption DEF Overflow
<1>7. Len(symbols \o Tail(stack)) <= StackLimit + 12
  BY <1>3, <1>5, <1>6, NextSymbol
<1>. QED
  BY <1>4, <1>5, <1>7 DEF StackOK, Replace

\* The tokens that come into sight are the stream's.
LEMMA AdvanceOK ==
    ASSUME TokensOK, ParserAdvance,
           PanicMode' \in BOOLEAN, HasError' \in BOOLEAN, isIdentifier' \in BOOLEAN
    PROVE  TokensOK'
<1>1. /\ \A i \in 1..3 : window[i] \in alphabet \cup {"EOF"}
      /\ left \in Nat
  BY DEF TokensOK
<1>2. alphabet' = alphabet
  BY DEF ParserAdvance
<1>3. left' \in Nat
  BY <1>1 DEF ParserAdvance
<1>4. PICK t \in alphabet \cup {"EOF"} : window' = <<next, third, t>>
  BY DEF ParserAdvance
<1>5. window' \in [1..3 -> alphabet \cup {"EOF"}]
  <2>1. next \in alphabet \cup {"EOF"} /\ third \in alphabet \cup {"EOF"}
    BY <1>1 DEF next, third
  <2>. QED
    BY <1>4, <2>1
<1>. QED
  BY <1>2, <1>3, <1>5 DEF TokensOK

(***************************************************************************)
(* The steps.                                                              *)
(***************************************************************************)
LEMMA InitMachine == Init => TokensOK /\ StackOK
<1>. SUFFICES ASSUME Init PROVE TokensOK /\ StackOK
  OBVIOUS
<1>1. TokensOK
  <2>1. PICK s \in Streams :
            /\ alphabet = s.alphabet /\ left = s.tokens - 3
            /\ window \in [1..3 -> s.alphabet \cup {"EOF"}]
    BY DEF Init
  <2>2. left \in Nat
    BY <2>1, StreamsAssumption
  <2>. QED
    BY <2>1, <2>2 DEF Init, TokensOK
<1>2. StackOK
  <2>1. Call("ParseProgram") \in Quiet /\ stack = <<Call("ParseProgram")>>
    BY Calls DEF Init
  <2>2. Len(stack) <= 14 /\ stack \in Seq(Quiet) /\ Len(stack) = 1
    BY <2>1
  <2>3. stack \in Neutral(14)
    BY <2>2, QuietNeutral
  <2>4. depth = Zero /\ Zero \in Counts
    BY DEF Init, Zero, Counts
  <2>. QED
    BY <2>2, <2>3, <2>4, StackAssumption DEF StackOK, Neutral
<1>. QED
  BY <1>1, <1>2

\* What an activation does to the stack: its body takes its place.
LEMMA ActivateOK ==
    ASSUME TokensOK, StackOK, Activate
    PROVE  TokensOK' /\ StackOK'
<1>1. /\ ~Finished /\ ~Overflow
      /\ UNCHANGED <<window, alphabet, left, PanicMode, HasError, isIdentifier, depth>>
  BY DEF Activate, Doing, Keep, parser
<1>2. TokensOK'
  BY <1>1 DEF TokensOK
<1>3. Head(stack) \in Symbol
  BY <1>1, NextSymbol
<1>4. CASE Doing("call") /\ Replace(Body(Head(stack).arg))
  <2>1. Head(stack).op = "call" /\ Head(stack).arg \in Functions
    BY <1>3, <1>4 DEF Doing, Symbol, Quiet
  <2>2. Body(Head(stack).arg) \in Neutral(14)
    BY <2>1, Bodies
  <2>. QED
    BY <1>1, <1>2, <1>4, <2>1, <2>2, QuietReplaced
<1>5. CASE Doing("climb") /\ Replace(ParseBinaryFromLeft(Head(stack).min))
  <2>1. Head(stack).op = "climb" /\ Head(stack).min \in Nat
    BY <1>3, <1>5 DEF Doing, Symbol, Quiet
  <2>2. ParseBinaryFromLeft(Head(stack).min) \in Neutral(14)
    BY <2>1, ClimbBody, QuietNeutral
  <2>. QED
    BY <1>1, <1>2, <1>5, <2>1, <2>2, QuietReplaced
<1>6. CASE Doing("nao") /\ Replace(NaoLoop(Head(stack).min))
  <2>1. Head(stack).op = "nao" /\ Head(stack).min \in Nat
    BY <1>3, <1>6 DEF Doing, Symbol, Quiet
  <2>2. NaoLoop(Head(stack).min) \in Neutral(14)
    BY <2>1, NaoBody, QuietNeutral
  <2>. QED
    BY <1>1, <1>2, <1>6, <2>1, <2>2, QuietReplaced
<1>. QED
  BY <1>4, <1>5, <1>6 DEF Activate

\* An error is recorded and nothing else moves.
LEMMA ErrorOK ==
    ASSUME TokensOK, ParserError, UNCHANGED <<window, alphabet, left, isIdentifier>>
    PROVE  TokensOK'
<1>1. PanicMode' \in BOOLEAN /\ HasError' \in BOOLEAN
  BY DEF ParserError, TokensOK
<1>. QED
  BY <1>1 DEF TokensOK

\* Consuming a token, or not.
LEMMA ConsumeOK ==
    ASSUME TokensOK, Consume \/ Keep, UNCHANGED <<PanicMode, HasError, isIdentifier>>
    PROVE  TokensOK'
<1>1. PanicMode' \in BOOLEAN /\ HasError' \in BOOLEAN /\ isIdentifier' \in BOOLEAN
  BY DEF TokensOK
<1>2. CASE Consume
  BY <1>1, <1>2, AdvanceOK DEF Consume
<1>3. CASE Keep
  BY <1>3 DEF Keep, TokensOK
<1>. QED
  BY <1>2, <1>3

\* The token is consumed, or an error recorded.
LEMMA ExpectTokenOK ==
    ASSUME TokensOK, StackOK, ExpectToken
    PROVE  TokensOK' /\ StackOK'
<1>1. TokensOK'
  <2>1. CASE Is(tok, Head(stack).arg)
    BY <2>1, ConsumeOK DEF ExpectToken
  <2>2. CASE ~Is(tok, Head(stack).arg)
    BY <2>2, ErrorOK DEF ExpectToken
  <2>. QED
    BY <2>1, <2>2
<1>2. StackOK'
  BY QuietDone DEF ExpectToken, Doing
<1>. QED
  BY <1>1, <1>2

\* The token is consumed or not; the parser goes on.
LEMMA ParserMatchOK ==
    ASSUME TokensOK, StackOK, ParserMatch
    PROVE  TokensOK' /\ StackOK'
<1>1. TokensOK'
  BY ConsumeOK DEF ParserMatch, parser
<1>2. StackOK'
  BY QuietDone DEF ParserMatch, Doing, parser
<1>. QED
  BY <1>1, <1>2

\* Behind a comma the loop is called again.
LEMMA MatchCommaOK ==
    ASSUME TokensOK, StackOK, MatchComma
    PROVE  TokensOK' /\ StackOK'
<1>1. TokensOK'
  BY ConsumeOK DEF MatchComma, parser
<1>2. ~Finished /\ ~Overflow /\ Head(stack).op = "comma" /\ depth' = depth
  BY DEF MatchComma, Doing, parser
<1>3. Head(stack).arg \in Functions
  BY <1>2, NextSymbol DEF Symbol, Quiet
<1>4. <<Call(Head(stack).arg)>> \in Neutral(14)
  <2>. DEFINE b == <<Call(Head(stack).arg)>>
  <2>1. b \in Seq(Quiet) /\ Len(b) <= 14
    BY <1>3, CallSymbol
  <2>. HIDE DEF b
  <2>2. b \in Neutral(14)
    BY <2>1, QuietNeutral
  <2>. QED
    BY <2>2 DEF b
<1>5. StackOK'
  <2>1. CASE tok = "COMMA"
    BY <1>2, <1>4, <2>1, QuietReplaced DEF MatchComma
  <2>2. CASE tok # "COMMA"
    BY <1>2, <2>2, QuietDone DEF MatchComma
  <2>. QED
    BY <2>1, <2>2
<1>. QED
  BY <1>1, <1>5

\* A counter goes up, or down to what it was before it went up.
LEMMA CountOK ==
    ASSUME TokensOK, StackOK, Count
    PROVE  TokensOK' /\ StackOK'
<1>1. TokensOK'
  BY DEF Count, Keep, TokensOK
<1>2. ~Finished /\ stack' = Tail(stack)
  BY DEF Count, Doing, Done
<1>3. PICK m \in Counts : /\ <<Head(stack), depth, m>> \in CounterLinks
                          /\ Walk(CounterLinks, Tail(stack), m, Zero)
  BY <1>2, NextSymbol
<1>4. depth' = m
  <2>1. Head(stack).op \in {"enter", "leave"}
    BY DEF Count, Doing
  <2>2. Head(stack) \in Symbol /\ depth \in Counts
    BY <1>2, NextSymbol DEF StackOK
  <2>3. Head(stack).arg \in Counters
    BY <2>1, <2>2 DEF Symbol, Quiet
  <2>4. CASE Doing("enter") /\ depth' = [depth EXCEPT ![Head(stack).arg] = @ + 1]
    <3>1. m = Raised(depth, Head(stack).arg)
      BY <1>3, <2>4 DEF CounterLinks, Doing
    <3>. QED
      BY <2>4, <3>1 DEF Raised
  <2>5. CASE Doing("leave") /\ depth' = [depth EXCEPT ![Head(stack).arg] = @ - 1]
    <3>1. depth = Raised(m, Head(stack).arg)
      BY <1>3, <2>5 DEF CounterLinks, Doing
    <3>. QED
      BY <2>3, <2>5, <3>1 DEF Raised, Counts
  <2>. QED
    BY <2>4, <2>5 DEF Count
<1>5. Tail(stack) \in Seq(Symbol) /\ Len(Tail(stack)) <= StackLimit + 12
  <2>1. Len(stack) <= StackLimit + 12
    BY DEF StackOK
  <2>. QED
    BY <1>2, <2>1, NextSymbol, StackAssumption
<1>6. StackOK'
  BY <1>2, <1>3, <1>4, <1>5 DEF StackOK
<1>. QED
  BY <1>1, <1>6

\* A node is made.
LEMMA NewExpressionOK ==
    ASSUME TokensOK, StackOK, NewExpression
    PROVE  TokensOK' /\ StackOK'
<1>1. TokensOK'
  BY DEF NewExpression, Keep, TokensOK
<1>2. StackOK'
  BY QuietDone DEF NewExpression, Doing
<1>. QED
  BY <1>1, <1>2

\* A token is consumed whatever it is.
LEMMA DoAdvanceOK ==
    ASSUME TokensOK, StackOK, DoAdvance
    PROVE  TokensOK' /\ StackOK'
<1>1. TokensOK'
  BY AdvanceOK DEF DoAdvance, parser, TokensOK
<1>2. StackOK'
  BY QuietDone DEF DoAdvance, Doing, parser
<1>. QED
  BY <1>1, <1>2

\* An error is recorded where no token was expected.
LEMMA ParsingErrorOK ==
    ASSUME TokensOK, StackOK, ParsingError
    PROVE  TokensOK' /\ StackOK'
<1>1. TokensOK'
  BY ErrorOK DEF ParsingError
<1>2. StackOK'
  BY QuietDone DEF ParsingError, Doing
<1>. QED
  BY <1>1, <1>2

\* The recovery drops tokens and stays where it is until it finds one to go on with.
LEMMA DoSynchroniseOK ==
    ASSUME TokensOK, StackOK, DoSynchronise
    PROVE  TokensOK' /\ StackOK'
<1>1. PanicMode' = FALSE /\ HasError' = HasError /\ isIdentifier' = isIdentifier /\ depth' = depth
  BY DEF DoSynchronise
<1>2. CASE tok \in SyncTokens
  <2>1. TokensOK'
    BY <1>1, <1>2 DEF DoSynchronise, Keep, TokensOK
  <2>2. StackOK'
    BY <1>1, <1>2, QuietDone DEF DoSynchronise, Doing
  <2>. QED
    BY <2>1, <2>2
<1>3. CASE tok \notin SyncTokens
  <2>1. ParserAdvance /\ stack' = stack
    BY <1>3 DEF DoSynchronise
  <2>2. TokensOK'
    BY <1>1, <2>1, AdvanceOK DEF TokensOK
  <2>3. StackOK'
    BY <1>1, <2>1 DEF StackOK
  <2>. QED
    BY <2>2, <2>3
<1>. QED
  BY <1>2, <1>3

\* The branch of an if is a statement.
LEMMA DoSingleOK ==
    ASSUME TokensOK, StackOK, DoSingle
    PROVE  TokensOK' /\ StackOK'
<1>1. TokensOK'
  BY DEF DoSingle, Keep, TokensOK, parser
<1>2. <<Call("ParseStatement")>> \in Neutral(14)
  <2>. DEFINE b == <<Call("ParseStatement")>>
  <2>1. b \in Seq(Quiet) /\ Len(b) <= 14
    BY Calls
  <2>. HIDE DEF b
  <2>2. b \in Neutral(14)
    BY <2>1, QuietNeutral
  <2>. QED
    BY <2>2 DEF b
<1>3. StackOK'
  BY <1>2, QuietReplaced DEF DoSingle, Doing, parser
<1>. QED
  BY <1>1, <1>3

\* The steps, one action after the other.
LEMMA StepMachine == TokensOK /\ StackOK /\ [Next]_vars => TokensOK' /\ StackOK'
<1>. SUFFICES ASSUME TokensOK, StackOK, [Next]_vars
              PROVE  TokensOK' /\ StackOK'
  OBVIOUS
<1>1. CASE UNCHANGED vars
  BY <1>1 DEF vars, parser, TokensOK, StackOK
<1>. QED
  BY <1>1, ActivateOK, ExpectTokenOK, ParserMatchOK, MatchCommaOK, CountOK,
     NewExpressionOK,
     DoAdvanceOK, ParsingErrorOK, DoSynchroniseOK, DoSingleOK DEF Next

\* So the two hold in every state of the parser.
LEMMA MachineInvariant == Spec => [](TokensOK /\ StackOK)
  BY InitMachine, StepMachine, PTL DEF Spec

\* The stack never grows by more than one activation behind its limit, the tokens in
\* sight are those of the stream, and no counter is ever lowered below 0.
THEOREM ParserTypes == Spec => []TypeOK
<1>1. TokensOK /\ StackOK => TypeOK
  BY DEF TokensOK, StackOK, Counts, TypeOK
<1>. QED
  BY <1>1, MachineInvariant, PTL

\* Whatever the tokens are, the counters are back at 0 when the parser returns.
THEOREM CountersGivenBack == Spec => []CountersReturn
<1>1. TokensOK /\ StackOK => CountersReturn
  <2>. SUFFICES ASSUME StackOK, stack = <<>>
                PROVE  \A c \in Counters : depth[c] = 0
    BY DEF CountersReturn, Finished
  <2>1. Walk(CounterLinks, <<>>, depth, Zero)
    BY DEF StackOK
  <2>2. depth = Zero
    BY <2>1, WalkOver
  <2>. QED
    BY <2>2 DEF Zero
<1>. QED
  BY <1>1, MachineInvariant, PTL


(***************************************************************************)
(* The brackets.  A symbol that opens one is followed, on the stack, by    *)
(* the symbol that closes it.                                              *)
(***************************************************************************)
Openers == {"LBRACE", "LPAREN", "LBRACKET"}
Closers == {"RBRACE", "RPAREN", "RBRACKET"}
Opened == Seq(Brackets)

\* The symbols that leave the brackets alone, whatever the tokens are.
Plain ==
    [op : {"call", "comma"}, arg : Functions \ {"ParseCallOrAccess"}]
    \cup [op : {"expect"}, arg : Expected]
    \cup [op : {"match"}, arg : Matched]
    \cup [op : {"make"}, arg : {"unary", "literal", "identifier", "ownership", "free",
                               "index", "binary", "call", "array"}]
    \cup [op : {"do"}, arg : {"single"}]
    \cup [op : {"climb"}, min : Nat]
    \cup [op : {"enter", "leave"}, arg : Counters]

\* ParseCallOrAccess is called behind the parenthesis that it closes.
BracketLinks ==
    {link \in Symbol \X Opened \X Opened :
        \/ link[1] \in Plain /\ link[2] = link[3]
        \/ \E t \in Openers : link[1] = Expect(t) /\ link[3] = <<t>> \o link[2]
        \/ \E t \in Closers : link[1] = Expect(t) /\ link[2] = <<Opens[t]>> \o link[3]
        \/ link[1] = Call("ParseCallOrAccess") /\ link[2] = <<"LPAREN">> \o link[3]}

\* What closes a bracket.
Closing(open) ==
    {Expect(t) : t \in {u \in Closers : Opens[u] = open}}
    \cup (IF open = "LPAREN" THEN {Call("ParseCallOrAccess")} ELSE {})

(***************************************************************************)
(* What a body may be: plain; plain behind a token or two that are no      *)
(* bracket; behind an opening bracket, with one symbol that closes it;     *)
(* with a pair of symbols that open and close one; an error; or, behind an *)
(* error, anything.                                                        *)
(***************************************************************************)
PlainFrom(b, n) == \A i \in n..Len(b) : b[i] \in Plain
Ahead(b) == Len(b) >= 1 /\ b[1] = Advance /\ PlainFrom(b, 2)
TwoAhead(b) == Len(b) >= 2 /\ b[1] = Advance /\ b[2] = Advance /\ PlainFrom(b, 3)
Behind(b, k) ==
    /\ k \in 2..Len(b) /\ b[1] = Advance /\ b[k] \in Closing(tok)
    /\ \A i \in 2..Len(b) : i # k => b[i] \in Plain
Pair(b, j, k, t) ==
    /\ j \in 1..Len(b) /\ k \in 1..Len(b) /\ j < k
    /\ b[j] = Expect(Opens[t]) /\ b[k] = Expect(t)
    /\ \A i \in 1..Len(b) : i # j /\ i # k => b[i] \in Plain
Fits(b) ==
    \/ PlainFrom(b, 1)
    \/ tok \notin Brackets /\ Ahead(b)
    \/ tok \notin Brackets /\ next \notin Brackets /\ TwoAhead(b)
    \/ tok \in Openers /\ \E k \in 2..Len(b) : Behind(b, k)
    \/ \E j \in 1..Len(b), k \in 1..Len(b), t \in Closers : Pair(b, j, k, t)
    \/ Len(b) >= 1 /\ b[1] = Error
    \/ PanicMode
    \/ tok = "nao"

\* The plain symbols by name.
LEMMA PlainSymbols ==
    /\ Call("ParseType") \in Plain
    /\ Call("ArraySize") \in Plain
    /\ Call("ParsePrimary") \in Plain
    /\ Call("ParseOwnership") \in Plain
    /\ Call("ParsePostfix") \in Plain
    /\ Call("Postfix") \in Plain
    /\ Call("Fields") \in Plain
    /\ Call("Arguments") \in Plain
    /\ Call("ParseUnary") \in Plain
    /\ Call("ParseExpression") \in Plain
    /\ Call("ParseArrayLiteral") \in Plain
    /\ Call("Elements") \in Plain
    /\ Call("Annotation") \in Plain
    /\ Call("Initializer") \in Plain
    /\ Call("ParseVariableDeclaration") \in Plain
    /\ Call("ParseModifiers") \in Plain
    /\ Call("ParseBlock") \in Plain
    /\ Call("Statements") \in Plain
    /\ Call("ParseConditionBlock") \in Plain
    /\ Call("ParseIfStatement") \in Plain
    /\ Call("Branch") \in Plain
    /\ Call("Else") \in Plain
    /\ Call("ParseWhileStatement") \in Plain
    /\ Call("ParseForStatement") \in Plain
    /\ Call("Step") \in Plain
    /\ Call("ParseReturnStatement") \in Plain
    /\ Call("ParseMatchStatement") \in Plain
    /\ Call("Arms") \in Plain
    /\ Call("Pattern") \in Plain
    /\ Call("Tuple") \in Plain
    /\ Call("Guard") \in Plain
    /\ Call("ArmBody") \in Plain
    /\ Call("ParseUnsafeBlock") \in Plain
    /\ Call("ParseTrustedBlock") \in Plain
    /\ Call("ParsePlainBlock") \in Plain
    /\ Call("ParseNamedBlock") \in Plain
    /\ Call("Assignment") \in Plain
    /\ Call("ParseExpressionStatement") \in Plain
    /\ Call("Access") \in Plain
    /\ Call("ParseStatement") \in Plain
    /\ Call("ParseSubprogram") \in Plain
    /\ Call("Parameters") \in Plain
    /\ Call("Clauses") \in Plain
    /\ Call("ReturnType") \in Plain
    /\ Call("ParseEnumDecl") \in Plain
    /\ Call("Variants") \in Plain
    /\ Call("ParseStructDecl") \in Plain
    /\ Call("Members") \in Plain
    /\ Call("Items") \in Plain
    /\ Call("ParseWorldDeclaration") \in Plain
    /\ Call("Extends") \in Plain
    /\ Call("ParseContextDeclaration") \in Plain
    /\ Call("ParseModuleDeclaration") \in Plain
    /\ Call("ModuleItems") \in Plain
    /\ Call("ParseMacroDeclaration") \in Plain
    /\ Call("MacroParameters") \in Plain
    /\ Call("ParseEnvironmentDeclaration") \in Plain
    /\ Call("EnvironmentBody") \in Plain
    /\ Call("ParseUsing") \in Plain
    /\ Call("Path") \in Plain
    /\ Call("ParseSysDecl") \in Plain
    /\ Call("Declaration") \in Plain
    /\ Call("ParseProgram") \in Plain
    /\ Comma("Arguments") \in Plain
    /\ Comma("Elements") \in Plain
    /\ Comma("Fields") \in Plain
    /\ Comma("MacroParameters") \in Plain
    /\ Comma("Parameters") \in Plain
    /\ Comma("Tuple") \in Plain
    /\ Expect(":") \in Plain
    /\ Expect("=") \in Plain
    /\ Expect(">>") \in Plain
    /\ Expect("COMMA") \in Plain
    /\ Expect("INT_LITERAL") \in Plain
    /\ Expect("ident") \in Plain
    /\ Match("..") \in Plain
    /\ Match(":") \in Plain
    /\ Match("COMMA") \in Plain
    /\ Match("SEMICOLON") \in Plain
    /\ Match("branch") \in Plain
    /\ Match("env") \in Plain
    /\ Match("fn") \in Plain
    /\ Match("ident") \in Plain
    /\ Match("unsafe") \in Plain
    /\ Make("array") \in Plain
    /\ Make("binary") \in Plain
    /\ Make("call") \in Plain
    /\ Make("identifier") \in Plain
    /\ Make("index") \in Plain
    /\ Make("literal") \in Plain
    /\ Make("ownership") \in Plain
    /\ Make("unary") \in Plain
    /\ Make("free") \in Plain
    /\ Single \in Plain
    /\ \A n \in Nat : Climb(n) \in Plain
    /\ \A c \in Counters : Enter(c) \in Plain /\ Leave(c) \in Plain
<1>1. \A f \in Functions \ {"ParseCallOrAccess"} : Call(f) \in Plain /\ Comma(f) \in Plain
  BY DEF Call, Comma, Plain
<1>2. \A t \in Expected : Expect(t) \in Plain
  BY DEF Expect, Plain
<1>3. \A t \in Matched : Match(t) \in Plain
  BY DEF Match, Plain
<1>4. \A k \in {"unary", "literal", "identifier", "ownership", "free", "index", "binary",
               "call", "array"} : Make(k) \in Plain
  BY DEF Make, Plain
<1>5. Single \in Plain /\ \A n \in Nat : Climb(n) \in Plain
  BY DEF Single, Do, Climb, Plain
<1>6. \A c \in Counters : Enter(c) \in Plain /\ Leave(c) \in Plain
  BY DEF Enter, Leave, Plain
<1>7. /\ Call("ParseType") \in Plain
      /\ Call("ArraySize") \in Plain
      /\ Call("ParsePrimary") \in Plain
      /\ Call("ParseOwnership") \in Plain
      /\ Call("ParsePostfix") \in Plain
      /\ Call("Postfix") \in Plain
      /\ Call("Fields") \in Plain
      /\ Call("Arguments") \in Plain
      /\ Call("ParseUnary") \in Plain
      /\ Call("ParseExpression") \in Plain
      /\ Call("ParseArrayLiteral") \in Plain
      /\ Call("Elements") \in Plain
      /\ Call("Annotation") \in Plain
      /\ Call("Initializer") \in Plain
      /\ Call("ParseVariableDeclaration") \in Plain
      /\ Call("ParseModifiers") \in Plain
      /\ Call("ParseBlock") \in Plain
      /\ Call("Statements") \in Plain
      /\ Call("ParseConditionBlock") \in Plain
      /\ Call("ParseIfStatement") \in Plain
      /\ Call("Branch") \in Plain
  BY <1>1 DEF Functions
<1>8. /\ Call("Else") \in Plain
      /\ Call("ParseWhileStatement") \in Plain
      /\ Call("ParseForStatement") \in Plain
      /\ Call("Step") \in Plain
      /\ Call("ParseReturnStatement") \in Plain
      /\ Call("ParseMatchStatement") \in Plain
      /\ Call("Arms") \in Plain
      /\ Call("Pattern") \in Plain
      /\ Call("Tuple") \in Plain
      /\ Call("Guard") \in Plain
      /\ Call("ArmBody") \in Plain
      /\ Call("ParseUnsafeBlock") \in Plain
      /\ Call("ParseTrustedBlock") \in Plain
      /\ Call("ParsePlainBlock") \in Plain
      /\ Call("ParseNamedBlock") \in Plain
      /\ Call("Assignment") \in Plain
      /\ Call("ParseExpressionStatement") \in Plain
      /\ Call("Access") \in Plain
      /\ Call("ParseStatement") \in Plain
      /\ Call("ParseSubprogram") \in Plain
      /\ Call("Parameters") \in Plain
  BY <1>1 DEF Functions
<1>9. /\ Call("Clauses") \in Plain
      /\ Call("ReturnType") \in Plain
      /\ Call("ParseEnumDecl") \in Plain
      /\ Call("Variants") \in Plain
      /\ Call("ParseStructDecl") \in Plain
      /\ Call("Members") \in Plain
      /\ Call("Items") \in Plain
      /\ Call("ParseWorldDeclaration") \in Plain
      /\ Call("Extends") \in Plain
      /\ Call("ParseContextDeclaration") \in Plain
      /\ Call("ParseModuleDeclaration") \in Plain
      /\ Call("ModuleItems") \in Plain
      /\ Call("ParseMacroDeclaration") \in Plain
      /\ Call("MacroParameters") \in Plain
      /\ Call("ParseEnvironmentDeclaration") \in Plain
      /\ Call("EnvironmentBody") \in Plain
      /\ Call("ParseUsing") \in Plain
      /\ Call("Path") \in Plain
      /\ Call("ParseSysDecl") \in Plain
      /\ Call("Declaration") \in Plain
      /\ Call("ParseProgram") \in Plain
  BY <1>1 DEF Functions
<1>10. /\ Comma("Arguments") \in Plain
      /\ Comma("Elements") \in Plain
      /\ Comma("Fields") \in Plain
      /\ Comma("MacroParameters") \in Plain
      /\ Comma("Parameters") \in Plain
      /\ Comma("Tuple") \in Plain
  BY <1>1 DEF Functions
<1>11. /\ Expect(":") \in Plain
      /\ Expect("=") \in Plain
      /\ Expect(">>") \in Plain
      /\ Expect("COMMA") \in Plain
      /\ Expect("INT_LITERAL") \in Plain
      /\ Expect("ident") \in Plain
  BY <1>2 DEF Expected
<1>12. /\ Match("..") \in Plain
      /\ Match(":") \in Plain
      /\ Match("COMMA") \in Plain
      /\ Match("SEMICOLON") \in Plain
      /\ Match("branch") \in Plain
      /\ Match("env") \in Plain
      /\ Match("fn") \in Plain
      /\ Match("ident") \in Plain
      /\ Match("unsafe") \in Plain
  BY <1>3 DEF Matched
<1>. QED
  BY <1>4, <1>5, <1>6, <1>7, <1>8, <1>9, <1>10, <1>11, <1>12


\* What each symbol does to the brackets.
LEMMA BracketLink ==
    ASSUME NEW d \in Opened
    PROVE  /\ \A x \in Plain : x \in Symbol /\ <<x, d, d>> \in BracketLinks
           /\ \A t \in Openers : <<t>> \o d \in Opened /\ <<Expect(t), d, <<t>> \o d>> \in BracketLinks
           /\ \A t \in Closers : <<Expect(t), <<Opens[t]>> \o d, d>> \in BracketLinks
           /\ \A open \in Openers : \A x \in Closing(open) :
                 <<x, <<open>> \o d, d>> \in BracketLinks
<1>1. ASSUME NEW x \in Plain
      PROVE  x \in Symbol /\ <<x, d, d>> \in BracketLinks
  <2>1. x \in Symbol
    BY DEF Plain, Symbol, Quiet
  <2>. QED
    BY <2>1 DEF BracketLinks
<1>2. \A t \in Openers : <<t>> \o d \in Opened
  BY DEF Openers, Brackets, Opened
<1>3. \A t \in Brackets : Expect(t) \in Symbol
  BY TokenSymbol DEF Symbol
<1>4. ASSUME NEW t \in Openers
      PROVE  <<Expect(t), d, <<t>> \o d>> \in BracketLinks
  <2>1. Expect(t) \in Symbol
    BY <1>3 DEF Openers, Brackets
  <2>. QED
    BY <1>2, <2>1 DEF BracketLinks
<1>5. \A t \in Closers : Opens[t] \in Openers
  BY DEF Closers, Openers, Opens
<1>6. ASSUME NEW t \in Closers
      PROVE  <<Expect(t), <<Opens[t]>> \o d, d>> \in BracketLinks
  <2>1. Expect(t) \in Symbol
    BY <1>3 DEF Closers, Brackets
  <2>2. <<Opens[t]>> \o d \in Opened
    BY <1>2, <1>5
  <2>. QED
    BY <2>1, <2>2 DEF BracketLinks
<1>7. ASSUME NEW open \in Openers, NEW x \in Closing(open)
      PROVE  <<x, <<open>> \o d, d>> \in BracketLinks
  <2>1. CASE \E t \in Closers : x = Expect(t) /\ Opens[t] = open
    BY <1>6, <2>1
  <2>2. CASE open = "LPAREN" /\ x = Call("ParseCallOrAccess")
    <3>1. x \in Symbol
      BY <2>2, Calls DEF Symbol
    <3>2. <<open>> \o d \in Opened
      BY <1>2
    <3>. QED
      BY <2>2, <3>1, <3>2 DEF BracketLinks
  <2>. QED
    BY <2>1, <2>2 DEF Closing
<1>. QED
  BY <1>1, <1>2, <1>4, <1>6, <1>7

\* Plain symbols.
LEMMA PlainWalk ==
    ASSUME NEW b \in Seq(Symbol), NEW d \in Opened, PlainFrom(b, 1)
    PROVE  Walk(BracketLinks, b, d, d)
<1>1. \A i \in 1..Len(b) : <<b[i], d, d>> \in BracketLinks
  BY BracketLink DEF PlainFrom
<1>2. Len(b) \in Nat
  OBVIOUS
<1>. QED
  BY <1>1, <1>2, WalkStays

\* A bracket that is opened and closed.
LEMMA PairWalk ==
    ASSUME NEW b \in Seq(Symbol), NEW d \in Opened,
           NEW j \in 1..Len(b), NEW k \in 1..Len(b), NEW t \in Closers, Pair(b, j, k, t)
    PROVE  Walk(BracketLinks, b, d, d)
<1>. DEFINE m == <<Opens[t]>> \o d
<1>1. Opens[t] \in Openers
  BY DEF Closers, Openers, Opens
<1>2. m \in Opened
  BY <1>1, BracketLink
<1>3. <<b[j], d, m>> \in BracketLinks /\ <<b[k], m, d>> \in BracketLinks
  BY <1>1, BracketLink DEF Pair
<1>. HIDE DEF m
<1>4. \A i \in 1..Len(b) : i < j \/ i > k => <<b[i], d, d>> \in BracketLinks
  BY BracketLink DEF Pair
<1>5. \A i \in 1..Len(b) : j < i /\ i < k => <<b[i], m, m>> \in BracketLinks
  BY <1>2, BracketLink DEF Pair
<1>6. Len(b) \in Nat /\ j < k
  BY DEF Pair
<1>. QED
  BY <1>3, <1>4, <1>5, <1>6, WalkTwice

\* What stands behind an Advance.
LEMMA TailSymbols ==
    ASSUME NEW b \in Seq(Symbol), Len(b) >= 1
    PROVE  /\ Tail(b) \in Seq(Symbol) /\ Len(Tail(b)) = Len(b) - 1 /\ Head(b) = b[1]
           /\ \A i \in 1..Len(Tail(b)) : i + 1 \in 2..Len(b) /\ Tail(b)[i] = b[i + 1]
OBVIOUS

\* Behind one token that is no bracket.
LEMMA AheadWalk ==
    ASSUME NEW b \in Seq(Symbol), NEW d \in Opened, Ahead(b)
    PROVE  Walk(BracketLinks, Tail(b), d, d)
<1>1. PlainFrom(Tail(b), 1)
  BY TailSymbols DEF Ahead, PlainFrom
<1>. QED
  BY <1>1, TailSymbols, PlainWalk DEF Ahead

\* Behind two.
LEMMA TwoAheadWalk ==
    ASSUME NEW b \in Seq(Symbol), NEW d \in Opened, TwoAhead(b)
    PROVE  Walk(BracketLinks, Tail(Tail(b)), d, d)
<1>. DEFINE c == Tail(b)
<1>1. Len(b) >= 2 /\ \A i \in 3..Len(b) : b[i] \in Plain
  BY DEF TwoAhead, PlainFrom
<1>2. /\ c \in Seq(Symbol) /\ Len(c) = Len(b) - 1
      /\ \A i \in 1..Len(c) : c[i] = b[i + 1]
  BY <1>1, TailSymbols
<1>. HIDE DEF c
<1>3. Len(c) >= 1 /\ \A i \in 2..Len(c) : c[i] \in Plain
  BY <1>1, <1>2
<1>4. Tail(c) \in Seq(Symbol) /\ PlainFrom(Tail(c), 1)
  BY <1>2, <1>3, TailSymbols DEF PlainFrom
<1>5. Walk(BracketLinks, Tail(c), d, d)
  BY <1>4, PlainWalk
<1>. QED
  BY <1>5 DEF c

\* Behind a bracket, which the rest closes.
LEMMA BehindWalk ==
    ASSUME NEW b \in Seq(Symbol), NEW d \in Opened, tok \in Openers,
           NEW k \in 2..Len(b), Behind(b, k)
    PROVE  Walk(BracketLinks, Tail(b), <<tok>> \o d, d)
<1>. DEFINE c == Tail(b)
            m == <<tok>> \o d
            j == k - 1
<1>1. /\ c \in Seq(Symbol) /\ Len(c) = Len(b) - 1 /\ Len(b) \in Nat
      /\ \A i \in 1..Len(c) : i + 1 \in 2..Len(b) /\ c[i] = b[i + 1]
  BY TailSymbols
<1>2. m \in Opened
  BY BracketLink
<1>3. j \in 1..Len(c) /\ c[j] = b[k]
  BY <1>1
<1>4. <<c[j], m, d>> \in BracketLinks
  BY <1>3, BracketLink DEF Behind
<1>5. \A i \in 1..Len(c) : i # j => c[i] \in Plain
  BY <1>1 DEF Behind
<1>. HIDE DEF c, m, j
<1>6. \A i \in 1..Len(c) : i < j => <<c[i], m, m>> \in BracketLinks
  BY <1>2, <1>3, <1>5, BracketLink
<1>7. \A i \in 1..Len(c) : i > j => <<c[i], d, d>> \in BracketLinks
  BY <1>3, <1>5, BracketLink
<1>8. Walk(BracketLinks, c, m, d)
  <2>1. Len(c) \in Nat
    BY <1>1
  <2>. QED
    BY <1>3, <1>4, <1>6, <1>7, <2>1, WalkOnce
<1>. QED
  BY <1>8 DEF c, m

(***************************************************************************)
(* What is on the stack closes the brackets that are open, but for a token *)
(* or two that were looked at and are consumed next.                       *)
(***************************************************************************)
Leads(s, d) ==
    \/ Walk(BracketLinks, s, d, <<>>)
    \/ Len(s) >= 1 /\ s[1] = Error
    \/ /\ Len(s) >= 1 /\ s[1] = Advance
       /\ Walk(BracketLinks, Tail(s), Bracketed(d, tok), <<>>)
    \/ /\ Len(s) >= 2 /\ s[1] = Advance /\ s[2] = Advance
       /\ tok \notin Brackets /\ next \notin Brackets
       /\ Walk(BracketLinks, Tail(Tail(s)), d, <<>>)

\* Tokens that are no bracket, and those that open one.
LEMMA BracketedToken ==
    ASSUME NEW d, NEW t
    PROVE  /\ t \notin Brackets => Bracketed(d, t) = d
           /\ t \in Openers => Bracketed(d, t) = <<t>> \o d
<1>1. DOMAIN Opens = Closers
  BY DEF Opens, Closers
<1>. QED
  BY <1>1 DEF Bracketed, Openers, Closers, Brackets

\* The tail of a body and what follows it.
LEMMA TailJoin ==
    ASSUME NEW b \in Seq(Symbol), NEW s \in Seq(Symbol), Len(b) >= 1
    PROVE  /\ b \o s \in Seq(Symbol) /\ Len(b \o s) = Len(b) + Len(s)
           /\ \A i \in 1..Len(b) : (b \o s)[i] = b[i]
           /\ Tail(b \o s) = Tail(b) \o s
<1>. DEFINE u == b \o s
            c == Tail(b)
<1>1. /\ u \in Seq(Symbol) /\ Len(u) = Len(b) + Len(s)
      /\ \A i \in 1..Len(u) : u[i] = IF i <= Len(b) THEN b[i] ELSE s[i - Len(b)]
  BY ConcatProperties
<1>2. /\ Len(b) \in Nat /\ Len(s) \in Nat
      /\ c \in Seq(Symbol) /\ Len(c) = Len(b) - 1
      /\ \A i \in 1..Len(c) : c[i] = b[i + 1]
  BY TailSymbols
<1>3. /\ c \o s \in Seq(Symbol) /\ Len(c \o s) = Len(c) + Len(s)
      /\ \A i \in 1..(Len(c) + Len(s)) : (c \o s)[i] = IF i <= Len(c) THEN c[i] ELSE s[i - Len(c)]
  BY <1>2, ConcatProperties
<1>. HIDE DEF u, c
<1>4. /\ Tail(u) \in Seq(Symbol) /\ Len(Tail(u)) = Len(u) - 1
      /\ \A i \in 1..Len(Tail(u)) : Tail(u)[i] = u[i + 1]
  <2>1. u \in Seq(Symbol) /\ Len(u) >= 1
    BY <1>1, <1>2
  <2>. QED
    BY <2>1, TailSymbols
<1>5. Len(Tail(u)) = Len(c \o s)
  BY <1>1, <1>2, <1>3, <1>4
<1>6. ASSUME NEW i \in 1..Len(Tail(u))
      PROVE  Tail(u)[i] = (c \o s)[i]
  <2>1. Tail(u)[i] = u[i + 1] /\ i + 1 \in 1..Len(u)
    BY <1>1, <1>2, <1>4
  <2>2. i \in 1..(Len(c) + Len(s))
    BY <1>3, <1>5
  <2>3. CASE i <= Len(c)
    <3>1. u[i + 1] = b[i + 1]
      BY <1>1, <1>2, <2>1, <2>3
    <3>2. (c \o s)[i] = c[i] /\ c[i] = b[i + 1]
      BY <1>2, <1>3, <2>2, <2>3
    <3>. QED
      BY <2>1, <3>1, <3>2
  <2>4. CASE ~(i <= Len(c))
    <3>1. u[i + 1] = s[i + 1 - Len(b)]
      BY <1>1, <1>2, <2>1, <2>4
    <3>2. (c \o s)[i] = s[i - Len(c)]
      BY <1>2, <1>3, <2>2, <2>4
    <3>3. i + 1 - Len(b) = i - Len(c)
      BY <1>2
    <3>. QED
      BY <2>1, <3>1, <3>2, <3>3
  <2>. QED
    BY <2>3, <2>4
<1>7. Tail(u) = c \o s
  BY <1>3, <1>4, <1>5, <1>6, SeqEqual
<1>8. \A i \in 1..Len(b) : u[i] = b[i]
  BY <1>1, <1>2
<1>. QED
  BY <1>1, <1>7, <1>8 DEF u, c

\* A body that fits, put in the place of the call.
LEMMA FitsLeads ==
    ASSUME NEW b \in Seq(Symbol), NEW s \in Seq(Symbol), NEW d \in Opened,
           Walk(BracketLinks, s, d, <<>>), Fits(b), ~PanicMode, tok # "nao"
    PROVE  Leads(b \o s, d)
<1>1. CASE PlainFrom(b, 1)
  <2>1. Walk(BracketLinks, b, d, d)
    BY <1>1, PlainWalk
  <2>2. Walk(BracketLinks, b \o s, d, <<>>)
    BY <2>1, WalkJoin
  <2>. QED
    BY <2>2 DEF Leads
<1>2. CASE \E j \in 1..Len(b), k \in 1..Len(b), t \in Closers : Pair(b, j, k, t)
  <2>1. Walk(BracketLinks, b, d, d)
    BY <1>2, PairWalk
  <2>2. Walk(BracketLinks, b \o s, d, <<>>)
    BY <2>1, WalkJoin
  <2>. QED
    BY <2>2 DEF Leads
<1>3. CASE tok \notin Brackets /\ Ahead(b)
  <2>1. Len(b) >= 1 /\ b[1] = Advance
    BY <1>3 DEF Ahead
  <2>2. Tail(b) \in Seq(Symbol) /\ Walk(BracketLinks, Tail(b), d, d)
    BY <1>3, <2>1, AheadWalk, TailSymbols
  <2>3. Walk(BracketLinks, Tail(b) \o s, d, <<>>)
    BY <2>2, WalkJoin
  <2>4. Bracketed(d, tok) = d
    BY <1>3, BracketedToken
  <2>5. Len(b \o s) >= 1 /\ (b \o s)[1] = Advance /\ Tail(b \o s) = Tail(b) \o s
    BY <2>1, TailJoin
  <2>6. Walk(BracketLinks, Tail(b \o s), Bracketed(d, tok), <<>>)
    BY <2>3, <2>4, <2>5
  <2>. QED
    BY <2>5, <2>6 DEF Leads
<1>4. CASE tok \in Openers /\ \E k \in 2..Len(b) : Behind(b, k)
  <2>0. PICK k \in 2..Len(b) : Behind(b, k)
    BY <1>4
  <2>1. Len(b) >= 1 /\ b[1] = Advance
    BY <2>0 DEF Behind
  <2>2. Tail(b) \in Seq(Symbol) /\ Walk(BracketLinks, Tail(b), <<tok>> \o d, d)
    BY <1>4, <2>0, <2>1, BehindWalk, TailSymbols
  <2>3. Walk(BracketLinks, Tail(b) \o s, <<tok>> \o d, <<>>)
    BY <2>2, WalkJoin
  <2>4. Bracketed(d, tok) = <<tok>> \o d
    BY <1>4, BracketedToken
  <2>5. Len(b \o s) >= 1 /\ (b \o s)[1] = Advance /\ Tail(b \o s) = Tail(b) \o s
    BY <2>1, TailJoin
  <2>6. Walk(BracketLinks, Tail(b \o s), Bracketed(d, tok), <<>>)
    BY <2>3, <2>4, <2>5
  <2>. QED
    BY <2>5, <2>6 DEF Leads
<1>5. CASE tok \notin Brackets /\ next \notin Brackets /\ TwoAhead(b)
  <2>1. Len(b) >= 2 /\ b[1] = Advance /\ b[2] = Advance
    BY <1>5 DEF TwoAhead
  <2>2. Tail(b) \in Seq(Symbol) /\ Len(Tail(b)) = Len(b) - 1 /\ Len(b) \in Nat
    BY <2>1, TailSymbols
  <2>3. Tail(Tail(b)) \in Seq(Symbol) /\ Walk(BracketLinks, Tail(Tail(b)), d, d)
    BY <1>5, <2>1, <2>2, TwoAheadWalk, TailSymbols
  <2>4. Walk(BracketLinks, Tail(Tail(b)) \o s, d, <<>>)
    BY <2>3, WalkJoin
  <2>5. /\ Len(b \o s) = Len(b) + Len(s) /\ Len(s) \in Nat
        /\ (b \o s)[1] = Advance /\ (b \o s)[2] = Advance
        /\ Tail(b \o s) = Tail(b) \o s
    BY <2>1, <2>2, TailJoin
  <2>6. Tail(Tail(b) \o s) = Tail(Tail(b)) \o s
    <3>1. Len(Tail(b)) >= 1
      BY <2>1, <2>2
    <3>. QED
      BY <2>2, <3>1, TailJoin
  <2>7. Len(b \o s) >= 2
    BY <2>1, <2>2, <2>5
  <2>8. Walk(BracketLinks, Tail(Tail(b \o s)), d, <<>>)
    BY <2>4, <2>5, <2>6
  <2>. QED
    BY <1>5, <2>5, <2>7, <2>8 DEF Leads
<1>6. CASE Len(b) >= 1 /\ b[1] = Error
  <2>1. /\ Len(b \o s) = Len(b) + Len(s) /\ Len(s) \in Nat
        /\ (b \o s)[1] = Error
    BY <1>6, TailJoin
  <2>. QED
    BY <1>6, <2>1 DEF Leads
<1>. QED
  BY <1>1, <1>2, <1>3, <1>4, <1>5, <1>6 DEF Fits


\* The symbols that close what was just opened.
LEMMA ClosingSymbols ==
    /\ Expect("RBRACE") \in Closing("LBRACE")
    /\ Expect("RBRACKET") \in Closing("LBRACKET")
    /\ Expect("RPAREN") \in Closing("LPAREN") /\ Call("ParseCallOrAccess") \in Closing("LPAREN")
BY DEF Closing, Closers, Opens

\* The suffixes of an expression.
LEMMA SuffixFits ==
    ASSUME NEW self \in Plain
    PROVE  Fits(Suffix(self))
<1>1. CASE tok = "LPAREN"
  <2>1. tok \in Openers /\ Behind(Suffix(self), 2) /\ 2 \in 2..Len(Suffix(self))
    BY <1>1, PlainSymbols, ClosingSymbols DEF Behind, Openers, Suffix
  <2>. QED
    BY <2>1 DEF Fits
<1>2. CASE tok = "LBRACKET"
  <2>1. tok \in Openers /\ Behind(Suffix(self), 3) /\ 3 \in 2..Len(Suffix(self))
    BY <1>2, PlainSymbols, ClosingSymbols DEF Behind, Openers, Suffix
  <2>. QED
    BY <2>1 DEF Fits
<1>3. CASE tok = "."
  <2>1. tok \notin Brackets /\ Ahead(Suffix(self))
    BY <1>3, PlainSymbols DEF Ahead, PlainFrom, Brackets, Suffix
  <2>. QED
    BY <2>1 DEF Fits
<1>4. CASE tok = "@"
  <2>1. tok \notin Brackets /\ Ahead(Suffix(self))
    BY <1>4, PlainSymbols DEF Ahead, PlainFrom, Brackets, Suffix
  <2>. QED
    BY <2>1 DEF Fits
<1>5. CASE tok = ".."
  <2>1. tok \notin Brackets /\ Ahead(Suffix(self))
    BY <1>5, PlainSymbols DEF Ahead, PlainFrom, Brackets, Suffix
  <2>. QED
    BY <2>1 DEF Fits
<1>6. CASE tok \notin {"LPAREN", "LBRACKET", ".", "@", ".."}
  <2>1. PlainFrom(Suffix(self), 1)
    BY <1>6, PlainSymbols DEF PlainFrom, Suffix
  <2>. QED
    BY <2>1 DEF Fits
<1>. QED
  BY <1>1, <1>2, <1>3, <1>4, <1>5, <1>6

\* What is called, but for ParseCallOrAccess, fits whatever the tokens in sight are.
LEMMA BodiesFit ==
    ASSUME NEW f \in Functions, f # "ParseCallOrAccess"
    PROVE  Fits(Body(f))
<1>1. Fits(ParseType)
  <2>1. CASE tok = "noalias"
    <3>1. tok \notin Brackets /\ Ahead(ParseType)
      BY <2>1, PlainSymbols DEF Ahead, PlainFrom, Brackets, ParseType
    <3>. QED
      BY <3>1 DEF Fits
  <2>2. CASE tok = "LBRACKET"
    <3>1. tok \in Openers /\ Behind(ParseType, 4) /\ 4 \in 2..Len(ParseType)
      BY <2>2, PlainSymbols, ClosingSymbols DEF Behind, Openers, ParseType, Is,
         Identifiers
    <3>. QED
      BY <3>1 DEF Fits
  <2>3. CASE Is(tok, "ident") \/ tok = "type"
    <3>1. tok \notin Brackets /\ Ahead(ParseType)
      BY <2>3, PlainSymbols DEF Ahead, PlainFrom, Brackets, ParseType, Is, Identifiers
    <3>. QED
      BY <3>1 DEF Fits
  <2>4. CASE ~(tok = "noalias" \/ tok = "LBRACKET" \/ Is(tok, "ident") \/ tok = "type")
    <3>1. Len(ParseType) >= 1 /\ ParseType[1] = Error
      BY <2>4, PlainSymbols DEF ParseType
    <3>. QED
      BY <3>1 DEF Fits
  <2>. QED
    BY <2>1, <2>2, <2>3, <2>4
<1>2. Fits(ArraySize)
  <2>1. CASE tok = "COMMA"
    <3>1. tok \notin Brackets /\ Ahead(ArraySize)
      BY <2>1, PlainSymbols DEF Ahead, PlainFrom, Brackets, ArraySize, If
    <3>. QED
      BY <3>1 DEF Fits
  <2>2. CASE tok # "COMMA"
    <3>1. PlainFrom(ArraySize, 1)
      BY <2>2, PlainSymbols DEF PlainFrom, ArraySize, If
    <3>. QED
      BY <3>1 DEF Fits
  <2>. QED
    BY <2>1, <2>2
<1>3. Fits(ParsePrimary)
  <2>1. CASE tok \in OwnershipOperators
    <3>1. PlainFrom(ParsePrimary, 1)
      BY <2>1, PlainSymbols DEF PlainFrom, ParsePrimary, Unexpected, OwnershipOperators,
         Literals, Identifiers
    <3>. QED
      BY <3>1 DEF Fits
  <2>2. CASE tok = "-"
    <3>1. tok \notin Brackets /\ Ahead(ParsePrimary)
      BY <2>2, PlainSymbols DEF Ahead, PlainFrom, Brackets, ParsePrimary, Unexpected,
         OwnershipOperators
    <3>. QED
      BY <3>1 DEF Fits
  <2>3. CASE tok \in Literals
    <3>1. tok \notin Brackets /\ Ahead(ParsePrimary)
      BY <2>3, PlainSymbols DEF Ahead, PlainFrom, Brackets, ParsePrimary, Unexpected,
         OwnershipOperators, Literals
    <3>. QED
      BY <3>1 DEF Fits
  <2>4. CASE tok = "LPAREN"
    <3>1. tok \in Openers /\ Behind(ParsePrimary, 3) /\ 3 \in 2..Len(ParsePrimary)
      BY <2>4, PlainSymbols, ClosingSymbols DEF Behind, Openers, ParsePrimary,
         Unexpected, OwnershipOperators, Literals, Identifiers
    <3>. QED
      BY <3>1 DEF Fits
  <2>5. CASE tok = "LBRACE"
    <3>1. PlainFrom(ParsePrimary, 1)
      BY <2>5, PlainSymbols DEF PlainFrom, ParsePrimary, Unexpected, OwnershipOperators,
         Literals, Identifiers
    <3>. QED
      BY <3>1 DEF Fits
  <2>6. CASE tok \in Identifiers \cup {"sys"}
    <3>1. tok \notin Brackets /\ Ahead(ParsePrimary)
      BY <2>6, PlainSymbols DEF Ahead, PlainFrom, Brackets, ParsePrimary, Unexpected,
         OwnershipOperators, Literals, Identifiers
    <3>. QED
      BY <3>1 DEF Fits
  <2>7. CASE tok \notin OwnershipOperators \cup {"-"} \cup Literals \cup {"LPAREN", "LBRACE", "sys"} \cup Identifiers
    <3>1. Len(ParsePrimary) >= 1 /\ ParsePrimary[1] = Error
      BY <2>7, PlainSymbols DEF ParsePrimary, Unexpected
    <3>. QED
      BY <3>1 DEF Fits
  <2>. QED
    BY <2>1, <2>2, <2>3, <2>4, <2>5, <2>6, <2>7
<1>4. Fits(ParseOwnership)
  <2>1. CASE tok = "!" /\ next = "$"
    <3>1. tok \notin Brackets /\ next \notin Brackets /\ TwoAhead(ParseOwnership)
      BY <2>1, PlainSymbols DEF TwoAhead, PlainFrom, Brackets, ParseOwnership,
         OwnershipTarget
    <3>. QED
      BY <3>1 DEF Fits
  <2>2. CASE tok = "$"
    <3>1. tok \notin Brackets /\ Ahead(ParseOwnership)
      BY <2>2, PlainSymbols DEF Ahead, PlainFrom, Brackets, ParseOwnership,
         OwnershipTarget
    <3>. QED
      BY <3>1 DEF Fits
  <2>3. CASE tok \in {"&", "@", "#"}
    <3>1. tok \notin Brackets /\ Ahead(ParseOwnership)
      BY <2>3, PlainSymbols DEF Ahead, PlainFrom, Brackets, ParseOwnership,
         OwnershipTarget
    <3>. QED
      BY <3>1 DEF Fits
  <2>4. CASE ~(tok = "!" /\ next = "$") /\ tok \notin {"$", "&", "@", "#"}
    <3>1. PlainFrom(ParseOwnership, 1)
      BY <2>4, PlainSymbols DEF PlainFrom, ParseOwnership, OwnershipTarget
    <3>. QED
      BY <3>1 DEF Fits
  <2>. QED
    BY <2>1, <2>2, <2>3, <2>4
<1>5. Fits(ParsePostfix)
  <2>1. PlainFrom(ParsePostfix, 1)
    BY PlainSymbols DEF PlainFrom, ParsePostfix
  <2>. QED
    BY <2>1 DEF Fits
<1>6. Fits(Postfix)
  <2>0. Call("Postfix") \in Plain
    BY PlainSymbols
  <2>1. CASE IsStructInit
    <3>1. tok = "LBRACE"
      BY <2>1 DEF IsStructInit
    <3>2. tok \in Openers /\ Behind(Postfix, 3) /\ 3 \in 2..Len(Postfix)
      BY <2>1, <3>1, PlainSymbols, ClosingSymbols DEF Behind, Openers, Postfix
    <3>. QED
      BY <3>2 DEF Fits
  <2>2. CASE ~IsStructInit
    BY <2>0, <2>2, SuffixFits DEF Postfix
  <2>. QED
    BY <2>1, <2>2
<1>7. Fits(Fields)
  <2>1. CASE AtEnd("RBRACE")
    <3>1. PlainFrom(Fields, 1)
      BY <2>1, PlainSymbols DEF PlainFrom, Fields, List, If
    <3>. QED
      BY <3>1 DEF Fits
  <2>2. CASE ~AtEnd("RBRACE") /\ Is(tok, "ident")
    <3>1. tok \notin Brackets /\ Ahead(Fields)
      BY <2>2, PlainSymbols DEF Ahead, PlainFrom, Brackets, Fields, List, If, Is,
         Identifiers
    <3>. QED
      BY <3>1 DEF Fits
  <2>3. CASE ~AtEnd("RBRACE") /\ ~Is(tok, "ident")
    <3>1. PlainFrom(Fields, 1)
      BY <2>3, PlainSymbols DEF PlainFrom, Fields, List, If
    <3>. QED
      BY <3>1 DEF Fits
  <2>. QED
    BY <2>1, <2>2, <2>3
<1>8. Fits(Arguments)
  <2>1. PlainFrom(Arguments, 1)
    BY PlainSymbols DEF PlainFrom, Arguments, List, If, AtEnd
  <2>. QED
    BY <2>1 DEF Fits
<1>9. Fits(ParseUnary)
  <2>1. CASE tok \in {"!", "-"}
    <3>1. tok \notin Brackets /\ Ahead(ParseUnary)
      BY <2>1, PlainSymbols DEF Ahead, PlainFrom, Brackets, ParseUnary
    <3>. QED
      BY <3>1 DEF Fits
  <2>2. CASE tok \notin {"!", "-"}
    <3>1. PlainFrom(ParseUnary, 1)
      BY <2>2, PlainSymbols DEF PlainFrom, ParseUnary
    <3>. QED
      BY <3>1 DEF Fits
  <2>. QED
    BY <2>1, <2>2
<1>10. Fits(ParseExpression)
  <2>1. PlainFrom(ParseExpression, 1)
    BY PlainSymbols DEF PlainFrom, ParseExpression, ParseBinary
  <2>. QED
    BY <2>1 DEF Fits
<1>11. Fits(ParseArrayLiteral)
  <2>1. Pair(ParseArrayLiteral, 1, 3, "RBRACE") /\ "RBRACE" \in Closers /\ Len(ParseArrayLiteral) = 4
    BY PlainSymbols DEF Pair, Opens, Closers, ParseArrayLiteral
  <2>2. 1 \in 1..Len(ParseArrayLiteral) /\ 3 \in 1..Len(ParseArrayLiteral)
    BY <2>1
  <2>. QED
    BY <2>1, <2>2 DEF Fits
<1>12. Fits(Elements)
  <2>1. PlainFrom(Elements, 1)
    BY PlainSymbols DEF PlainFrom, Elements, List, If
  <2>. QED
    BY <2>1 DEF Fits
<1>13. Fits(Annotation)
  <2>1. CASE tok = ":"
    <3>1. tok \notin Brackets /\ Ahead(Annotation)
      BY <2>1, PlainSymbols DEF Ahead, PlainFrom, Brackets, Annotation, If
    <3>. QED
      BY <3>1 DEF Fits
  <2>2. CASE tok # ":"
    <3>1. PlainFrom(Annotation, 1)
      BY <2>2, PlainSymbols DEF PlainFrom, Annotation, If
    <3>. QED
      BY <3>1 DEF Fits
  <2>. QED
    BY <2>1, <2>2
<1>14. Fits(Initializer)
  <2>1. CASE tok = "="
    <3>1. tok \notin Brackets /\ Ahead(Initializer)
      BY <2>1, PlainSymbols DEF Ahead, PlainFrom, Brackets, Initializer, If
    <3>. QED
      BY <3>1 DEF Fits
  <2>2. CASE tok # "="
    <3>1. PlainFrom(Initializer, 1)
      BY <2>2, PlainSymbols DEF PlainFrom, Initializer, If
    <3>. QED
      BY <3>1 DEF Fits
  <2>. QED
    BY <2>1, <2>2
<1>15. Fits(ParseVariableDeclaration)
  <2>1. PlainFrom(ParseVariableDeclaration, 1)
    BY PlainSymbols DEF PlainFrom, ParseVariableDeclaration
  <2>. QED
    BY <2>1 DEF Fits
<1>16. Fits(ParseModifiers)
  <2>1. CASE tok \in Modifiers
    <3>1. tok \notin Brackets /\ Ahead(ParseModifiers)
      BY <2>1, PlainSymbols DEF Ahead, PlainFrom, Brackets, ParseModifiers, If, Modifiers
    <3>. QED
      BY <3>1 DEF Fits
  <2>2. CASE tok \notin Modifiers
    <3>1. PlainFrom(ParseModifiers, 1)
      BY <2>2, PlainSymbols DEF PlainFrom, ParseModifiers, If
    <3>. QED
      BY <3>1 DEF Fits
  <2>. QED
    BY <2>1, <2>2
<1>17. Fits(ParseBlock)
  <2>1. Pair(ParseBlock, 1, 4, "RBRACE") /\ "RBRACE" \in Closers /\ Len(ParseBlock) = 5
    BY PlainSymbols DEF Pair, Opens, Closers, ParseBlock, Within, Counters
  <2>2. 1 \in 1..Len(ParseBlock) /\ 4 \in 1..Len(ParseBlock)
    BY <2>1
  <2>. QED
    BY <2>1, <2>2 DEF Fits
<1>18. Fits(Statements)
  <2>1. PlainFrom(Statements, 1)
    BY PlainSymbols DEF PlainFrom, Statements, If
  <2>. QED
    BY <2>1 DEF Fits
<1>19. Fits(ParseConditionBlock)
  <2>1. Pair(ParseConditionBlock, 1, 3, "RBRACE") /\ "RBRACE" \in Closers /\ Len(ParseConditionBlock) = 3
    BY PlainSymbols DEF Pair, Opens, Closers, ParseConditionBlock
  <2>2. 1 \in 1..Len(ParseConditionBlock) /\ 3 \in 1..Len(ParseConditionBlock)
    BY <2>1
  <2>. QED
    BY <2>1, <2>2 DEF Fits
<1>20. Fits(ParseIfStatement)
  <2>1. PlainFrom(ParseIfStatement, 1)
    BY PlainSymbols DEF PlainFrom, ParseIfStatement
  <2>. QED
    BY <2>1 DEF Fits
<1>21. Fits(Branch)
  <2>1. PlainFrom(Branch, 1)
    BY PlainSymbols DEF PlainFrom, Branch
  <2>. QED
    BY <2>1 DEF Fits
<1>22. Fits(Else)
  <2>1. CASE tok = "else" /\ next = "if"
    <3>1. tok \notin Brackets /\ next \notin Brackets /\ TwoAhead(Else)
      BY <2>1, PlainSymbols DEF TwoAhead, PlainFrom, Brackets, Else, If
    <3>. QED
      BY <3>1 DEF Fits
  <2>2. CASE tok = "else" /\ next # "if"
    <3>1. tok \notin Brackets /\ Ahead(Else)
      BY <2>2, PlainSymbols DEF Ahead, PlainFrom, Brackets, Else, If
    <3>. QED
      BY <3>1 DEF Fits
  <2>3. CASE tok # "else"
    <3>1. PlainFrom(Else, 1)
      BY <2>3, PlainSymbols DEF PlainFrom, Else, If
    <3>. QED
      BY <3>1 DEF Fits
  <2>. QED
    BY <2>1, <2>2, <2>3
<1>23. Fits(ParseWhileStatement)
  <2>1. PlainFrom(ParseWhileStatement, 1)
    BY PlainSymbols DEF PlainFrom, ParseWhileStatement, Within, Counters
  <2>. QED
    BY <2>1 DEF Fits
<1>24. Fits(ParseForStatement)
  <2>1. PlainFrom(ParseForStatement, 1)
    BY PlainSymbols DEF PlainFrom, ParseForStatement, Within, Counters
  <2>. QED
    BY <2>1 DEF Fits
<1>25. Fits(Step)
  <2>1. CASE tok \in {"+=", "-="}
    <3>1. tok \notin Brackets /\ Ahead(Step)
      BY <2>1, PlainSymbols DEF Ahead, PlainFrom, Brackets, Step, If
    <3>. QED
      BY <3>1 DEF Fits
  <2>2. CASE tok \notin {"+=", "-="}
    <3>1. PlainFrom(Step, 1)
      BY <2>2, PlainSymbols DEF PlainFrom, Step, If
    <3>. QED
      BY <3>1 DEF Fits
  <2>. QED
    BY <2>1, <2>2
<1>26. Fits(ParseReturnStatement)
  <2>1. PlainFrom(ParseReturnStatement, 1)
    BY PlainSymbols DEF PlainFrom, ParseReturnStatement, If
  <2>. QED
    BY <2>1 DEF Fits
<1>27. Fits(ParseMatchStatement)
  <2>1. Pair(ParseMatchStatement, 3, 5, "RBRACE") /\ "RBRACE" \in Closers /\ Len(ParseMatchStatement) = 6
    BY PlainSymbols DEF Pair, Opens, Closers, ParseMatchStatement, Within, Counters
  <2>2. 3 \in 1..Len(ParseMatchStatement) /\ 5 \in 1..Len(ParseMatchStatement)
    BY <2>1
  <2>. QED
    BY <2>1, <2>2 DEF Fits
<1>28. Fits(Arms)
  <2>1. PlainFrom(Arms, 1)
    BY PlainSymbols DEF PlainFrom, Arms, If
  <2>. QED
    BY <2>1 DEF Fits
<1>29. Fits(Pattern)
  <2>1. CASE tok = "LPAREN"
    <3>1. tok \in Openers /\ Behind(Pattern, 3) /\ 3 \in 2..Len(Pattern)
      BY <2>1, PlainSymbols, ClosingSymbols DEF Behind, Openers, Pattern
    <3>. QED
      BY <3>1 DEF Fits
  <2>2. CASE tok # "LPAREN"
    <3>1. PlainFrom(Pattern, 1)
      BY <2>2, PlainSymbols DEF PlainFrom, Pattern
    <3>. QED
      BY <3>1 DEF Fits
  <2>. QED
    BY <2>1, <2>2
<1>30. Fits(Tuple)
  <2>1. PlainFrom(Tuple, 1)
    BY PlainSymbols DEF PlainFrom, Tuple, List, If
  <2>. QED
    BY <2>1 DEF Fits
<1>31. Fits(Guard)
  <2>1. CASE tok = "if"
    <3>1. tok \notin Brackets /\ Ahead(Guard)
      BY <2>1, PlainSymbols DEF Ahead, PlainFrom, Brackets, Guard, If
    <3>. QED
      BY <3>1 DEF Fits
  <2>2. CASE tok # "if"
    <3>1. PlainFrom(Guard, 1)
      BY <2>2, PlainSymbols DEF PlainFrom, Guard, If
    <3>. QED
      BY <3>1 DEF Fits
  <2>. QED
    BY <2>1, <2>2
<1>32. Fits(ArmBody)
  <2>1. PlainFrom(ArmBody, 1)
    BY PlainSymbols DEF PlainFrom, ArmBody
  <2>. QED
    BY <2>1 DEF Fits
<1>33. Fits(ParseUnsafeBlock)
  <2>1. PlainFrom(ParseUnsafeBlock, 1)
    BY PlainSymbols DEF PlainFrom, ParseUnsafeBlock, Within, Counters
  <2>. QED
    BY <2>1 DEF Fits
<1>34. Fits(ParseTrustedBlock)
  <2>1. PlainFrom(ParseTrustedBlock, 1)
    BY PlainSymbols DEF PlainFrom, ParseTrustedBlock, ParseUnsafeBlock, Within, Counters
  <2>. QED
    BY <2>1 DEF Fits
<1>35. Fits(ParsePlainBlock)
  <2>1. PlainFrom(ParsePlainBlock, 1)
    BY PlainSymbols DEF PlainFrom, ParsePlainBlock
  <2>. QED
    BY <2>1 DEF Fits
<1>36. Fits(ParseNamedBlock)
  <2>1. PlainFrom(ParseNamedBlock, 1)
    BY PlainSymbols DEF PlainFrom, ParseNamedBlock
  <2>. QED
    BY <2>1 DEF Fits
<1>37. Fits(Assignment)
  <2>1. CASE tok \in Assignments
    <3>1. tok \notin Brackets /\ Ahead(Assignment)
      BY <2>1, PlainSymbols DEF Ahead, PlainFrom, Brackets, Assignment, If, Assignments
    <3>. QED
      BY <3>1 DEF Fits
  <2>2. CASE tok \notin Assignments
    <3>1. PlainFrom(Assignment, 1)
      BY <2>2, PlainSymbols DEF PlainFrom, Assignment, If
    <3>. QED
      BY <3>1 DEF Fits
  <2>. QED
    BY <2>1, <2>2
<1>38. Fits(ParseExpressionStatement)
  <2>1. PlainFrom(ParseExpressionStatement, 1)
    BY PlainSymbols DEF PlainFrom, ParseExpressionStatement
  <2>. QED
    BY <2>1 DEF Fits
<1>39. Fits(Access)
  <2>1. Call("Access") \in Plain
    BY PlainSymbols
  <2>. QED
    BY <2>1, SuffixFits DEF Access
<1>40. Fits(ParseStatement)
  <2>1. CASE PanicMode
    BY <2>1 DEF Fits
  <2>2. CASE ~PanicMode /\ tok \in Modifiers
    <3>1. PlainFrom(ParseStatement, 1)
      BY <2>2, PlainSymbols DEF PlainFrom, ParseStatement, Modifiers, StatementKeywords,
         Is,
         Identifiers
    <3>. QED
      BY <3>1 DEF Fits
  <2>3. CASE ~PanicMode /\ tok = "type"
    <3>1. PlainFrom(ParseStatement, 1)
      BY <2>3, PlainSymbols DEF PlainFrom, ParseStatement, Modifiers, StatementKeywords,
         Is,
         Identifiers
    <3>. QED
      BY <3>1 DEF Fits
  <2>4. CASE ~PanicMode /\ tok = "compiletime"
    <3>1. ParseStatement = ComptimeStatement /\ tok \notin Brackets
      BY <2>4 DEF ParseStatement, Modifiers, StatementKeywords, Is, Identifiers, Brackets
    <3>2. CASE next = "fn"
      <4>1. next \notin Brackets /\ TwoAhead(ComptimeStatement)
        BY <3>2 DEF TwoAhead, PlainFrom, ComptimeStatement, Brackets
      <4>. QED
        BY <3>1, <4>1 DEF Fits
    <3>3. CASE next # "fn"
      <4>1. Ahead(ComptimeStatement)
        BY <3>3, PlainSymbols DEF Ahead, PlainFrom, ComptimeStatement
      <4>. QED
        BY <3>1, <4>1 DEF Fits
    <3>. QED
      BY <3>2, <3>3
  <2>5. CASE ~PanicMode /\ tok \in StatementKeywords \ {"compiletime"}
    <3>1. ParseStatement = <<Advance>> \o KeywordStatement /\ tok \notin Brackets
      BY <2>5 DEF ParseStatement, Modifiers, StatementKeywords, Is, Identifiers, Brackets
    <3>2. KeywordStatement = <<>> \/ \E x \in Plain : KeywordStatement = <<x>>
      <4>1. \/ KeywordStatement = <<>>
            \/ \E g \in {"ParseIfStatement", "ParseWhileStatement", "ParseForStatement",
                        "ParseReturnStatement", "ParseMatchStatement", "ParseUnsafeBlock",
                        "ParseTrustedBlock", "ParseConditionBlock", "ParseNamedBlock",
                        "ParseSubprogram", "ParsePlainBlock"} : KeywordStatement = <<Call(g)>>
        BY <2>5 DEF StatementKeywords, KeywordStatement
      <4>. QED
        BY <4>1, PlainSymbols
    <3>3. Ahead(<<Advance>> \o <<>>) /\ \A x \in Plain : Ahead(<<Advance>> \o <<x>>)
      BY DEF Ahead, PlainFrom
    <3>4. Ahead(ParseStatement)
      BY <3>1, <3>2, <3>3
    <3>. QED
      BY <3>1, <3>4 DEF Fits
  <2>6. CASE ~PanicMode /\ Is(tok, "ident")
    <3>1. ParseStatement = IdentifierStatement /\ tok \notin Brackets
      BY <2>6 DEF ParseStatement, Modifiers, StatementKeywords, Is, Identifiers, Brackets
    <3>2. CASE next = ":"
      <4>1. next \notin Brackets /\ TwoAhead(IdentifierStatement)
        BY <3>2, PlainSymbols DEF TwoAhead, PlainFrom, IdentifierStatement, Brackets
      <4>. QED
        BY <3>1, <4>1 DEF Fits
    <3>3. CASE /\ next # ":" /\ Is(next, "ident")
               /\ third \in {"=", "SEMICOLON", "RBRACE", "EOF"}
      <4>1. next \notin Brackets /\ TwoAhead(IdentifierStatement)
        BY <3>3, PlainSymbols DEF TwoAhead, PlainFrom, IdentifierStatement, Brackets, Is,
           Identifiers
      <4>. QED
        BY <3>1, <4>1 DEF Fits
    <3>4. CASE /\ next # ":"
               /\ ~(Is(next, "ident") /\ third \in {"=", "SEMICOLON", "RBRACE", "EOF"})
      <4>1. Ahead(IdentifierStatement)
        BY <3>4, PlainSymbols DEF Ahead, PlainFrom, IdentifierStatement
      <4>. QED
        BY <3>1, <4>1 DEF Fits
    <3>. QED
      BY <3>2, <3>3, <3>4
  <2>7. CASE ~PanicMode /\ tok \notin Modifiers \cup {"type"} \cup StatementKeywords
                 /\ ~Is(tok, "ident")
    <3>1. PlainFrom(ParseStatement, 1)
      BY <2>7, PlainSymbols DEF PlainFrom, ParseStatement, StatementKeywords
    <3>. QED
      BY <3>1 DEF Fits
  <2>. QED
    BY <2>1, <2>2, <2>3, <2>4, <2>5, <2>6, <2>7
<1>41. Fits(ParseSubprogram)
  <2>1. Pair(ParseSubprogram, 3, 5, "RPAREN") /\ "RPAREN" \in Closers /\ Len(ParseSubprogram) = 9
    BY PlainSymbols DEF Pair, Opens, Closers, ParseSubprogram, Within, Counters
  <2>2. 3 \in 1..Len(ParseSubprogram) /\ 5 \in 1..Len(ParseSubprogram)
    BY <2>1
  <2>. QED
    BY <2>1, <2>2 DEF Fits
<1>42. Fits(Parameters)
  <2>1. PlainFrom(Parameters, 1)
    BY PlainSymbols DEF PlainFrom, Parameters, List, If
  <2>. QED
    BY <2>1 DEF Fits
<1>43. Fits(Clauses)
  <2>1. CASE tok = "requires"
    <3>1. tok \notin Brackets /\ Ahead(Clauses)
      BY <2>1, PlainSymbols DEF Ahead, PlainFrom, Brackets, Clauses
    <3>. QED
      BY <3>1 DEF Fits
  <2>2. CASE tok = "provides"
    <3>1. tok \notin Brackets /\ Ahead(Clauses)
      BY <2>2, PlainSymbols DEF Ahead, PlainFrom, Brackets, Clauses
    <3>. QED
      BY <3>1 DEF Fits
  <2>3. CASE tok \notin {"requires", "provides"}
    <3>1. PlainFrom(Clauses, 1)
      BY <2>3, PlainSymbols DEF PlainFrom, Clauses
    <3>. QED
      BY <3>1 DEF Fits
  <2>. QED
    BY <2>1, <2>2, <2>3
<1>44. Fits(ReturnType)
  <2>1. CASE tok \in {"->", ":"}
    <3>1. tok \notin Brackets /\ Ahead(ReturnType)
      BY <2>1, PlainSymbols DEF Ahead, PlainFrom, Brackets, ReturnType, If
    <3>. QED
      BY <3>1 DEF Fits
  <2>2. CASE tok \notin {"->", ":"}
    <3>1. PlainFrom(ReturnType, 1)
      BY <2>2, PlainSymbols DEF PlainFrom, ReturnType, If
    <3>. QED
      BY <3>1 DEF Fits
  <2>. QED
    BY <2>1, <2>2
<1>45. Fits(ParseEnumDecl)
  <2>1. Pair(ParseEnumDecl, 2, 4, "RBRACE") /\ "RBRACE" \in Closers /\ Len(ParseEnumDecl) = 4
    BY PlainSymbols DEF Pair, Opens, Closers, ParseEnumDecl
  <2>2. 2 \in 1..Len(ParseEnumDecl) /\ 4 \in 1..Len(ParseEnumDecl)
    BY <2>1
  <2>. QED
    BY <2>1, <2>2 DEF Fits
<1>46. Fits(Variants)
  <2>1. CASE AtEnd("RBRACE")
    <3>1. PlainFrom(Variants, 1)
      BY <2>1, PlainSymbols DEF PlainFrom, Variants, If
    <3>. QED
      BY <3>1 DEF Fits
  <2>2. CASE ~AtEnd("RBRACE") /\ Is(tok, "ident")
    <3>1. tok \notin Brackets /\ Ahead(Variants)
      BY <2>2, PlainSymbols DEF Ahead, PlainFrom, Brackets, Variants, If, Is, Identifiers
    <3>. QED
      BY <3>1 DEF Fits
  <2>3. CASE ~AtEnd("RBRACE") /\ ~Is(tok, "ident")
    <3>1. PlainFrom(Variants, 1)
      BY <2>3, PlainSymbols DEF PlainFrom, Variants, If
    <3>. QED
      BY <3>1 DEF Fits
  <2>. QED
    BY <2>1, <2>2, <2>3
<1>47. Fits(ParseStructDecl)
  <2>1. Pair(ParseStructDecl, 2, 4, "RBRACE") /\ "RBRACE" \in Closers /\ Len(ParseStructDecl) = 4
    BY PlainSymbols DEF Pair, Opens, Closers, ParseStructDecl
  <2>2. 2 \in 1..Len(ParseStructDecl) /\ 4 \in 1..Len(ParseStructDecl)
    BY <2>1
  <2>. QED
    BY <2>1, <2>2 DEF Fits
<1>48. Fits(Members)
  <2>1. CASE AtEnd("RBRACE")
    <3>1. PlainFrom(Members, 1)
      BY <2>1, PlainSymbols DEF PlainFrom, Members, If
    <3>. QED
      BY <3>1 DEF Fits
  <2>2. CASE ~AtEnd("RBRACE") /\ Is(tok, "ident")
    <3>1. tok \notin Brackets /\ Ahead(Members)
      BY <2>2, PlainSymbols DEF Ahead, PlainFrom, Brackets, Members, If, Is, Identifiers
    <3>. QED
      BY <3>1 DEF Fits
  <2>3. CASE ~AtEnd("RBRACE") /\ ~Is(tok, "ident")
    <3>1. PlainFrom(Members, 1)
      BY <2>3, PlainSymbols DEF PlainFrom, Members, If
    <3>. QED
      BY <3>1 DEF Fits
  <2>. QED
    BY <2>1, <2>2, <2>3
<1>49. Fits(Items)
  <2>1. CASE AtEnd("RBRACE")
    <3>1. PlainFrom(Items, 1)
      BY <2>1, PlainSymbols DEF PlainFrom, Items, If, Function
    <3>. QED
      BY <3>1 DEF Fits
  <2>2. CASE ~AtEnd("RBRACE") /\ tok = "fn"
    <3>1. tok \notin Brackets /\ Ahead(Items)
      BY <2>2, PlainSymbols DEF Ahead, PlainFrom, Brackets, Items, If, Function
    <3>. QED
      BY <3>1 DEF Fits
  <2>3. CASE ~AtEnd("RBRACE") /\ tok # "fn"
    <3>1. PlainFrom(Items, 1)
      BY <2>3, PlainSymbols DEF PlainFrom, Items, If, Function
    <3>. QED
      BY <3>1 DEF Fits
  <2>. QED
    BY <2>1, <2>2, <2>3
<1>50. Fits(ParseWorldDeclaration)
  <2>1. Pair(ParseWorldDeclaration, 3, 5, "RBRACE") /\ "RBRACE" \in Closers /\ Len(ParseWorldDeclaration) = 5
    BY PlainSymbols DEF Pair, Opens, Closers, ParseWorldDeclaration, DeclarationBody
  <2>2. 3 \in 1..Len(ParseWorldDeclaration) /\ 5 \in 1..Len(ParseWorldDeclaration)
    BY <2>1
  <2>. QED
    BY <2>1, <2>2 DEF Fits
<1>51. Fits(Extends)
  <2>1. CASE tok = "extends"
    <3>1. tok \notin Brackets /\ Ahead(Extends)
      BY <2>1, PlainSymbols DEF Ahead, PlainFrom, Brackets, Extends, If
    <3>. QED
      BY <3>1 DEF Fits
  <2>2. CASE tok # "extends"
    <3>1. PlainFrom(Extends, 1)
      BY <2>2, PlainSymbols DEF PlainFrom, Extends, If
    <3>. QED
      BY <3>1 DEF Fits
  <2>. QED
    BY <2>1, <2>2
<1>52. Fits(ParseContextDeclaration)
  <2>1. Pair(ParseContextDeclaration, 2, 4, "RBRACE") /\ "RBRACE" \in Closers /\ Len(ParseContextDeclaration) = 4
    BY PlainSymbols DEF Pair, Opens, Closers, ParseContextDeclaration, DeclarationBody
  <2>2. 2 \in 1..Len(ParseContextDeclaration) /\ 4 \in 1..Len(ParseContextDeclaration)
    BY <2>1
  <2>. QED
    BY <2>1, <2>2 DEF Fits
<1>53. Fits(ParseModuleDeclaration)
  <2>1. Pair(ParseModuleDeclaration, 2, 4, "RBRACE") /\ "RBRACE" \in Closers /\ Len(ParseModuleDeclaration) = 4
    BY PlainSymbols DEF Pair, Opens, Closers, ParseModuleDeclaration
  <2>2. 2 \in 1..Len(ParseModuleDeclaration) /\ 4 \in 1..Len(ParseModuleDeclaration)
    BY <2>1
  <2>. QED
    BY <2>1, <2>2 DEF Fits
<1>54. Fits(ModuleItems)
  <2>1. CASE AtEnd("RBRACE")
    <3>1. PlainFrom(ModuleItems, 1)
      BY <2>1, PlainSymbols DEF PlainFrom, ModuleItems, If
    <3>. QED
      BY <3>1 DEF Fits
  <2>2. CASE ~AtEnd("RBRACE") /\ tok = "fn"
    <3>1. tok \notin Brackets /\ Ahead(ModuleItems)
      BY <2>2, PlainSymbols DEF Ahead, PlainFrom, Brackets, ModuleItems, If
    <3>. QED
      BY <3>1 DEF Fits
  <2>3. CASE ~AtEnd("RBRACE") /\ tok = "export"
    <3>1. tok \notin Brackets /\ Ahead(ModuleItems)
      BY <2>3, PlainSymbols DEF Ahead, PlainFrom, Brackets, ModuleItems, If
    <3>. QED
      BY <3>1 DEF Fits
  <2>4. CASE ~AtEnd("RBRACE") /\ tok \notin {"fn", "export"}
    <3>1. PlainFrom(ModuleItems, 1)
      BY <2>4, PlainSymbols DEF PlainFrom, ModuleItems, If
    <3>. QED
      BY <3>1 DEF Fits
  <2>. QED
    BY <2>1, <2>2, <2>3, <2>4
<1>55. Fits(ParseMacroDeclaration)
  <2>1. Pair(ParseMacroDeclaration, 3, 5, "RPAREN") /\ "RPAREN" \in Closers /\ Len(ParseMacroDeclaration) = 7
    BY PlainSymbols DEF Pair, Opens, Closers, ParseMacroDeclaration, Within, Counters
  <2>2. 3 \in 1..Len(ParseMacroDeclaration) /\ 5 \in 1..Len(ParseMacroDeclaration)
    BY <2>1
  <2>. QED
    BY <2>1, <2>2 DEF Fits
<1>56. Fits(MacroParameters)
  <2>1. PlainFrom(MacroParameters, 1)
    BY PlainSymbols DEF PlainFrom, MacroParameters, List, If
  <2>. QED
    BY <2>1 DEF Fits
<1>57. Fits(ParseEnvironmentDeclaration)
  <2>1. PlainFrom(ParseEnvironmentDeclaration, 1)
    BY PlainSymbols DEF PlainFrom, ParseEnvironmentDeclaration
  <2>. QED
    BY <2>1 DEF Fits
<1>58. Fits(EnvironmentBody)
  <2>1. PlainFrom(EnvironmentBody, 1)
    BY PlainSymbols DEF PlainFrom, EnvironmentBody, If
  <2>. QED
    BY <2>1 DEF Fits
<1>59. Fits(ParseUsing)
  <2>1. PlainFrom(ParseUsing, 1)
    BY PlainSymbols DEF PlainFrom, ParseUsing
  <2>. QED
    BY <2>1 DEF Fits
<1>60. Fits(Path)
  <2>1. CASE tok = "::"
    <3>1. tok \notin Brackets /\ Ahead(Path)
      BY <2>1, PlainSymbols DEF Ahead, PlainFrom, Brackets, Path, If
    <3>. QED
      BY <3>1 DEF Fits
  <2>2. CASE tok # "::"
    <3>1. PlainFrom(Path, 1)
      BY <2>2, PlainSymbols DEF PlainFrom, Path, If
    <3>. QED
      BY <3>1 DEF Fits
  <2>. QED
    BY <2>1, <2>2
<1>61. Fits(ParseSysDecl)
  <2>1. PlainFrom(ParseSysDecl, 1)
    BY PlainSymbols DEF PlainFrom, ParseSysDecl
  <2>. QED
    BY <2>1 DEF Fits
<1>62. Fits(Declaration)
  <2>1. CASE tok = "fn"
    <3>1. Declaration = Function /\ tok \notin Brackets
      BY <2>1 DEF Declaration, DeclarationKeywords, Brackets
    <3>2. Ahead(Function)
      BY PlainSymbols DEF Ahead, PlainFrom, Function
    <3>. QED
      BY <3>1, <3>2 DEF Fits
  <2>2. CASE (tok = "compiletime" \/ tok = "unsafe") /\ next = "fn"
    <3>1. Declaration = <<Advance>> \o Function /\ tok \notin Brackets /\ next \notin Brackets
      BY <2>2 DEF Declaration, DeclarationKeywords, Brackets
    <3>2. TwoAhead(<<Advance>> \o Function)
      BY PlainSymbols DEF TwoAhead, PlainFrom, Function
    <3>. QED
      BY <3>1, <3>2 DEF Fits
  <2>3. CASE tok \in {"concept", "reactive", "with"} \/ (tok = "compiletime" /\ next # "fn")
    <3>1. tok \notin Brackets /\ Ahead(Declaration)
      BY <2>3, PlainSymbols DEF Ahead, PlainFrom, Declaration, DeclarationKeywords,
         Brackets
    <3>. QED
      BY <3>1 DEF Fits
  <2>4. CASE tok \in DeclarationKeywords
    <3>1. Declaration = <<Advance>> \o KeywordDeclaration /\ tok \notin Brackets
      BY <2>4 DEF Declaration, DeclarationKeywords, Brackets
    <3>2. \E x \in Plain : KeywordDeclaration = <<x>>
      <4>1. \E g \in {"ParseEnumDecl", "ParseStructDecl", "ParseModuleDeclaration",
                     "ParseWorldDeclaration", "ParseContextDeclaration",
                     "ParseMacroDeclaration", "ParseEnvironmentDeclaration",
                     "ParseUsing", "ParseSysDecl"} : KeywordDeclaration = <<Call(g)>>
        BY <2>4 DEF DeclarationKeywords, KeywordDeclaration
      <4>. QED
        BY <4>1, PlainSymbols
    <3>3. \A x \in Plain : Ahead(<<Advance>> \o <<x>>)
      BY DEF Ahead, PlainFrom
    <3>4. Ahead(Declaration)
      BY <3>1, <3>2, <3>3
    <3>. QED
      BY <3>1, <3>4 DEF Fits
  <2>5. CASE tok = "nao"
    BY <2>5 DEF Fits
  <2>6. CASE /\ tok \notin DeclarationKeywords
             /\ tok \notin {"fn", "compiletime", "concept", "reactive", "with", "nao"}
             /\ ~(tok = "unsafe" /\ next = "fn")
    <3>1. PlainFrom(Declaration, 1)
      BY <2>6, PlainSymbols DEF PlainFrom, Declaration
    <3>. QED
      BY <3>1 DEF Fits
  <2>7. \/ tok \in {"fn", "concept", "reactive", "with", "compiletime", "nao"}
        \/ tok \in DeclarationKeywords
        \/ tok = "unsafe" /\ next = "fn"
        \/ /\ tok \notin DeclarationKeywords
           /\ tok \notin {"fn", "compiletime", "concept", "reactive", "with", "nao"}
           /\ ~(tok = "unsafe" /\ next = "fn")
    OBVIOUS
  <2>. QED
    BY <2>1, <2>2, <2>3, <2>4, <2>5, <2>6, <2>7
<1>63. Fits(ParseProgram)
  <2>1. CASE PanicMode
    BY <2>1 DEF Fits
  <2>2. CASE ~PanicMode
    <3>1. PlainFrom(ParseProgram, 1)
      BY <2>2, PlainSymbols DEF PlainFrom, ParseProgram, If
    <3>. QED
      BY <3>1 DEF Fits
  <2>. QED
    BY <2>1, <2>2
<1>. QED
  BY <1>1, <1>2, <1>3, <1>4, <1>5, <1>6, <1>7, <1>8, <1>9, <1>10, <1>11, <1>12,
     <1>13, <1>14, <1>15, <1>16, <1>17, <1>18, <1>19, <1>20, <1>21, <1>22, <1>23,
     <1>24, <1>25, <1>26, <1>27, <1>28, <1>29, <1>30, <1>31, <1>32, <1>33, <1>34,
     <1>35, <1>36, <1>37, <1>38, <1>39, <1>40, <1>41, <1>42, <1>43, <1>44, <1>45,
     <1>46, <1>47, <1>48, <1>49, <1>50, <1>51, <1>52, <1>53, <1>54, <1>55, <1>56,
     <1>57, <1>58, <1>59, <1>60, <1>61, <1>62, <1>63
     DEF Functions, Body


\* An operator is no bracket.
LEMMA ClimbFits ==
    ASSUME NEW min \in Nat
    PROVE  Fits(ParseBinaryFromLeft(min))
<1>. DEFINE p == GetOperatorPrecedence(tok)
<1>1. p \in -1..6 /\ (p >= 0 => tok \notin Brackets)
  BY DEF GetOperatorPrecedence, Brackets
<1>. HIDE DEF p
<1>2. ParseBinaryFromLeft(min) =
          IF p >= min THEN <<Advance>> \o <<Call("ParseUnary"), Climb(p + 1)>>
                               \o <<Make("binary"), Climb(min)>>
                      ELSE <<>>
  BY DEF ParseBinaryFromLeft, If, ParseBinary, p
<1>3. CASE p >= min
  <2>1. p + 1 \in Nat /\ tok \notin Brackets
    BY <1>1, <1>3
  <2>2. Climb(p + 1) \in Plain /\ Climb(min) \in Plain
    BY <2>1, PlainSymbols
  <2>3. Ahead(ParseBinaryFromLeft(min))
    BY <1>2, <1>3, <2>2, PlainSymbols DEF Ahead, PlainFrom
  <2>. QED
    BY <2>1, <2>3 DEF Fits
<1>4. CASE ~(p >= min)
  <2>1. PlainFrom(ParseBinaryFromLeft(min), 1)
    BY <1>2, <1>4 DEF PlainFrom
  <2>. QED
    BY <2>1 DEF Fits
<1>. QED
  BY <1>3, <1>4


(***************************************************************************)
(* The invariant: as long as there is no error, what is on the stack closes*)
(* the brackets that are open.  A nao block may end with the file.         *)
(***************************************************************************)
Leading == Leads(stack, nesting)
BracketsOK ==
    /\ nesting \in Opened
    /\ HasError \/ "nao" \in alphabet \/ Leading

\* What is recorded of a token is a bracket.
LEMMA NestedOpened ==
    ASSUME NEW d \in Opened, NEW t
    PROVE  Bracketed(d, t) \in Opened
<1>1. CASE t \in Brackets
  <2>1. <<t>> \o d \in Opened
    BY <1>1 DEF Opened
  <2>2. d # <<>> => Tail(d) \in Opened
    BY DEF Opened
  <2>. QED
    BY <2>1, <2>2 DEF Bracketed
<1>2. CASE t \notin Brackets
  BY <1>2, BracketedToken
<1>. QED
  BY <1>1, <1>2

\* Every step leaves the brackets, adds the token in sight to them or forgets them;
\* an error is never taken back, and the alphabet stays.
LEMMA StepNesting ==
    ASSUME [Next]_vars, BracketsOK
    PROVE  /\ nesting' \in Opened /\ alphabet' = alphabet
           /\ HasError => HasError'
<1>1. <<>> \in Opened /\ Nested(tok) \in Opened /\ nesting \in Opened
  BY NestedOpened DEF Nested, BracketsOK, Opened
<1>2. nesting' \in {nesting, Nested(tok), <<>>}
  BY DEF Next, vars, Activate, ExpectToken, ParserMatch, MatchComma, Count, NewExpression,
     DoAdvance, ParsingError, DoSynchronise, DoSingle, Keep, Consume, ParserError
<1>3. alphabet' = alphabet
  BY DEF Next, vars, Activate, ExpectToken, ParserMatch, MatchComma, Count, NewExpression,
     DoAdvance, ParsingError, DoSynchronise, DoSingle, Keep, Consume, ParserAdvance
<1>4. HasError => HasError'
  BY DEF Next, vars, parser, Activate, ExpectToken, ParserMatch, MatchComma, Count,
     NewExpression, DoAdvance, ParsingError, DoSynchronise, DoSingle, ParserError
<1>. QED
  BY <1>1, <1>2, <1>3, <1>4

\* A symbol that is done next, and is no token looked at already, is a link.
LEMMA HeadLink ==
    ASSUME StackOK, ~Finished, Leading, nesting \in Opened, Head(stack) \notin {Error, Advance}
    PROVE  \E m \in Opened : /\ <<Head(stack), nesting, m>> \in BracketLinks
                             /\ Walk(BracketLinks, Tail(stack), m, <<>>)
<1>1. stack \in Seq(Symbol) /\ stack # <<>> /\ Head(stack) = stack[1]
  BY DEF StackOK, Finished
<1>2. Walk(BracketLinks, stack, nesting, <<>>)
  BY <1>1 DEF Leading, Leads
<1>3. PICK m : /\ <<Head(stack), nesting, m>> \in BracketLinks
               /\ Walk(BracketLinks, Tail(stack), m, <<>>)
  BY <1>1, <1>2, WalkHead
<1>4. m \in Opened
  BY <1>3 DEF BracketLinks
<1>. QED
  BY <1>3, <1>4

\* The links of the symbols that are neither expected nor called behind a parenthesis.
LEMMA PlainHead ==
    ASSUME NEW x, NEW d, NEW m, <<x, d, m>> \in BracketLinks,
           x.op # "expect", x # Call("ParseCallOrAccess")
    PROVE  x \in Plain /\ m = d
<1>1. \A t : Expect(t).op = "expect"
  BY DEF Expect
<1>. QED
  BY <1>1 DEF BracketLinks

\* Doing a symbol that leaves the brackets alone.
LEMMA PlainDone ==
    ASSUME StackOK, ~Finished, Leading, nesting \in Opened,
           Head(stack).op \notin {"expect", "call", "do"}, Done, nesting' = nesting
    PROVE  Leading'
<1>1. Head(stack) \notin {Error, Advance} /\ Head(stack) # Call("ParseCallOrAccess")
  BY DEF Error, Advance, Do, Call
<1>2. PICK m \in Opened : /\ <<Head(stack), nesting, m>> \in BracketLinks
                          /\ Walk(BracketLinks, Tail(stack), m, <<>>)
  BY <1>1, HeadLink
<1>3. m = nesting
  BY <1>1, <1>2, PlainHead
<1>4. Walk(BracketLinks, stack', nesting', <<>>)
  BY <1>2, <1>3 DEF Done
<1>. QED
  BY <1>4 DEF Leading, Leads

\* A token that is no bracket is not recorded, and one that was looked at is the next.
LEMMA ConsumedPlain ==
    ASSUME ~HasError, Consume, tok \notin Brackets
    PROVE  nesting' = nesting
  BY BracketedToken DEF Consume, Nested

\* Names and what stands between them are no brackets.
LEMMA NoBracket ==
    ASSUME NEW kind \in Expected \cup Matched \cup {"COMMA"}, Is(tok, kind)
    PROVE  tok \notin Brackets
  BY DEF Expected, Matched, Is, Identifiers, Brackets

\* The activation of what fits.
LEMMA ActivateBrackets ==
    ASSUME TokensOK, StackOK, BracketsOK, IInv, ~HasError, "nao" \notin alphabet, Activate
    PROVE  Leading'
<1>1. Leading /\ nesting \in Opened /\ ~PanicMode
  BY DEF BracketsOK, IInv, PanicFollowsError
<1>2. tok # "nao"
  BY DEF TokensOK, tok
<1>3. ~Finished /\ tok' = tok /\ next' = next /\ nesting' = nesting
  BY DEF Activate, Doing, Keep, tok, next
<1>4. Head(stack) \in Symbol /\ Tail(stack) \in Seq(Symbol)
  BY <1>3, NextSymbol
<1>5. Head(stack).op \in {"call", "climb", "nao"}
  BY DEF Activate, Doing
<1>6. Head(stack) \notin {Error, Advance}
  BY <1>5 DEF Error, Advance, Do
<1>7. PICK m \in Opened : /\ <<Head(stack), nesting, m>> \in BracketLinks
                          /\ Walk(BracketLinks, Tail(stack), m, <<>>)
  BY <1>1, <1>3, <1>6, HeadLink
<1>8. ASSUME NEW b \in Seq(Symbol), Fits(b), m = nesting, Replace(b)
      PROVE  Leading'
  <2>1. Leads(b \o Tail(stack), nesting)
    BY <1>1, <1>2, <1>4, <1>7, <1>8, FitsLeads
  <2>. QED
    BY <1>3, <1>8, <2>1 DEF Leading, Leads, Replace
<1>9. CASE Doing("call") /\ Head(stack) # Call("ParseCallOrAccess") /\ Replace(Body(Head(stack).arg))
  <2>1. Head(stack).op = "call" /\ Head(stack).arg \in Functions
    BY <1>4, <1>9 DEF Doing, Symbol, Quiet
  <2>2. Head(stack).arg # "ParseCallOrAccess"
    BY <1>4, <1>9, <2>1 DEF Call, Symbol, Quiet
  <2>3. m = nesting
    BY <1>7, <1>9, <2>1, PlainHead
  <2>4. Fits(Body(Head(stack).arg)) /\ Body(Head(stack).arg) \in Seq(Symbol)
    BY <2>1, <2>2, BodiesFit, Bodies DEF Neutral
  <2>. QED
    BY <1>8, <1>9, <2>3, <2>4
<1>10. CASE Head(stack) = Call("ParseCallOrAccess") /\ Replace(Body(Head(stack).arg))
  <2>1. nesting = <<"LPAREN">> \o m
    <3>1. Call("ParseCallOrAccess") \notin Plain
      BY DEF Plain, Call
    <3>2. \A t : Call("ParseCallOrAccess") # Expect(t)
      BY DEF Call, Expect
    <3>. QED
      BY <1>7, <1>10, <3>1, <3>2 DEF BracketLinks
  <2>2. Head(stack).arg = "ParseCallOrAccess"
    BY <1>10 DEF Call
  <2>3. stack' = ParseCallOrAccess \o Tail(stack)
    BY <1>10, <2>2 DEF Replace, Body
  <2>. DEFINE b == ParseCallOrAccess
  <2>4. /\ b \in Seq(Symbol) /\ Len(b) = 3
        /\ b[1] \in Plain /\ b[2] = Expect("RPAREN") /\ b[3] \in Plain
    BY PlainSymbols, BracketLink, Calls, Tokens DEF ParseCallOrAccess, Symbol
  <2>. HIDE DEF b
  <2>5. "RPAREN" \in Closers /\ Opens["RPAREN"] = "LPAREN"
    BY DEF Closers, Opens
  <2>6. <<b[2], nesting, m>> \in BracketLinks
    BY <2>1, <2>4, <2>5, BracketLink
  <2>7. /\ \A i \in 1..Len(b) : i < 2 => <<b[i], nesting, nesting>> \in BracketLinks
        /\ \A i \in 1..Len(b) : i > 2 => <<b[i], m, m>> \in BracketLinks
    <3>1. \A i \in 1..Len(b) : (i < 2 => i = 1) /\ (i > 2 => i = 3)
      BY <2>4
    <3>. QED
      BY <1>1, <2>4, <3>1, BracketLink
  <2>8. 2 \in 1..Len(b) /\ Len(b) \in Nat
    BY <2>4
  <2>9. Walk(BracketLinks, b, nesting, m)
    BY <2>6, <2>7, <2>8, WalkOnce
  <2>10. Walk(BracketLinks, b \o Tail(stack), nesting, <<>>)
    BY <1>4, <1>7, <2>4, <2>9, WalkJoin
  <2>11. Walk(BracketLinks, stack', nesting', <<>>)
    BY <1>3, <2>3, <2>10 DEF b
  <2>. QED
    BY <2>11 DEF Leading, Leads
<1>11. CASE Doing("climb") /\ Replace(ParseBinaryFromLeft(Head(stack).min))
  <2>1. Head(stack).op = "climb" /\ Head(stack).min \in Nat
    BY <1>4, <1>11 DEF Doing, Symbol, Quiet
  <2>2. m = nesting
    BY <1>7, <2>1, PlainHead DEF Call
  <2>3. ParseBinaryFromLeft(Head(stack).min) \in Seq(Symbol)
    BY <2>1, ClimbBody, QuietNeutral DEF Neutral
  <2>4. Fits(ParseBinaryFromLeft(Head(stack).min))
    BY <2>1, ClimbFits
  <2>. QED
    BY <1>8, <1>11, <2>2, <2>3, <2>4
<1>12. CASE Doing("nao")
  <2>1. Head(stack).op = "nao"
    BY <1>12 DEF Doing
  <2>2. Head(stack) \in Plain
    BY <1>7, <2>1, PlainHead DEF Call
  <2>. QED
    BY <2>1, <2>2 DEF Plain
<1>13. Doing("call") => Head(stack).op = "call"
  BY DEF Doing
<1>. QED
  BY <1>9, <1>10, <1>11, <1>12 DEF Activate

\* The token that is expected: its brackets are the symbol's.
LEMMA ExpectBrackets ==
    ASSUME StackOK, BracketsOK, IInv, ~HasError, "nao" \notin alphabet, ExpectToken, ~HasError'
    PROVE  Leading'
<1>1. Leading /\ nesting \in Opened /\ ~PanicMode
  BY DEF BracketsOK, IInv, PanicFollowsError
<1>2. ~Finished /\ Head(stack).op = "expect" /\ stack' = Tail(stack)
  BY DEF ExpectToken, Doing, Done
<1>3. Head(stack) \notin {Error, Advance}
  BY <1>2 DEF Error, Advance, Do
<1>4. PICK m \in Opened : /\ <<Head(stack), nesting, m>> \in BracketLinks
                          /\ Walk(BracketLinks, Tail(stack), m, <<>>)
  BY <1>1, <1>2, <1>3, HeadLink
<1>5. Is(tok, Head(stack).arg) /\ nesting' = Bracketed(nesting, tok)
  BY <1>1 DEF ExpectToken, ParserError, Consume, Nested
<1>6. nesting' = m
  <2>0. \A t : Expect(t).arg = t
    BY DEF Expect
  <2>1. CASE Head(stack) \in Plain
    <3>1. m = nesting
      <4>1. \A t \in Brackets : Expect(t) \notin Plain
        BY DEF Expect, Plain, Expected, Brackets
      <4>2. Head(stack) # Call("ParseCallOrAccess")
        BY <1>2 DEF Call
      <4>. QED
        BY <1>4, <2>1, <4>1, <4>2 DEF BracketLinks, Openers, Closers, Brackets
    <3>2. Head(stack).arg \in Expected
      BY <1>2, <2>1 DEF Plain
    <3>3. tok \notin Brackets
      BY <1>5, <3>2, NoBracket
    <3>. QED
      BY <1>5, <3>1, <3>3, BracketedToken
  <2>2. CASE \E t \in Openers : Head(stack) = Expect(t) /\ m = <<t>> \o nesting
    <3>1. PICK t \in Openers : Head(stack) = Expect(t) /\ m = <<t>> \o nesting
      BY <2>2
    <3>2. tok = t
      BY <1>5, <2>0, <3>1 DEF Is, Openers
    <3>. QED
      BY <1>5, <3>1, <3>2, BracketedToken
  <2>3. CASE \E t \in Closers : Head(stack) = Expect(t) /\ nesting = <<Opens[t]>> \o m
    <3>1. PICK t \in Closers : Head(stack) = Expect(t) /\ nesting = <<Opens[t]>> \o m
      BY <2>3
    <3>2. tok = t
      BY <1>5, <2>0, <3>1 DEF Is, Closers
    <3>3. nesting # <<>> /\ Head(nesting) = Opens[t] /\ Tail(nesting) = m
      <4>1. m \in Seq(Brackets)
        BY DEF Opened
      <4>2. Opens[t] \in Brackets
        BY DEF Opens, Closers, Brackets
      <4>. QED
        BY <3>1, <4>1, <4>2
    <3>4. t \in DOMAIN Opens /\ t \notin {"LBRACE", "LPAREN", "LBRACKET"}
      BY DEF Opens, Closers
    <3>. QED
      BY <1>5, <3>2, <3>3, <3>4 DEF Bracketed
  <2>4. Head(stack) # Call("ParseCallOrAccess")
    BY <1>2 DEF Call
  <2>. QED
    BY <1>4, <2>1, <2>2, <2>3, <2>4 DEF BracketLinks
<1>7. Walk(BracketLinks, stack', nesting', <<>>)
  BY <1>2, <1>4, <1>6
<1>. QED
  BY <1>7 DEF Leading, Leads

\* The tokens that are looked at and consumed.
LEMMA AdvanceBrackets ==
    ASSUME StackOK, BracketsOK, ~HasError, "nao" \notin alphabet, DoAdvance
    PROVE  Leading'
<1>1. Leading /\ nesting \in Opened
  BY DEF BracketsOK
<1>2. ~Finished /\ Head(stack) \in {Advance, Skip} /\ stack' = Tail(stack)
  BY DEF DoAdvance, Doing, Done
<1>3. stack \in Seq(Symbol) /\ stack # <<>> /\ Head(stack) = stack[1] /\ Len(stack) >= 1
  BY <1>2 DEF StackOK, Finished
<1>4. Advance # Error /\ Advance # Skip /\ Skip # Error
  BY DEF Advance, Error, Skip, Do
<1>5. ASSUME Walk(BracketLinks, stack, nesting, <<>>)
      PROVE  FALSE
  <2>1. PICK m : <<Head(stack), nesting, m>> \in BracketLinks
    BY <1>3, <1>5, WalkHead
  <2>2. Head(stack).op = "do"
    BY <1>2 DEF Advance, Skip, Do
  <2>3. Head(stack) \in Plain
    BY <2>1, <2>2, PlainHead DEF Call
  <2>. QED
    BY <1>2, <2>3 DEF Plain, Advance, Skip, Do
<1>6. CASE stack[1] = Advance /\ Walk(BracketLinks, Tail(stack), Bracketed(nesting, tok), <<>>)
  <2>1. nesting' = Bracketed(nesting, tok)
    BY <1>3, <1>4, <1>6 DEF DoAdvance, Nested
  <2>2. Walk(BracketLinks, stack', nesting', <<>>)
    BY <1>2, <1>6, <2>1
  <2>. QED
    BY <2>2 DEF Leading, Leads
<1>7. CASE /\ Len(stack) >= 2 /\ stack[1] = Advance /\ stack[2] = Advance
           /\ tok \notin Brackets /\ next \notin Brackets
           /\ Walk(BracketLinks, Tail(Tail(stack)), nesting, <<>>)
  <2>1. nesting' = nesting
    BY <1>3, <1>4, <1>7, BracketedToken DEF DoAdvance, Nested
  <2>2. tok' = next
    <3>1. \E t : window' = <<next, third, t>>
      BY DEF DoAdvance, ParserAdvance
    <3>. QED
      BY <3>1 DEF tok
  <2>3. Bracketed(nesting, next) = nesting
    BY <1>7, BracketedToken
  <2>4. Len(Tail(stack)) >= 1 /\ Tail(stack)[1] = Advance
    <3>1. Len(Tail(stack)) = Len(stack) - 1 /\ Len(stack) \in Nat
      BY <1>3
    <3>2. 1 \in 1..Len(Tail(stack)) /\ Tail(stack)[1] = stack[1 + 1]
      BY <1>3, <1>7, <3>1, TailSymbols
    <3>. QED
      BY <1>7, <3>1, <3>2
  <2>5. Walk(BracketLinks, Tail(stack'), Bracketed(nesting', tok'), <<>>)
    BY <1>2, <1>7, <2>1, <2>2, <2>3
  <2>6. Len(stack') >= 1 /\ stack'[1] = Advance
    BY <1>2, <2>4
  <2>. QED
    BY <2>5, <2>6 DEF Leading, Leads
<1>. QED
  BY <1>1, <1>2, <1>3, <1>4, <1>5, <1>6, <1>7 DEF Leading, Leads

\* Matching a token, or a comma in front of the loop's next round.
LEMMA MatchBrackets ==
    ASSUME StackOK, BracketsOK, ~HasError, "nao" \notin alphabet, ParserMatch \/ MatchComma
    PROVE  Leading'
<1>1. Leading /\ nesting \in Opened
  BY DEF BracketsOK
<1>2. ~Finished /\ Head(stack).op \in {"match", "comma"}
  BY DEF ParserMatch, MatchComma, Doing
<1>3. Head(stack) \in Symbol /\ Tail(stack) \in Seq(Symbol)
  BY <1>2, NextSymbol
<1>4. nesting' = nesting
  <2>1. CASE ParserMatch
    <3>1. Head(stack).arg \in Matched
      BY <1>3, <2>1 DEF ParserMatch, Doing, Symbol, Quiet
    <3>2. Is(tok, Head(stack).arg) => tok \notin Brackets
      BY <3>1, NoBracket
    <3>. QED
      BY <2>1, <3>2, ConsumedPlain DEF ParserMatch, Keep
  <2>2. CASE MatchComma
    <3>1. tok = "COMMA" => tok \notin Brackets
      BY DEF Brackets
    <3>. QED
      BY <2>2, <3>1, ConsumedPlain DEF MatchComma, Keep
  <2>. QED
    BY <2>1, <2>2
<1>5. CASE Done
  BY <1>1, <1>2, <1>4, <1>5, PlainDone
<1>6. CASE MatchComma /\ Replace(<<Call(Head(stack).arg)>>)
  <2>1. Head(stack) \notin {Error, Advance} /\ Head(stack) # Call("ParseCallOrAccess")
    BY <1>2 DEF Error, Advance, Do, Call
  <2>2. PICK m \in Opened : /\ <<Head(stack), nesting, m>> \in BracketLinks
                            /\ Walk(BracketLinks, Tail(stack), m, <<>>)
    BY <1>1, <1>2, <2>1, HeadLink
  <2>3. Head(stack) \in Plain /\ m = nesting
    BY <1>2, <2>1, <2>2, PlainHead
  <2>4. Head(stack).arg \in Functions \ {"ParseCallOrAccess"}
    BY <1>6, <2>3 DEF MatchComma, Doing, Plain
  <2>. DEFINE x == Call(Head(stack).arg)
  <2>5. x \in Plain
    BY <2>4 DEF Plain, Call
  <2>6. x \in Symbol /\ <<x, nesting, nesting>> \in BracketLinks
    BY <1>1, <2>5, BracketLink
  <2>7. stack' = <<x>> \o Tail(stack)
    BY <1>6 DEF Replace
  <2>. HIDE DEF x
  <2>8. Walk(BracketLinks, <<x>>, nesting, nesting) /\ <<x>> \in Seq(Symbol)
    BY <2>6, WalkOne
  <2>9. Walk(BracketLinks, <<x>> \o Tail(stack), nesting, <<>>)
    BY <1>3, <2>2, <2>3, <2>8, WalkJoin
  <2>10. Walk(BracketLinks, stack', nesting', <<>>)
    BY <1>4, <2>7, <2>9
  <2>. QED
    BY <2>10 DEF Leading, Leads
<1>. QED
  BY <1>5, <1>6 DEF ParserMatch, MatchComma

\* Without an error no symbol of the recovery is done.
LEMMA SingleBrackets ==
    ASSUME StackOK, BracketsOK, ~HasError, "nao" \notin alphabet, DoSynchronise \/ DoSingle
    PROVE  Leading'
<1>1. Leading /\ nesting \in Opened
  BY DEF BracketsOK
<1>2. ~Finished /\ Head(stack) \in {Synchronise, Single}
  BY DEF DoSynchronise, DoSingle, Doing
<1>3. /\ Head(stack) \notin {Error, Advance} /\ Head(stack) # Call("ParseCallOrAccess")
      /\ Head(stack).op # "expect" /\ Synchronise # Single
  BY <1>2 DEF Synchronise, Single, Error, Advance, Do, Call
<1>4. PICK m \in Opened : /\ <<Head(stack), nesting, m>> \in BracketLinks
                          /\ Walk(BracketLinks, Tail(stack), m, <<>>)
  BY <1>1, <1>2, <1>3, HeadLink
<1>5. Head(stack) \in Plain /\ m = nesting
  BY <1>3, <1>4, PlainHead
<1>6. Head(stack) = Single
  BY <1>2, <1>5 DEF Plain, Synchronise, Do
<1>7. stack' = <<Call("ParseStatement")>> \o Tail(stack) /\ nesting' = nesting
  BY <1>3, <1>6 DEF DoSynchronise, DoSingle, Replace, Keep
<1>. DEFINE x == Call("ParseStatement")
<1>8. x \in Plain
  BY PlainSymbols
<1>9. x \in Symbol /\ <<x, nesting, nesting>> \in BracketLinks
  BY <1>1, <1>8, BracketLink
<1>. HIDE DEF x
<1>10. Walk(BracketLinks, <<x>>, nesting, nesting) /\ <<x>> \in Seq(Symbol)
  BY <1>9, WalkOne
<1>11. Tail(stack) \in Seq(Symbol)
  BY <1>2, NextSymbol
<1>12. Walk(BracketLinks, <<x>> \o Tail(stack), nesting, <<>>)
  BY <1>4, <1>5, <1>10, <1>11, WalkJoin
<1>13. Walk(BracketLinks, stack', nesting', <<>>)
  BY <1>7, <1>12 DEF x
<1>. QED
  BY <1>13 DEF Leading, Leads

\* The steps, one action after the other: an error ends the matter.
LEMMA StepBrackets ==
    ASSUME TokensOK, StackOK, IInv, BracketsOK, [Next]_vars
    PROVE  BracketsOK'
<1>1. nesting' \in Opened /\ alphabet' = alphabet /\ (HasError => HasError')
  BY StepNesting
<1>2. ASSUME ~HasError', "nao" \notin alphabet'
      PROVE  Leading'
  <2>1. ~HasError /\ "nao" \notin alphabet /\ Leading /\ ~PanicMode /\ nesting \in Opened
    BY <1>1, <1>2 DEF BracketsOK, IInv, PanicFollowsError
  <2>2. CASE Activate
    BY <2>1, <2>2, ActivateBrackets
  <2>3. CASE ExpectToken
    BY <1>2, <2>1, <2>3, ExpectBrackets
  <2>4. CASE ParserMatch \/ MatchComma
    BY <2>1, <2>4, MatchBrackets
  <2>5. CASE Count \/ NewExpression
    BY <2>1, <2>5, PlainDone DEF Count, NewExpression, Doing, Keep
  <2>6. CASE DoAdvance
    BY <2>1, <2>6, AdvanceBrackets
  <2>7. CASE ParsingError
    BY <1>2, <2>1, <2>7 DEF ParsingError, ParserError
  <2>8. CASE DoSynchronise \/ DoSingle
    BY <2>1, <2>8, SingleBrackets
  <2>9. CASE UNCHANGED vars
    BY <2>1, <2>9 DEF vars, Leading, Leads, tok, next
  <2>. QED
    BY <2>2, <2>3, <2>4, <2>5, <2>6, <2>7, <2>8, <2>9 DEF Next
<1>. QED
  BY <1>1, <1>2 DEF BracketsOK

\* To begin with nothing is open and nothing is left to close.
LEMMA InitBrackets == Init => BracketsOK
<1>. SUFFICES ASSUME Init PROVE BracketsOK
  OBVIOUS
<1>1. nesting = <<>> /\ stack = <<Call("ParseProgram")>>
  BY DEF Init
<1>2. nesting \in Opened
  BY <1>1 DEF Opened
<1>3. Call("ParseProgram") \in Plain
  BY PlainSymbols
<1>4. <<Call("ParseProgram"), nesting, nesting>> \in BracketLinks
  BY <1>2, <1>3, BracketLink
<1>5. Walk(BracketLinks, stack, nesting, <<>>)
  BY <1>1, <1>4, WalkOne
<1>. QED
  BY <1>2, <1>5 DEF BracketsOK, Leading, Leads

\* A program without a nao block that is parsed without an error is properly bracketed,
\* however long it is and however deep its brackets nest.
THEOREM AcceptedIsBracketed == Spec => []AcceptedNests
<1>1. Init => TokensOK /\ StackOK /\ IInv /\ BracketsOK
  BY InitMachine, InitIInv, InitBrackets
<1>2. TokensOK /\ StackOK /\ IInv /\ BracketsOK /\ [Next]_vars
          => TokensOK' /\ StackOK' /\ IInv' /\ BracketsOK'
  BY StepMachine, StepIInv, StepBrackets
<1>3. BracketsOK => AcceptedNests
  <2>. SUFFICES ASSUME BracketsOK, stack = <<>>, ~HasError, "nao" \notin alphabet
                PROVE  nesting = <<>>
    BY DEF AcceptedNests, Finished
  <2>1. Leads(<<>>, nesting)
    BY DEF BracketsOK, Leading
  <2>2. Walk(BracketLinks, <<>>, nesting, <<>>)
    BY <2>1 DEF Leads
  <2>. QED
    BY <2>2, WalkOver
<1>. QED
  BY <1>1, <1>2, <1>3, PTL DEF Spec

(***************************************************************************)
(* The C stack.  A function that is called before a token was consumed is  *)
(* of a lower rank than its caller, unless its caller has nothing else to  *)
(* do than to call it: the ranks bound how deep calls nest on one token.   *)
(***************************************************************************)
Rank(f) ==
    CASE f \in {"ParseType", "ArraySize", "ParsePrimary", "Postfix", "Annotation",
                "Initializer", "ParseModifiers", "Else", "Step", "Guard", "Assignment",
                "Access", "Clauses", "ReturnType", "Variants", "Members", "Extends",
                "MacroParameters", "Path"} -> 1
      [] f \in {"ParseOwnership", "ParsePostfix", "ParseUnary",
                "ParseVariableDeclaration", "Parameters", "ParseEnumDecl",
                "ParseStructDecl", "ParseUsing"} -> 2
      [] f \in {"ParseExpression", "Pattern", "ParseSysDecl"} -> 3
      [] f \in {"Fields", "Arguments", "Elements", "ParseConditionBlock",
                "ParseReturnStatement", "Tuple", "ParseExpressionStatement",
                "ParseStatement", "Declaration"} -> 4
      [] f \in {"ParseCallOrAccess", "ParseArrayLiteral", "Statements", "Items",
                "ModuleItems", "ParseProgram"} -> 5
      [] f \in {"ParseBlock", "Branch", "ArmBody", "ParsePlainBlock", "ParseNamedBlock",
                "ParseWorldDeclaration", "ParseContextDeclaration",
                "ParseModuleDeclaration", "ParseEnvironmentDeclaration",
                "EnvironmentBody"} -> 6
      [] f \in {"ParseIfStatement", "ParseWhileStatement", "ParseForStatement", "Arms",
                "ParseUnsafeBlock", "ParseTrustedBlock", "ParseSubprogram",
                "ParseMacroDeclaration"} -> 7
      [] OTHER -> 8

\* The rank of what a symbol calls, before anything was consumed.
Level(s) ==
    CASE s.op \in {"call", "comma"} -> Rank(s.arg)
      [] s = Single -> Rank("ParseStatement")
      [] OTHER -> 0

\* s consumes the token in sight, by itself or as the first that its body does.
Consumes(s) ==
    /\ tok # "EOF"
    /\ \/ s \in {Advance, Skip}
       \/ tok = "LBRACE" /\ s \in {Expect("LBRACE"), Call("ParseArrayLiteral")}
       \/ s = Call("ParseOwnership") /\ tok \in OwnershipOperators /\ (tok = "!" => next = "$")

\* b may stand in the place of a function of rank n.
Descends(n, b) ==
    \A j \in 1..Len(b) : Level(b[j]) <= n /\ (j < Len(b) => Level(b[j]) < n)
Replaces(n, b) == Descends(n, b) \/ (Len(b) >= 1 /\ Consumes(b[1]))

\* How many tokens there may still be.
Sighted(i) == IF window[i] = "EOF" THEN 0 ELSE 1
InSight == left + Sighted(1) + Sighted(2) + Sighted(3)

\* The same once the symbol that is done next has consumed its token.
Spare == IF ~Finished /\ Consumes(Head(stack)) THEN InSight - 1 ELSE InSight

\* Of a stream of at most `most' tokens the stack grows by a bounded number of symbols
\* for each token consumed.
Growth == 14
PerToken == 9 * Growth
Height(i) == Len(stack) - i + 1
Bounded(most) ==
    /\ InSight <= most
    /\ \A i \in 1..Len(stack) :
           Height(i) <= Growth * (8 - Level(stack[i])) + PerToken * (most - Spare)

(***************************************************************************)
(* The ranks of the symbols.                                               *)
(***************************************************************************)
\* There are eight ranks.
LEMMA RankType ==
    ASSUME NEW f
    PROVE  Rank(f) \in 1..8
BY DEF Rank

\* The level of a call is the rank of what it calls.
LEMMA CallLevel == \A f : Level(Call(f)) = Rank(f) /\ Level(Comma(f)) = Rank(f)
<1>1. \A f : /\ Call(f).op = "call" /\ Call(f).arg = f /\ Comma(f).op = "comma" /\ Comma(f).arg = f
             /\ Call(f) # Single /\ Comma(f) # Single
  BY DEF Call, Comma, Single, Do
<1>. QED
  BY <1>1 DEF Level

\* A symbol's level is one of nine.
LEMMA LevelType == \A s : Level(s) \in 0..8
BY RankType DEF Level

\* The ranks by name.
LEMMA Ranks ==
    /\ Rank("ParseType") = 1
    /\ Rank("ArraySize") = 1
    /\ Rank("ParsePrimary") = 1
    /\ Rank("ParseOwnership") = 2
    /\ Rank("ParsePostfix") = 2
    /\ Rank("Postfix") = 1
    /\ Rank("Fields") = 4
    /\ Rank("ParseCallOrAccess") = 5
    /\ Rank("Arguments") = 4
    /\ Rank("ParseUnary") = 2
    /\ Rank("ParseExpression") = 3
    /\ Rank("ParseArrayLiteral") = 5
    /\ Rank("Elements") = 4
    /\ Rank("Annotation") = 1
    /\ Rank("Initializer") = 1
    /\ Rank("ParseVariableDeclaration") = 2
    /\ Rank("ParseModifiers") = 1
    /\ Rank("ParseBlock") = 6
    /\ Rank("Statements") = 5
    /\ Rank("ParseConditionBlock") = 4
    /\ Rank("ParseIfStatement") = 7
    /\ Rank("Branch") = 6
    /\ Rank("Else") = 1
    /\ Rank("ParseWhileStatement") = 7
    /\ Rank("ParseForStatement") = 7
    /\ Rank("Step") = 1
    /\ Rank("ParseReturnStatement") = 4
    /\ Rank("ParseMatchStatement") = 8
    /\ Rank("Arms") = 7
    /\ Rank("Pattern") = 3
    /\ Rank("Tuple") = 4
    /\ Rank("Guard") = 1
    /\ Rank("ArmBody") = 6
    /\ Rank("ParseUnsafeBlock") = 7
    /\ Rank("ParseTrustedBlock") = 7
    /\ Rank("ParsePlainBlock") = 6
    /\ Rank("ParseNamedBlock") = 6
    /\ Rank("Assignment") = 1
    /\ Rank("ParseExpressionStatement") = 4
    /\ Rank("Access") = 1
    /\ Rank("ParseStatement") = 4
    /\ Rank("ParseSubprogram") = 7
    /\ Rank("Parameters") = 2
    /\ Rank("Clauses") = 1
    /\ Rank("ReturnType") = 1
    /\ Rank("ParseEnumDecl") = 2
    /\ Rank("Variants") = 1
    /\ Rank("ParseStructDecl") = 2
    /\ Rank("Members") = 1
    /\ Rank("Items") = 5
    /\ Rank("ParseWorldDeclaration") = 6
    /\ Rank("Extends") = 1
    /\ Rank("ParseContextDeclaration") = 6
    /\ Rank("ParseModuleDeclaration") = 6
    /\ Rank("ModuleItems") = 5
    /\ Rank("ParseMacroDeclaration") = 7
    /\ Rank("MacroParameters") = 1
    /\ Rank("ParseEnvironmentDeclaration") = 6
    /\ Rank("EnvironmentBody") = 6
    /\ Rank("ParseUsing") = 2
    /\ Rank("Path") = 1
    /\ Rank("ParseSysDecl") = 3
    /\ Rank("Declaration") = 4
    /\ Rank("ParseProgram") = 5
<1>1. Rank("ParseType") = 1
  BY DEF Rank
<1>2. Rank("ArraySize") = 1
  BY DEF Rank
<1>3. Rank("ParsePrimary") = 1
  BY DEF Rank
<1>4. Rank("ParseOwnership") = 2
  BY DEF Rank
<1>5. Rank("ParsePostfix") = 2
  BY DEF Rank
<1>6. Rank("Postfix") = 1
  BY DEF Rank
<1>7. Rank("Fields") = 4
  BY DEF Rank
<1>8. Rank("ParseCallOrAccess") = 5
  BY DEF Rank
<1>9. Rank("Arguments") = 4
  BY DEF Rank
<1>10. Rank("ParseUnary") = 2
  BY DEF Rank
<1>11. Rank("ParseExpression") = 3
  BY DEF Rank
<1>12. Rank("ParseArrayLiteral") = 5
  BY DEF Rank
<1>13. Rank("Elements") = 4
  BY DEF Rank
<1>14. Rank("Annotation") = 1
  BY DEF Rank
<1>15. Rank("Initializer") = 1
  BY DEF Rank
<1>16. Rank("ParseVariableDeclaration") = 2
  BY DEF Rank
<1>17. Rank("ParseModifiers") = 1
  BY DEF Rank
<1>18. Rank("ParseBlock") = 6
  BY DEF Rank
<1>19. Rank("Statements") = 5
  BY DEF Rank
<1>20. Rank("ParseConditionBlock") = 4
  BY DEF Rank
<1>21. Rank("ParseIfStatement") = 7
  BY DEF Rank
<1>22. Rank("Branch") = 6
  BY DEF Rank
<1>23. Rank("Else") = 1
  BY DEF Rank
<1>24. Rank("ParseWhileStatement") = 7
  BY DEF Rank
<1>25. Rank("ParseForStatement") = 7
  BY DEF Rank
<1>26. Rank("Step") = 1
  BY DEF Rank
<1>27. Rank("ParseReturnStatement") = 4
  BY DEF Rank
<1>28. Rank("ParseMatchStatement") = 8
  BY DEF Rank
<1>29. Rank("Arms") = 7
  BY DEF Rank
<1>30. Rank("Pattern") = 3
  BY DEF Rank
<1>31. Rank("Tuple") = 4
  BY DEF Rank
<1>32. Rank("Guard") = 1
  BY DEF Rank
<1>33. Rank("ArmBody") = 6
  BY DEF Rank
<1>34. Rank("ParseUnsafeBlock") = 7
  BY DEF Rank
<1>35. Rank("ParseTrustedBlock") = 7
  BY DEF Rank
<1>36. Rank("ParsePlainBlock") = 6
  BY DEF Rank
<1>37. Rank("ParseNamedBlock") = 6
  BY DEF Rank
<1>38. Rank("Assignment") = 1
  BY DEF Rank
<1>39. Rank("ParseExpressionStatement") = 4
  BY DEF Rank
<1>40. Rank("Access") = 1
  BY DEF Rank
<1>41. Rank("ParseStatement") = 4
  BY DEF Rank
<1>42. Rank("ParseSubprogram") = 7
  BY DEF Rank
<1>43. Rank("Parameters") = 2
  BY DEF Rank
<1>44. Rank("Clauses") = 1
  BY DEF Rank
<1>45. Rank("ReturnType") = 1
  BY DEF Rank
<1>46. Rank("ParseEnumDecl") = 2
  BY DEF Rank
<1>47. Rank("Variants") = 1
  BY DEF Rank
<1>48. Rank("ParseStructDecl") = 2
  BY DEF Rank
<1>49. Rank("Members") = 1
  BY DEF Rank
<1>50. Rank("Items") = 5
  BY DEF Rank
<1>51. Rank("ParseWorldDeclaration") = 6
  BY DEF Rank
<1>52. Rank("Extends") = 1
  BY DEF Rank
<1>53. Rank("ParseContextDeclaration") = 6
  BY DEF Rank
<1>54. Rank("ParseModuleDeclaration") = 6
  BY DEF Rank
<1>55. Rank("ModuleItems") = 5
  BY DEF Rank
<1>56. Rank("ParseMacroDeclaration") = 7
  BY DEF Rank
<1>57. Rank("MacroParameters") = 1
  BY DEF Rank
<1>58. Rank("ParseEnvironmentDeclaration") = 6
  BY DEF Rank
<1>59. Rank("EnvironmentBody") = 6
  BY DEF Rank
<1>60. Rank("ParseUsing") = 2
  BY DEF Rank
<1>61. Rank("Path") = 1
  BY DEF Rank
<1>62. Rank("ParseSysDecl") = 3
  BY DEF Rank
<1>63. Rank("Declaration") = 4
  BY DEF Rank
<1>64. Rank("ParseProgram") = 5
  BY DEF Rank
<1>. QED
  BY <1>1, <1>2, <1>3, <1>4, <1>5, <1>6, <1>7, <1>8, <1>9, <1>10, <1>11, <1>12, <1>13, <1>14, <1>15, <1>16, <1>17, <1>18, <1>19, <1>20, <1>21, <1>22, <1>23, <1>24, <1>25, <1>26, <1>27, <1>28, <1>29, <1>30, <1>31, <1>32, <1>33, <1>34, <1>35, <1>36, <1>37, <1>38, <1>39, <1>40, <1>41, <1>42, <1>43, <1>44, <1>45, <1>46, <1>47, <1>48, <1>49, <1>50, <1>51, <1>52, <1>53, <1>54, <1>55, <1>56, <1>57, <1>58, <1>59, <1>60, <1>61, <1>62, <1>63, <1>64

\* The levels by name.
LEMMA Levels ==
    /\ Level(Call("ParseType")) = 1
    /\ Level(Call("ArraySize")) = 1
    /\ Level(Call("ParsePrimary")) = 1
    /\ Level(Call("ParseOwnership")) = 2
    /\ Level(Call("ParsePostfix")) = 2
    /\ Level(Call("Postfix")) = 1
    /\ Level(Call("Fields")) = 4
    /\ Level(Call("ParseCallOrAccess")) = 5
    /\ Level(Call("Arguments")) = 4
    /\ Level(Call("ParseUnary")) = 2
    /\ Level(Call("ParseExpression")) = 3
    /\ Level(Call("ParseArrayLiteral")) = 5
    /\ Level(Call("Elements")) = 4
    /\ Level(Call("Annotation")) = 1
    /\ Level(Call("Initializer")) = 1
    /\ Level(Call("ParseVariableDeclaration")) = 2
    /\ Level(Call("ParseModifiers")) = 1
    /\ Level(Call("ParseBlock")) = 6
    /\ Level(Call("Statements")) = 5
    /\ Level(Call("ParseConditionBlock")) = 4
    /\ Level(Call("ParseIfStatement")) = 7
    /\ Level(Call("Branch")) = 6
    /\ Level(Call("Else")) = 1
    /\ Level(Call("ParseWhileStatement")) = 7
    /\ Level(Call("ParseForStatement")) = 7
    /\ Level(Call("Step")) = 1
    /\ Level(Call("ParseReturnStatement")) = 4
    /\ Level(Call("ParseMatchStatement")) = 8
    /\ Level(Call("Arms")) = 7
    /\ Level(Call("Pattern")) = 3
    /\ Level(Call("Tuple")) = 4
    /\ Level(Call("Guard")) = 1
    /\ Level(Call("ArmBody")) = 6
    /\ Level(Call("ParseUnsafeBlock")) = 7
    /\ Level(Call("ParseTrustedBlock")) = 7
    /\ Level(Call("ParsePlainBlock")) = 6
    /\ Level(Call("ParseNamedBlock")) = 6
    /\ Level(Call("Assignment")) = 1
    /\ Level(Call("ParseExpressionStatement")) = 4
    /\ Level(Call("Access")) = 1
    /\ Level(Call("ParseStatement")) = 4
    /\ Level(Call("ParseSubprogram")) = 7
    /\ Level(Call("Parameters")) = 2
    /\ Level(Call("Clauses")) = 1
    /\ Level(Call("ReturnType")) = 1
    /\ Level(Call("ParseEnumDecl")) = 2
    /\ Level(Call("Variants")) = 1
    /\ Level(Call("ParseStructDecl")) = 2
    /\ Level(Call("Members")) = 1
    /\ Level(Call("Items")) = 5
    /\ Level(Call("ParseWorldDeclaration")) = 6
    /\ Level(Call("Extends")) = 1
    /\ Level(Call("ParseContextDeclaration")) = 6
    /\ Level(Call("ParseModuleDeclaration")) = 6
    /\ Level(Call("ModuleItems")) = 5
    /\ Level(Call("ParseMacroDeclaration")) = 7
    /\ Level(Call("MacroParameters")) = 1
    /\ Level(Call("ParseEnvironmentDeclaration")) = 6
    /\ Level(Call("EnvironmentBody")) = 6
    /\ Level(Call("ParseUsing")) = 2
    /\ Level(Call("Path")) = 1
    /\ Level(Call("ParseSysDecl")) = 3
    /\ Level(Call("Declaration")) = 4
    /\ Level(Call("ParseProgram")) = 5
    /\ Level(Comma("Arguments")) = 4
    /\ Level(Comma("Elements")) = 4
    /\ Level(Comma("Fields")) = 4
    /\ Level(Comma("MacroParameters")) = 1
    /\ Level(Comma("Parameters")) = 2
    /\ Level(Comma("Tuple")) = 4
BY Ranks, CallLevel

\* What is no call has no level, but for the statement of a branch.
LEMMA NoLevel ==
    /\ \A t : Level(Expect(t)) = 0 /\ Level(Match(t)) = 0 /\ Level(Make(t)) = 0
    /\ \A c : Level(Enter(c)) = 0 /\ Level(Leave(c)) = 0
    /\ \A n : Level(Climb(n)) = 0 /\ Level(Nao(n)) = 0
    /\ Level(Advance) = 0 /\ Level(Skip) = 0 /\ Level(Error) = 0 /\ Level(Synchronise) = 0
    /\ Level(Single) = 4
<1>1. /\ \A t : Level(Expect(t)) = 0 /\ Level(Match(t)) = 0 /\ Level(Make(t)) = 0
      /\ \A c : Level(Enter(c)) = 0 /\ Level(Leave(c)) = 0
  BY DEF Level, Expect, Match, Make, Enter, Leave, Single, Do
<1>2. \A n : Level(Climb(n)) = 0 /\ Level(Nao(n)) = 0
  BY DEF Level, Climb, Nao, Single, Do
<1>3. /\ Level(Advance) = 0 /\ Level(Skip) = 0 /\ Level(Error) = 0 /\ Level(Synchronise) = 0
      /\ Level(Single) = 4
  BY Ranks DEF Level, Advance, Skip, Error, Synchronise, Single, Do
<1>. QED
  BY <1>1, <1>2, <1>3

(***************************************************************************)
(* The bodies again.                                                       *)
(***************************************************************************)
\* These two can begin with a token that they consume and are of rank 2 and 5 still.
LEMMA OwnershipDescends == Descends(Rank("ParseOwnership"), ParseOwnership)
BY Ranks, Levels, NoLevel DEF Descends, ParseOwnership, OwnershipTarget

\* So does that of ParseArrayLiteral, which expects the brace that led to it.
LEMMA ArrayDescends == Descends(Rank("ParseArrayLiteral"), ParseArrayLiteral)
BY Ranks, Levels, NoLevel DEF Descends, ParseArrayLiteral

\* Outside that one recursion a body calls functions of lower ranks, or its first symbol
\* consumes the token in sight.
LEMMA BodiesReplace ==
    ASSUME NEW f \in Functions, ~(f = "ParsePrimary" /\ tok = "!" /\ next # "$")
    PROVE  Replaces(Rank(f), Body(f))
<1>0. f = "ParsePrimary" => ~(tok = "!" /\ next # "$")
  OBVIOUS
<1>1. f = "ParsePrimary" => Replaces(Rank("ParsePrimary"), ParsePrimary)
  <2>. SUFFICES ASSUME f = "ParsePrimary"
                PROVE  Replaces(Rank("ParsePrimary"), ParsePrimary)
    OBVIOUS
  <2>1. CASE tok = "!"
    <3>1. ParsePrimary = <<Call("ParseOwnership")>>
      BY <2>1 DEF ParsePrimary, OwnershipOperators, Literals, Identifiers
    <3>2. Consumes(Call("ParseOwnership"))
      BY <1>0, <2>1 DEF OwnershipOperators, Consumes
    <3>. QED
      BY <3>1, <3>2 DEF Replaces
  <2>2. CASE tok \in OwnershipOperators \ {"!"}
    <3>1. ParsePrimary = <<Call("ParseOwnership")>>
      BY <2>2 DEF ParsePrimary, OwnershipOperators, Literals, Identifiers
    <3>2. Consumes(Call("ParseOwnership"))
      BY <2>2 DEF OwnershipOperators, Consumes
    <3>. QED
      BY <3>1, <3>2 DEF Replaces
  <2>3. CASE tok \notin OwnershipOperators
    BY <2>3, Ranks, Levels, NoLevel DEF Replaces, Descends, Consumes, ParsePrimary, Unexpected,
       OwnershipOperators, Literals, Identifiers
  <2>. QED
    BY <2>1, <2>2, <2>3
<1>2. Replaces(Rank("ParseOwnership"), ParseOwnership)
  BY OwnershipDescends DEF Replaces
<1>3. ASSUME NEW self, Level(self) = 1
      PROVE  Replaces(1, Suffix(self))
  BY <1>3, NoLevel, Levels DEF Replaces, Descends, Consumes, Suffix
<1>4. Replaces(Rank("Postfix"), Postfix)
  <2>1. CASE IsStructInit
    BY <2>1 DEF Replaces, Consumes, Postfix, IsStructInit
  <2>2. CASE ~IsStructInit
    BY <1>3, <2>2, Ranks, Levels DEF Postfix
  <2>. QED
    BY <2>1, <2>2
<1>5. Replaces(Rank("Access"), Access)
  BY <1>3, Ranks, Levels DEF Access
<1>6. Replaces(Rank("ParseStatement"), ParseStatement)
  <2>1. CASE PanicMode
    BY <2>1, Ranks, NoLevel DEF Replaces, Descends, ParseStatement
  <2>2. CASE ~PanicMode /\ tok \in Modifiers
    BY <2>2, Ranks, Levels DEF Replaces, Descends, ParseStatement, Modifiers, StatementKeywords,
       Is, Identifiers
  <2>3. CASE ~PanicMode /\ tok = "type"
    BY <2>3, Ranks, Levels DEF Replaces, Descends, ParseStatement, Modifiers, StatementKeywords,
       Is, Identifiers
  <2>4. CASE ~PanicMode /\ tok = "compiletime"
    <3>1. ParseStatement = ComptimeStatement
      BY <2>4 DEF ParseStatement, Modifiers, StatementKeywords, Is, Identifiers
    <3>2. Len(ComptimeStatement) >= 1 /\ ComptimeStatement[1] = Advance
      BY DEF ComptimeStatement
    <3>. QED
      BY <2>4, <3>1, <3>2 DEF Replaces, Consumes
  <2>5. CASE ~PanicMode /\ tok \in StatementKeywords \ {"compiletime"}
    <3>1. ParseStatement = <<Advance>> \o KeywordStatement /\ tok # "EOF"
      BY <2>5 DEF ParseStatement, Modifiers, StatementKeywords, Is, Identifiers
    <3>2. KeywordStatement = <<>> \/ \E x : KeywordStatement = <<x>>
      BY <2>5 DEF StatementKeywords, KeywordStatement
    <3>3. Len(ParseStatement) >= 1 /\ ParseStatement[1] = Advance
      BY <3>1, <3>2
    <3>. QED
      BY <3>1, <3>3 DEF Replaces, Consumes
  <2>6. CASE ~PanicMode /\ Is(tok, "ident")
    <3>1. ParseStatement = IdentifierStatement /\ tok # "EOF"
      BY <2>6 DEF ParseStatement, Modifiers, StatementKeywords, Is, Identifiers
    <3>2. Len(IdentifierStatement) >= 1 /\ IdentifierStatement[1] = Advance
      BY DEF IdentifierStatement
    <3>. QED
      BY <3>1, <3>2 DEF Replaces, Consumes
  <2>7. CASE /\ ~PanicMode /\ tok \notin Modifiers \cup {"type"} \cup StatementKeywords
             /\ ~Is(tok, "ident")
    BY <2>7, Ranks, Levels DEF Replaces, Descends, ParseStatement, StatementKeywords
  <2>. QED
    BY <2>1, <2>2, <2>3, <2>4, <2>5, <2>6, <2>7
<1>7. Replaces(Rank("Declaration"), Declaration)
  <2>1. CASE tok = "fn"
    <3>1. Declaration = Function
      BY <2>1 DEF Declaration, DeclarationKeywords
    <3>. QED
      BY <2>1, <3>1 DEF Replaces, Consumes, Function
  <2>2. CASE tok \in {"compiletime", "unsafe"} /\ next = "fn"
    <3>1. Declaration = <<Advance>> \o Function
      BY <2>2 DEF Declaration, DeclarationKeywords
    <3>. QED
      BY <2>2, <3>1 DEF Replaces, Consumes, Function
  <2>3. CASE tok \in {"concept", "reactive", "with"} \/ (tok = "compiletime" /\ next # "fn")
    <3>1. Len(Declaration) >= 1 /\ Declaration[1] = Advance
      BY <2>3 DEF Declaration, DeclarationKeywords
    <3>. QED
      BY <2>3, <3>1 DEF Replaces, Consumes
  <2>4. CASE tok \in DeclarationKeywords
    <3>1. Declaration = <<Advance>> \o KeywordDeclaration /\ tok # "EOF"
      BY <2>4 DEF Declaration, DeclarationKeywords
    <3>2. \E x : KeywordDeclaration = <<x>>
      BY <2>4 DEF DeclarationKeywords, KeywordDeclaration
    <3>3. Len(Declaration) >= 1 /\ Declaration[1] = Advance
      BY <3>1, <3>2
    <3>. QED
      BY <3>1, <3>3 DEF Replaces, Consumes
  <2>5. CASE tok = "nao"
    <3>1. Declaration = <<Advance>> \o ParseNaoBlock
      BY <2>5 DEF Declaration, DeclarationKeywords
    <3>2. Len(Declaration) >= 1 /\ Declaration[1] = Advance
      BY <3>1 DEF ParseNaoBlock
    <3>. QED
      BY <2>5, <3>2 DEF Replaces, Consumes
  <2>6. CASE /\ tok \notin DeclarationKeywords
             /\ tok \notin {"fn", "compiletime", "concept", "reactive", "with", "nao"}
             /\ ~(tok = "unsafe" /\ next = "fn")
    BY <2>6, Ranks, Levels DEF Replaces, Descends, Declaration
  <2>7. \/ tok \in {"fn", "concept", "reactive", "with", "nao"} \cup DeclarationKeywords
        \/ tok \in {"compiletime", "unsafe"} /\ next = "fn"
        \/ tok = "compiletime" /\ next # "fn"
        \/ /\ tok \notin DeclarationKeywords
           /\ tok \notin {"fn", "compiletime", "concept", "reactive", "with", "nao"}
           /\ ~(tok = "unsafe" /\ next = "fn")
    OBVIOUS
  <2>. QED
    BY <2>1, <2>2, <2>3, <2>4, <2>5, <2>6, <2>7
<1>8. Replaces(Rank("ParseType"), ParseType)
  BY Ranks, Levels, NoLevel DEF Replaces, Descends, Consumes, ParseType, Is, Identifiers
<1>9. Replaces(Rank("ArraySize"), ArraySize)
  BY Ranks, Levels, NoLevel DEF Replaces, Descends, Consumes, ArraySize, If
<1>10. Replaces(Rank("ParsePostfix"), ParsePostfix)
  BY Ranks, Levels, NoLevel DEF Replaces, Descends, ParsePostfix
<1>11. Replaces(Rank("Fields"), Fields)
  BY Ranks, Levels, NoLevel DEF Replaces, Descends, Consumes, Fields, If, List, AtEnd, Is,
     Identifiers
<1>12. Replaces(Rank("ParseCallOrAccess"), ParseCallOrAccess)
  BY Ranks, Levels, NoLevel DEF Replaces, Descends, ParseCallOrAccess
<1>13. Replaces(Rank("Arguments"), Arguments)
  BY Ranks, Levels, NoLevel DEF Replaces, Descends, Arguments, List, If, AtEnd
<1>14. Replaces(Rank("ParseUnary"), ParseUnary)
  BY Ranks, Levels, NoLevel DEF Replaces, Descends, Consumes, ParseUnary
<1>15. Replaces(Rank("ParseExpression"), ParseExpression)
  BY Ranks, Levels, NoLevel DEF Replaces, Descends, ParseExpression, ParseBinary
<1>16. Replaces(Rank("ParseArrayLiteral"), ParseArrayLiteral)
  BY Ranks, Levels, NoLevel DEF Replaces, Descends, ParseArrayLiteral
<1>17. Replaces(Rank("Elements"), Elements)
  BY Ranks, Levels, NoLevel DEF Replaces, Descends, Elements, List, If, AtEnd
<1>18. Replaces(Rank("Annotation"), Annotation)
  BY Ranks, Levels, NoLevel DEF Replaces, Descends, Consumes, Annotation, If
<1>19. Replaces(Rank("Initializer"), Initializer)
  BY Ranks, Levels, NoLevel DEF Replaces, Descends, Consumes, Initializer, If
<1>20. Replaces(Rank("ParseVariableDeclaration"), ParseVariableDeclaration)
  BY Ranks, Levels, NoLevel DEF Replaces, Descends, ParseVariableDeclaration
<1>21. Replaces(Rank("ParseModifiers"), ParseModifiers)
  BY Ranks, Levels, NoLevel DEF Replaces, Descends, Consumes, ParseModifiers, If, Modifiers
<1>22. Replaces(Rank("ParseBlock"), ParseBlock)
  BY Ranks, Levels, NoLevel DEF Replaces, Descends, ParseBlock, Within
<1>23. Replaces(Rank("Statements"), Statements)
  BY Ranks, Levels, NoLevel DEF Replaces, Descends, Statements, If, AtEnd
<1>24. Replaces(Rank("ParseConditionBlock"), ParseConditionBlock)
  BY Ranks, Levels, NoLevel DEF Replaces, Descends, ParseConditionBlock
<1>25. Replaces(Rank("ParseIfStatement"), ParseIfStatement)
  BY Ranks, Levels, NoLevel DEF Replaces, Descends, ParseIfStatement
<1>26. Replaces(Rank("Branch"), Branch)
  BY Ranks, Levels, NoLevel DEF Replaces, Descends, Branch
<1>27. Replaces(Rank("Else"), Else)
  BY Ranks, Levels, NoLevel DEF Replaces, Descends, Consumes, Else, If
<1>28. Replaces(Rank("ParseWhileStatement"), ParseWhileStatement)
  BY Ranks, Levels, NoLevel DEF Replaces, Descends, ParseWhileStatement, Within
<1>29. Replaces(Rank("ParseForStatement"), ParseForStatement)
  BY Ranks, Levels, NoLevel DEF Replaces, Descends, ParseForStatement, Within
<1>30. Replaces(Rank("Step"), Step)
  BY Ranks, Levels, NoLevel DEF Replaces, Descends, Consumes, Step, If
<1>31. Replaces(Rank("ParseReturnStatement"), ParseReturnStatement)
  BY Ranks, Levels, NoLevel DEF Replaces, Descends, ParseReturnStatement, If, AtEnd
<1>32. Replaces(Rank("ParseMatchStatement"), ParseMatchStatement)
  BY Ranks, Levels, NoLevel DEF Replaces, Descends, ParseMatchStatement, Within
<1>33. Replaces(Rank("Arms"), Arms)
  BY Ranks, Levels, NoLevel DEF Replaces, Descends, Arms, If, AtEnd
<1>34. Replaces(Rank("Pattern"), Pattern)
  BY Ranks, Levels, NoLevel DEF Replaces, Descends, Consumes, Pattern
<1>35. Replaces(Rank("Tuple"), Tuple)
  BY Ranks, Levels, NoLevel DEF Replaces, Descends, Tuple, List, If, AtEnd
<1>36. Replaces(Rank("Guard"), Guard)
  BY Ranks, Levels, NoLevel DEF Replaces, Descends, Consumes, Guard, If
<1>37. Replaces(Rank("ArmBody"), ArmBody)
  BY Ranks, Levels, NoLevel DEF Replaces, Descends, ArmBody
<1>38. Replaces(Rank("ParseUnsafeBlock"), ParseUnsafeBlock)
  BY Ranks, Levels, NoLevel DEF Replaces, Descends, ParseUnsafeBlock, Within
<1>39. Replaces(Rank("ParseTrustedBlock"), ParseTrustedBlock)
  BY Ranks, Levels, NoLevel DEF Replaces, Descends, ParseTrustedBlock, ParseUnsafeBlock,
     Within
<1>40. Replaces(Rank("ParsePlainBlock"), ParsePlainBlock)
  BY Ranks, Levels, NoLevel DEF Replaces, Descends, ParsePlainBlock
<1>41. Replaces(Rank("ParseNamedBlock"), ParseNamedBlock)
  BY Ranks, Levels, NoLevel DEF Replaces, Descends, ParseNamedBlock
<1>42. Replaces(Rank("Assignment"), Assignment)
  BY Ranks, Levels, NoLevel DEF Replaces, Descends, Consumes, Assignment, If, Assignments
<1>43. Replaces(Rank("ParseExpressionStatement"), ParseExpressionStatement)
  BY Ranks, Levels, NoLevel DEF Replaces, Descends, ParseExpressionStatement
<1>44. Replaces(Rank("ParseSubprogram"), ParseSubprogram)
  BY Ranks, Levels, NoLevel DEF Replaces, Descends, ParseSubprogram, Within
<1>45. Replaces(Rank("Parameters"), Parameters)
  BY Ranks, Levels, NoLevel DEF Replaces, Descends, Parameters, List, If, AtEnd
<1>46. Replaces(Rank("Clauses"), Clauses)
  BY Ranks, Levels, NoLevel DEF Replaces, Descends, Consumes, Clauses
<1>47. Replaces(Rank("ReturnType"), ReturnType)
  BY Ranks, Levels, NoLevel DEF Replaces, Descends, Consumes, ReturnType, If
<1>48. Replaces(Rank("ParseEnumDecl"), ParseEnumDecl)
  BY Ranks, Levels, NoLevel DEF Replaces, Descends, ParseEnumDecl
<1>49. Replaces(Rank("Variants"), Variants)
  BY Ranks, Levels, NoLevel DEF Replaces, Descends, Variants, If, AtEnd, Is, Identifiers
<1>50. Replaces(Rank("ParseStructDecl"), ParseStructDecl)
  BY Ranks, Levels, NoLevel DEF Replaces, Descends, ParseStructDecl
<1>51. Replaces(Rank("Members"), Members)
  BY Ranks, Levels, NoLevel DEF Replaces, Descends, Consumes, Members, If, AtEnd, Is,
     Identifiers
<1>52. Replaces(Rank("Items"), Items)
  BY Ranks, Levels, NoLevel DEF Replaces, Descends, Consumes, Items, If, AtEnd, Function
<1>53. Replaces(Rank("ParseWorldDeclaration"), ParseWorldDeclaration)
  BY Ranks, Levels, NoLevel DEF Replaces, Descends, ParseWorldDeclaration, DeclarationBody
<1>54. Replaces(Rank("Extends"), Extends)
  BY Ranks, Levels, NoLevel DEF Replaces, Descends, Consumes, Extends, If
<1>55. Replaces(Rank("ParseContextDeclaration"), ParseContextDeclaration)
  BY Ranks, Levels, NoLevel DEF Replaces, Descends, ParseContextDeclaration, DeclarationBody
<1>56. Replaces(Rank("ParseModuleDeclaration"), ParseModuleDeclaration)
  BY Ranks, Levels, NoLevel DEF Replaces, Descends, ParseModuleDeclaration
<1>57. Replaces(Rank("ModuleItems"), ModuleItems)
  BY Ranks, Levels, NoLevel DEF Replaces, Descends, Consumes, ModuleItems, If, AtEnd
<1>58. Replaces(Rank("ParseMacroDeclaration"), ParseMacroDeclaration)
  BY Ranks, Levels, NoLevel DEF Replaces, Descends, ParseMacroDeclaration, Within
<1>59. Replaces(Rank("MacroParameters"), MacroParameters)
  BY Ranks, Levels, NoLevel DEF Replaces, Descends, MacroParameters, List, If, AtEnd
<1>60. Replaces(Rank("ParseEnvironmentDeclaration"), ParseEnvironmentDeclaration)
  BY Ranks, Levels, NoLevel DEF Replaces, Descends, ParseEnvironmentDeclaration
<1>61. Replaces(Rank("EnvironmentBody"), EnvironmentBody)
  BY Ranks, Levels, NoLevel DEF Replaces, Descends, EnvironmentBody, If
<1>62. Replaces(Rank("ParseUsing"), ParseUsing)
  BY Ranks, Levels, NoLevel DEF Replaces, Descends, ParseUsing
<1>63. Replaces(Rank("Path"), Path)
  BY Ranks, Levels, NoLevel DEF Replaces, Descends, Consumes, Path, If
<1>64. Replaces(Rank("ParseSysDecl"), ParseSysDecl)
  BY Ranks, Levels, NoLevel DEF Replaces, Descends, ParseSysDecl
<1>65. Replaces(Rank("ParseProgram"), ParseProgram)
  BY Ranks, Levels, NoLevel DEF Replaces, Descends, ParseProgram, If
<1>. QED
  BY <1>1, <1>2, <1>4, <1>5, <1>6, <1>7, <1>8, <1>9, <1>10, <1>11, <1>12,
     <1>13, <1>14, <1>15, <1>16, <1>17, <1>18, <1>19, <1>20, <1>21, <1>22, <1>23,
     <1>24, <1>25, <1>26, <1>27, <1>28, <1>29, <1>30, <1>31, <1>32, <1>33, <1>34,
     <1>35, <1>36, <1>37, <1>38, <1>39, <1>40, <1>41, <1>42, <1>43, <1>44, <1>45,
     <1>46, <1>47, <1>48, <1>49, <1>50, <1>51, <1>52, <1>53, <1>54, <1>55, <1>56,
     <1>57, <1>58, <1>59, <1>60, <1>61, <1>62, <1>63, <1>64, <1>65
     DEF Functions, Body

(***************************************************************************)
(* The steps.                                                              *)
(***************************************************************************)
\* The count of the tokens.
LEMMA SightType ==
    ASSUME TokensOK
    PROVE  /\ left \in Nat /\ Sighted(1) \in 0..1 /\ Sighted(2) \in 0..1 /\ Sighted(3) \in 0..1
           /\ InSight \in Nat /\ Spare \in Nat /\ Spare <= InSight
           /\ tok # "EOF" => InSight >= 1
           /\ (Finished \/ ~Consumes(Head(stack))) => Spare = InSight
           /\ ~Finished /\ Consumes(Head(stack)) => Spare = InSight - 1
<1>1. left \in Nat /\ Sighted(1) \in 0..1 /\ Sighted(2) \in 0..1 /\ Sighted(3) \in 0..1
  BY DEF TokensOK, Sighted
<1>2. tok # "EOF" => Sighted(1) = 1
  BY DEF tok, Sighted
<1>3. InSight \in Nat /\ (tok # "EOF" => InSight >= 1)
  BY <1>1, <1>2 DEF InSight
<1>4. ~Finished /\ Consumes(Head(stack)) => InSight >= 1
  BY <1>3 DEF Consumes
<1>. QED
  BY <1>1, <1>3, <1>4 DEF Spare

\* The same behind a step.
LEMMA SightNext ==
    ASSUME TokensOK'
    PROVE  InSight' \in Nat /\ Spare' \in Nat /\ Spare' <= InSight'
<1>1. left' \in Nat /\ Sighted(1)' \in 0..1 /\ Sighted(2)' \in 0..1 /\ Sighted(3)' \in 0..1
  BY DEF TokensOK, Sighted
<1>2. (tok # "EOF")' => Sighted(1)' = 1
  BY DEF tok, Sighted
<1>3. InSight' \in Nat /\ ((tok # "EOF")' => InSight' >= 1)
  BY <1>1, <1>2 DEF InSight
<1>4. Spare' = InSight' \/ (Spare' = InSight' - 1 /\ (tok # "EOF")')
  BY DEF Spare, Consumes
<1>. QED
  BY <1>3, <1>4

\* A token that is consumed is one less.
LEMMA AdvanceSight ==
    ASSUME TokensOK, ParserAdvance
    PROVE  InSight' \in Nat /\ InSight' <= InSight /\ (tok # "EOF" => InSight' <= InSight - 1)
<1>. DEFINE Comes(t) ==
              /\ window' = <<next, third, t>>
              /\ (t = "EOF" /\ left' = 0) \/ (left > 0 /\ left' = left - 1)
<1>1. PICK t : Comes(t)
  <2>1. CASE left > 0 /\ left' = left - 1 /\ \E t \in alphabet : window' = <<next, third, t>>
    BY <2>1
  <2>2. CASE window' = <<next, third, "EOF">> /\ left' = 0
    <3>1. Comes("EOF")
      BY <2>2
    <3>. QED
      BY <3>1
  <2>. QED
    BY <2>1, <2>2 DEF ParserAdvance
<1>2. /\ window'[1] = window[2] /\ window'[2] = window[3] /\ window'[3] = t
  BY <1>1 DEF next, third
<1>. DEFINE a == Sighted(1)
            b == Sighted(2)
            c == Sighted(3)
            d == IF t = "EOF" THEN 0 ELSE 1
<1>3. a \in 0..1 /\ b \in 0..1 /\ c \in 0..1 /\ d \in 0..1 /\ left \in Nat
  BY SightType
<1>4. InSight' = left' + b + c + d
  BY <1>2 DEF InSight, Sighted
<1>5. tok # "EOF" => a = 1
  BY DEF tok, Sighted
<1>6. t = "EOF" => d = 0
  OBVIOUS
<1>7. InSight = left + a + b + c
  BY DEF InSight
<1>. HIDE DEF a, b, c, d
<1>. QED
  BY <1>1, <1>3, <1>4, <1>5, <1>6, <1>7

\* Keeping the tokens keeps their number.
LEMMA KeepSight ==
    ASSUME UNCHANGED <<window, left>>
    PROVE  InSight' = InSight
BY DEF InSight, Sighted

\* The arithmetic of a step: for what stays on the stack ...
LEMMA OldHeight ==
    ASSUME NEW h \in Int, NEW l \in Int, NEW most \in Nat, NEW p \in Nat, NEW q \in Nat,
           q <= p, h <= l + 126 * (most - p)
    PROVE  h <= l + 126 * (most - q)
OBVIOUS

\* ... and for what is put on it, d symbols above the last.
LEMMA NewHeight ==
    ASSUME NEW n \in Nat, NEW d \in 0..13, NEW k \in 0..8, NEW l \in 0..8,
           NEW most \in Nat, NEW p \in Nat, NEW q \in Nat, q <= p,
           n <= 14 * (8 - k) + 126 * (most - p),
           \/ l <= k /\ (d = 0 \/ l < k)
           \/ q < p
    PROVE  n + d <= 14 * (8 - l) + 126 * (most - q)
<1>1. CASE q < p
  BY <1>1
<1>2. CASE l < k
  BY <1>2
<1>3. CASE l = k /\ d = 0
  BY <1>3
<1>. QED
  BY <1>1, <1>2, <1>3

\* What a step puts in the place of a symbol keeps the bound, if it is of lower rank or
\* a token is consumed for it.
LEMMA BoundedStep ==
    ASSUME StackOK, TokensOK, TokensOK', ~Finished, NEW most \in Nat, Bounded(most),
           NEW b \in Seq(Symbol), Len(b) <= Growth, stack' = b \o Tail(stack),
           InSight' <= InSight, Spare' <= Spare,
           Descends(Level(Head(stack)), b) \/ Spare' < Spare
    PROVE  Bounded(most)'
<1>. DEFINE n == Len(stack)
            m == Len(b)
            rest == Tail(stack)
            u == stack'
            spare == Spare'
<1>1. /\ stack \in Seq(Symbol) /\ n \in Nat /\ n >= 1 /\ Head(stack) = stack[1]
      /\ rest \in Seq(Symbol) /\ Len(rest) = n - 1 /\ m \in Nat
      /\ \A i \in 1..(n - 1) : rest[i] = stack[i + 1]
  BY EmptySeq, LenProperties DEF StackOK, Finished
<1>2. /\ Len(u) = m + n - 1
      /\ \A i \in 1..m : u[i] = b[i]
      /\ \A i \in (m + 1)..(m + n - 1) : u[i] = rest[i - m]
  BY <1>1, ConcatProperties
<1>3. /\ Spare \in Nat /\ spare \in Nat /\ InSight \in Nat /\ InSight <= most /\ Spare <= InSight
  BY SightType, SightNext DEF Bounded
<1>4. /\ \A s : Level(s) \in 0..8
  BY LevelType
<1>5. \A i \in 1..n : n - i + 1 <= 14 * (8 - Level(stack[i])) + 126 * (most - Spare)
  BY DEF Bounded, Height, Growth, PerToken
<1>6. m <= 14
  BY DEF Growth
<1>7. \/ \A i \in 1..m : Level(b[i]) <= Level(stack[1]) /\ (i < m => Level(b[i]) < Level(stack[1]))
      \/ spare < Spare
  BY <1>1 DEF Descends
<1>8. spare <= Spare
  OBVIOUS
<1>. HIDE DEF n, m, rest, u, spare
<1>9. \A i \in 1..Len(u) : Len(u) - i + 1 <= 14 * (8 - Level(u[i])) + 126 * (most - spare)
  <2>. SUFFICES ASSUME NEW i \in 1..Len(u)
                PROVE  Len(u) - i + 1 <= 14 * (8 - Level(u[i])) + 126 * (most - spare)
    OBVIOUS
  <2>1. CASE i > m
    <3>1. i - m \in 1..(n - 1) /\ i - m + 1 \in 1..n /\ i \in (m + 1)..(m + n - 1)
      BY <1>1, <1>2, <2>1
    <3>2. u[i] = stack[i - m + 1]
      BY <1>1, <1>2, <3>1
    <3>3. n - (i - m + 1) + 1 <= 14 * (8 - Level(stack[i - m + 1])) + 126 * (most - Spare)
      BY <1>5, <3>1
    <3>4. Level(u[i]) \in 0..8
      BY <1>4
    <3>5. 126 * (most - Spare) <= 126 * (most - spare)
      BY <1>3, <1>8
    <3>6. Len(u) - i + 1 <= 14 * (8 - Level(u[i])) + 126 * (most - Spare)
      BY <1>1, <1>2, <3>2, <3>3
    <3>. DEFINE h == Len(u) - i + 1
                l == 14 * (8 - Level(u[i]))
    <3>7. h \in Int /\ l \in Int
      <4>1. Len(u) \in Int /\ i \in Int
        BY <1>1, <1>2
      <4>. QED
        BY <3>4, <4>1
    <3>8. h <= l + 126 * (most - Spare)
      BY <3>6
    <3>. HIDE DEF h, l
    <3>9. h <= l + 126 * (most - spare)
      BY <1>3, <1>8, <3>7, <3>8, OldHeight
    <3>. QED
      BY <3>9 DEF h, l
  <2>2. CASE i <= m
    <3>1. i \in 1..m /\ u[i] = b[i]
      BY <1>1, <1>2, <2>2
    <3>2. n <= 14 * (8 - Level(stack[1])) + 126 * (most - Spare)
      BY <1>1, <1>5
    <3>3. Len(u) - i + 1 = n + (m - i) /\ m - i \in 0..13
      BY <1>1, <1>2, <1>6, <3>1
    <3>4. /\ Level(stack[1]) \in 0..8 /\ Level(b[i]) \in 0..8
          /\ m - i = 0 \/ i < m
      BY <1>1, <1>4, <3>1
    <3>5. \/ Level(b[i]) <= Level(stack[1]) /\ (m - i = 0 \/ Level(b[i]) < Level(stack[1]))
          \/ spare < Spare
      BY <1>7, <3>1, <3>4
    <3>6. n + (m - i) <= 14 * (8 - Level(b[i])) + 126 * (most - spare)
      <4>. DEFINE d == m - i
                  k == Level(stack[1])
                  l == Level(b[i])
      <4>1. /\ d \in 0..13 /\ k \in 0..8 /\ l \in 0..8 /\ n \in Nat
            /\ n <= 14 * (8 - k) + 126 * (most - Spare)
            /\ (l <= k /\ (d = 0 \/ l < k)) \/ spare < Spare
        BY <1>1, <3>2, <3>3, <3>4, <3>5
      <4>. HIDE DEF d, k, l
      <4>2. n + d <= 14 * (8 - l) + 126 * (most - spare)
        BY <1>3, <1>8, <4>1, NewHeight
      <4>. QED
        BY <4>2 DEF d, l
    <3>. QED
      BY <3>1, <3>3, <3>6
  <2>. QED
    BY <1>1, <1>2, <2>1, <2>2
<1>10. InSight' <= most /\ InSight' \in Nat
  BY <1>3, SightNext
<1>11. \A i \in 1..Len(stack') :
           Len(stack') - i + 1 <= 14 * (8 - Level(stack'[i])) + 126 * (most - Spare')
  BY <1>9 DEF u, spare
<1>. QED
  BY <1>10, <1>11 DEF Bounded, Height, Growth, PerToken

\* The symbols that consume the token in sight.
LEMMA Consumers ==
    /\ \A s : Consumes(s) => s.op \in {"do", "expect", "call"}
    /\ \A s : Consumes(s) /\ s.op = "do" => s \in {Advance, Skip}
    /\ \A s : Consumes(s) /\ s.op = "expect" => Is(tok, s.arg)
    /\ \A f : Consumes(Call(f)) => \/ f = "ParseArrayLiteral" /\ tok = "LBRACE"
                                   \/ f = "ParseOwnership" /\ tok \in OwnershipOperators
                                      /\ (tok = "!" => next = "$")
<1>1. /\ \A f : Call(f).op = "call" /\ Call(f).arg = f
      /\ Advance.op = "do" /\ Skip.op = "do"
      /\ Expect("LBRACE").op = "expect" /\ Expect("LBRACE").arg = "LBRACE"
  BY DEF Call, Advance, Skip, Do, Expect
<1>2. \A f, g : Call(f) = Call(g) => f = g
  BY <1>1
<1>3. \A f : Call(f) \notin {Advance, Skip, Expect("LBRACE")}
  BY <1>1
<1>4. \A s : Consumes(s) => s.op \in {"do", "expect", "call"}
  BY <1>1 DEF Consumes
<1>5. \A s : Consumes(s) /\ s.op = "do" => s \in {Advance, Skip}
  BY <1>1 DEF Consumes
<1>6. \A s : Consumes(s) /\ s.op = "expect" => Is(tok, s.arg)
  BY <1>1 DEF Consumes, Is
<1>7. \A f : Consumes(Call(f)) => \/ f = "ParseArrayLiteral" /\ tok = "LBRACE"
                                  \/ f = "ParseOwnership" /\ tok \in OwnershipOperators
                                     /\ (tok = "!" => next = "$")
  <2>. SUFFICES ASSUME NEW f, Consumes(Call(f))
                PROVE  \/ f = "ParseArrayLiteral" /\ tok = "LBRACE"
                       \/ f = "ParseOwnership" /\ tok \in OwnershipOperators
                          /\ (tok = "!" => next = "$")
    OBVIOUS
  <2>1. \/ tok = "LBRACE" /\ Call(f) = Call("ParseArrayLiteral")
        \/ Call(f) = Call("ParseOwnership") /\ tok \in OwnershipOperators
           /\ (tok = "!" => next = "$")
    BY <1>3 DEF Consumes
  <2>. QED
    BY <1>2, <2>1
<1>. QED
  BY <1>4, <1>5, <1>6, <1>7

\* A body that begins with a symbol that consumes is done a token earlier.
LEMMA SpareAhead ==
    ASSUME TokensOK, UNCHANGED <<window, left>>, NEW b \in Seq(Symbol), Len(b) >= 1,
           Tail(stack) \in Seq(Symbol), stack' = b \o Tail(stack), Consumes(b[1])
    PROVE  Spare' = InSight - 1
<1>1. Len(stack') >= 1 /\ stack'[1] = b[1] /\ stack' \in Seq(Symbol)
  BY ConcatProperties, LenProperties
<1>2. stack' # <<>> /\ Head(stack') = b[1]
  BY <1>1
<1>3. Consumes(Head(stack))'
  BY <1>2 DEF Consumes, tok, next
<1>4. InSight' = InSight
  BY KeepSight
<1>. QED
  BY <1>2, <1>3, <1>4 DEF Spare, Finished

\* A symbol that is done and leaves nothing, or a call of its own level.
LEMMA BoundedDone ==
    ASSUME StackOK, TokensOK, TokensOK', ~Finished, NEW most \in Nat, Bounded(most),
           NEW b \in Seq(Symbol), Len(b) \in 0..1, Len(b) = 1 => Level(b[1]) <= Level(Head(stack)),
           stack' = b \o Tail(stack),
           InSight' <= InSight, Consumes(Head(stack)) => InSight' <= InSight - 1
    PROVE  Bounded(most)'
<1>1. Len(b) <= Growth
  BY DEF Growth
<1>2. Descends(Level(Head(stack)), b)
  BY DEF Descends
<1>3. Spare' <= Spare
  BY SightType, SightNext
<1>. QED
  BY <1>1, <1>2, <1>3, BoundedStep

\* The case in which nothing is left of it.
LEMMA BoundedPop ==
    ASSUME StackOK, TokensOK, TokensOK', ~Finished, NEW most \in Nat, Bounded(most), Done,
           InSight' <= InSight, Consumes(Head(stack)) => InSight' <= InSight - 1
    PROVE  Bounded(most)'
<1>1. stack' = <<>> \o Tail(stack) /\ <<>> \in Seq(Symbol) /\ Len(<<>>) = 0
  BY NextSymbol DEF Done
<1>2. Len(<<>>) \in 0..1 /\ Len(<<>>) # 1
  OBVIOUS
<1>. QED
  BY <1>1, <1>2, BoundedDone

\* The body of a function in the place of its call.
LEMMA CallBounded ==
    ASSUME StackOK, TokensOK, TokensOK', NEW most \in Nat, Bounded(most), ~BangRecursion,
           Doing("call"), Replace(Body(Head(stack).arg)), Keep
    PROVE  Bounded(most)'
<1>. DEFINE f == Head(stack).arg
            b == Body(f)
<1>1. ~Finished /\ Head(stack) \in Symbol /\ Tail(stack) \in Seq(Symbol)
  BY NextSymbol DEF Doing
<1>2. Head(stack) = Call(f) /\ f \in Functions
  BY <1>1 DEF Doing, Symbol, Quiet, Call
<1>3. b \in Seq(Symbol) /\ Len(b) <= Growth /\ Len(b) \in Nat
  BY <1>2, Bodies DEF Neutral, Growth
<1>4. Level(Head(stack)) = Rank(f)
  BY <1>2, CallLevel
<1>5. /\ UNCHANGED <<window, left>> /\ InSight' = InSight
      /\ InSight \in Nat /\ Spare' \in Nat /\ Spare' <= InSight /\ Spare \in Nat
  BY KeepSight, SightType, SightNext DEF Keep
<1>6. stack' = b \o Tail(stack)
  BY DEF Replace
<1>7. CASE Consumes(Head(stack))
  <2>1. Spare = InSight - 1
    BY <1>1, <1>7, SightType
  <2>2. \/ f = "ParseArrayLiteral" /\ tok = "LBRACE"
        \/ f = "ParseOwnership" /\ tok \in OwnershipOperators /\ (tok = "!" => next = "$")
    BY <1>2, <1>7, Consumers
  <2>3. Descends(Rank(f), b) /\ Len(b) >= 1 /\ Consumes(b[1])
    <3>1. CASE f = "ParseArrayLiteral" /\ tok = "LBRACE"
      <4>1. b = ParseArrayLiteral
        BY <3>1 DEF Body
      <4>2. Len(ParseArrayLiteral) >= 1 /\ ParseArrayLiteral[1] = Expect("LBRACE")
        BY DEF ParseArrayLiteral
      <4>. QED
        BY <3>1, <4>1, <4>2, ArrayDescends DEF Consumes
    <3>2. CASE f = "ParseOwnership" /\ tok \in OwnershipOperators /\ (tok = "!" => next = "$")
      <4>1. b = ParseOwnership
        BY <3>2 DEF Body
      <4>2. Len(ParseOwnership) >= 1 /\ ParseOwnership[1] = Advance
        BY <3>2 DEF ParseOwnership, OwnershipTarget, OwnershipOperators
      <4>3. tok # "EOF"
        BY <3>2 DEF OwnershipOperators
      <4>. QED
        BY <3>2, <4>1, <4>2, <4>3, OwnershipDescends DEF Consumes
    <3>. QED
      BY <2>2, <3>1, <3>2
  <2>. HIDE DEF f, b
  <2>4. Spare' = InSight - 1
    BY <1>1, <1>3, <1>5, <1>6, <2>3, SpareAhead
  <2>5. InSight' <= InSight /\ Spare' <= Spare /\ Descends(Level(Head(stack)), b)
    BY <1>4, <1>5, <2>1, <2>3, <2>4
  <2>. QED
    BY <1>1, <1>3, <1>6, <2>5, BoundedStep
<1>8. CASE ~Consumes(Head(stack))
  <2>1. Spare = InSight
    BY <1>8, SightType
  <2>2. Replaces(Rank(f), b)
    <3>1. ~(f = "ParsePrimary" /\ tok = "!" /\ next # "$")
      BY <1>1, <1>2 DEF BangRecursion
    <3>. QED
      BY <1>2, <3>1, BodiesReplace
  <2>. HIDE DEF f, b
  <2>3. CASE Descends(Rank(f), b)
    <3>1. InSight' <= InSight /\ Spare' <= Spare /\ Descends(Level(Head(stack)), b)
      BY <1>4, <1>5, <2>1, <2>3
    <3>. QED
      BY <1>1, <1>3, <1>6, <3>1, BoundedStep
  <2>4. CASE Len(b) >= 1 /\ Consumes(b[1])
    <3>1. Spare' = InSight - 1
      BY <1>1, <1>3, <1>5, <1>6, <2>4, SpareAhead
    <3>2. InSight' <= InSight /\ Spare' < Spare /\ Spare' <= Spare
      BY <1>5, <2>1, <3>1
    <3>. QED
      BY <1>1, <1>3, <1>6, <3>2, BoundedStep
  <2>. QED
    BY <2>2, <2>3, <2>4 DEF Replaces
<1>. QED
  BY <1>7, <1>8

\* A round of a loop, which goes on only once it has consumed a token.
LEMMA LoopBounded ==
    ASSUME StackOK, TokensOK, TokensOK', NEW most \in Nat, Bounded(most), ~Finished,
           Head(stack).op \in {"climb", "nao"}, Keep, NEW b \in Seq(Symbol), Len(b) <= 14,
           Len(b) = 0 \/ Consumes(b[1]), Replace(b)
    PROVE  Bounded(most)'
<1>1. Tail(stack) \in Seq(Symbol) /\ stack' = b \o Tail(stack)
  BY NextSymbol DEF Replace
<1>2. ~Consumes(Head(stack))
  BY Consumers
<1>3. /\ UNCHANGED <<window, left>> /\ InSight' = InSight
      /\ InSight \in Nat /\ Spare' \in Nat /\ Spare' <= InSight /\ Spare = InSight
  BY <1>2, KeepSight, SightType, SightNext DEF Keep
<1>4. Len(b) <= Growth /\ Len(b) \in Nat
  BY LenProperties DEF Growth
<1>5. CASE Len(b) = 0
  <2>1. Descends(Level(Head(stack)), b)
    BY <1>5 DEF Descends
  <2>2. InSight' <= InSight /\ Spare' <= Spare
    BY <1>3
  <2>. QED
    BY <1>1, <1>4, <2>1, <2>2, BoundedStep
<1>6. CASE Len(b) # 0
  <2>1. Spare' = InSight - 1
    <3>1. Len(b) >= 1 /\ Consumes(b[1])
      BY <1>4, <1>6
    <3>. QED
      BY <1>1, <1>3, <3>1, SpareAhead
  <2>2. InSight' <= InSight /\ Spare' < Spare /\ Spare' <= Spare
    BY <1>3, <2>1
  <2>. QED
    BY <1>1, <1>4, <2>2, BoundedStep
<1>. QED
  BY <1>5, <1>6

\* Neither loop goes on at the end of the file.
LEMMA LoopsConsume ==
    /\ \A min \in Nat : Len(ParseBinaryFromLeft(min)) = 0 \/ Consumes(ParseBinaryFromLeft(min)[1])
    /\ \A open \in Nat : Len(NaoLoop(open)) = 0 \/ Consumes(NaoLoop(open)[1])
<1>1. ASSUME NEW min \in Nat
      PROVE  Len(ParseBinaryFromLeft(min)) = 0 \/ Consumes(ParseBinaryFromLeft(min)[1])
  <2>. DEFINE p == GetOperatorPrecedence(tok)
  <2>1. p \in -1..6 /\ (tok = "EOF" => p = -1)
    BY DEF GetOperatorPrecedence
  <2>. HIDE DEF p
  <2>2. ParseBinaryFromLeft(min) =
            IF p >= min THEN <<Advance>> \o <<Call("ParseUnary"), Climb(p + 1)>>
                                 \o <<Make("binary"), Climb(min)>>
                        ELSE <<>>
    BY DEF ParseBinaryFromLeft, If, ParseBinary, p
  <2>3. CASE p >= min
    <3>1. tok # "EOF"
      BY <2>1, <2>3
    <3>2. ParseBinaryFromLeft(min)[1] = Advance
      BY <2>2, <2>3
    <3>. QED
      BY <3>1, <3>2 DEF Consumes
  <2>4. CASE ~(p >= min)
    BY <2>2, <2>4
  <2>. QED
    BY <2>3, <2>4
<1>2. ASSUME NEW open \in Nat
      PROVE  Len(NaoLoop(open)) = 0 \/ Consumes(NaoLoop(open)[1])
  <2>1. CASE tok = "EOF"
    BY <2>1 DEF NaoLoop
  <2>2. CASE tok # "EOF"
    <3>1. NaoLoop(open)[1] \in {Advance, Skip}
      BY <2>2 DEF NaoLoop, If
    <3>. QED
      BY <2>2, <3>1 DEF Consumes
  <2>. QED
    BY <2>1, <2>2
<1>. QED
  BY <1>1, <1>2

\* An activation, but for the recursion.
LEMMA ActivateBounded ==
    ASSUME StackOK, TokensOK, TokensOK', NEW most \in Nat, Bounded(most), ~BangRecursion,
           Activate
    PROVE  Bounded(most)'
<1>1. CASE Doing("call") /\ Replace(Body(Head(stack).arg))
  BY <1>1, CallBounded DEF Activate
<1>2. CASE Doing("climb") /\ Replace(ParseBinaryFromLeft(Head(stack).min))
  <2>1. ~Finished /\ Head(stack).op = "climb" /\ Keep
    BY <1>2 DEF Doing, Activate
  <2>2. Head(stack).min \in Nat
    BY <2>1, NextSymbol DEF Symbol, Quiet
  <2>3. /\ ParseBinaryFromLeft(Head(stack).min) \in Seq(Symbol)
        /\ Len(ParseBinaryFromLeft(Head(stack).min)) <= 14
    BY <2>2, ClimbBody, QuietNeutral DEF Neutral
  <2>. QED
    BY <1>2, <2>1, <2>2, <2>3, LoopsConsume, LoopBounded
<1>3. CASE Doing("nao") /\ Replace(NaoLoop(Head(stack).min))
  <2>1. ~Finished /\ Head(stack).op = "nao" /\ Keep
    BY <1>3 DEF Doing, Activate
  <2>2. Head(stack).min \in Nat
    BY <2>1, NextSymbol DEF Symbol, Quiet
  <2>3. /\ NaoLoop(Head(stack).min) \in Seq(Symbol)
        /\ Len(NaoLoop(Head(stack).min)) <= 14
    BY <2>2, NaoBody, QuietNeutral DEF Neutral
  <2>. QED
    BY <1>3, <2>1, <2>2, <2>3, LoopsConsume, LoopBounded
<1>. QED
  BY <1>1, <1>2, <1>3 DEF Activate

\* What a step does to the number of tokens.
LEMMA SightSteps ==
    ASSUME TokensOK
    PROVE  /\ Keep => InSight' = InSight /\ InSight' <= InSight
           /\ UNCHANGED <<window, left>> => InSight' = InSight /\ InSight' <= InSight
           /\ ParserAdvance => InSight' <= InSight /\ (tok # "EOF" => InSight' <= InSight - 1)
           /\ Consume => InSight' <= InSight /\ (tok # "EOF" => InSight' <= InSight - 1)
<1>1. InSight \in Nat
  BY SightType
<1>2. UNCHANGED <<window, left>> => InSight' = InSight /\ InSight' <= InSight
  BY <1>1, KeepSight
<1>3. ParserAdvance => InSight' <= InSight /\ (tok # "EOF" => InSight' <= InSight - 1)
  BY AdvanceSight
<1>. QED
  BY <1>2, <1>3 DEF Keep, Consume

\* A token that is expected, and found or not.
LEMMA ExpectBounded ==
    ASSUME StackOK, TokensOK, TokensOK', NEW most \in Nat, Bounded(most), ExpectToken
    PROVE  Bounded(most)'
<1>1. ~Finished /\ Done /\ Head(stack).op = "expect"
  BY DEF ExpectToken, Doing
<1>2. Consumes(Head(stack)) => Is(tok, Head(stack).arg) /\ tok # "EOF"
  BY <1>1, Consumers DEF Consumes
<1>3. InSight' <= InSight /\ (Consumes(Head(stack)) => InSight' <= InSight - 1)
  <2>1. CASE Is(tok, Head(stack).arg)
    BY <1>2, <2>1, SightSteps DEF ExpectToken
  <2>2. CASE ~Is(tok, Head(stack).arg)
    BY <1>2, <2>2, SightSteps DEF ExpectToken
  <2>. QED
    BY <2>1, <2>2
<1>. QED
  BY <1>1, <1>3, BoundedPop

\* The other steps that leave nothing on the stack.
LEMMA PopBounded ==
    ASSUME StackOK, TokensOK, TokensOK', NEW most \in Nat, Bounded(most),
           ParserMatch \/ Count \/ NewExpression \/ DoAdvance \/ ParsingError
    PROVE  Bounded(most)'
<1>1. CASE ParserMatch
  <2>1. ~Finished /\ Done /\ Head(stack).op = "match" /\ (Consume \/ Keep)
    BY <1>1 DEF ParserMatch, Doing
  <2>2. ~Consumes(Head(stack)) /\ InSight' <= InSight
    BY <2>1, Consumers, SightSteps
  <2>. QED
    BY <2>1, <2>2, BoundedPop
<1>2. CASE Count
  <2>1. ~Finished /\ Done /\ Head(stack).op \in {"enter", "leave"} /\ Keep
    BY <1>2 DEF Count, Doing
  <2>2. ~Consumes(Head(stack)) /\ InSight' <= InSight
    BY <2>1, Consumers, SightSteps
  <2>. QED
    BY <2>1, <2>2, BoundedPop
<1>3. CASE NewExpression
  <2>1. ~Finished /\ Done /\ Head(stack).op = "make" /\ Keep
    BY <1>3 DEF NewExpression, Doing
  <2>2. ~Consumes(Head(stack)) /\ InSight' <= InSight
    BY <2>1, Consumers, SightSteps
  <2>. QED
    BY <2>1, <2>2, BoundedPop
<1>4. CASE DoAdvance
  <2>1. ~Finished /\ Done /\ ParserAdvance
    BY <1>4 DEF DoAdvance, Doing
  <2>2. InSight' <= InSight /\ (Consumes(Head(stack)) => InSight' <= InSight - 1)
    BY <2>1, SightSteps DEF Consumes
  <2>. QED
    BY <2>1, <2>2, BoundedPop
<1>5. CASE ParsingError
  <2>1. ~Finished /\ Done /\ Head(stack) = Error /\ Head(stack).op = "do"
        /\ UNCHANGED <<window, left>>
    BY <1>5 DEF ParsingError, Doing
  <2>2. Error \notin {Advance, Skip}
    BY DEF Error, Advance, Skip, Do
  <2>3. ~Consumes(Head(stack)) /\ InSight' <= InSight
    BY <2>1, <2>2, Consumers, SightSteps
  <2>. QED
    BY <2>1, <2>3, BoundedPop
<1>. QED
  BY <1>1, <1>2, <1>3, <1>4, <1>5

\* Behind a comma the loop is called again, in its own place.
LEMMA CommaBounded ==
    ASSUME StackOK, TokensOK, TokensOK', NEW most \in Nat, Bounded(most), MatchComma
    PROVE  Bounded(most)'
<1>1. ~Finished /\ Head(stack).op = "comma" /\ Head(stack) \in Symbol
  BY NextSymbol DEF MatchComma, Doing
<1>2. Head(stack).arg \in Functions /\ Head(stack) = Comma(Head(stack).arg)
  BY <1>1 DEF Symbol, Quiet, Comma
<1>3. ~Consumes(Head(stack))
  BY <1>1, Consumers
<1>4. CASE tok = "COMMA"
  <2>. DEFINE b == <<Call(Head(stack).arg)>>
  <2>1. Call(Head(stack).arg) \in Symbol
    BY <1>2, CallSymbol DEF Symbol
  <2>2. b \in Seq(Symbol) /\ Len(b) = 1 /\ b[1] = Call(Head(stack).arg)
    BY <2>1
  <2>3. Len(b) \in 0..1 /\ Level(b[1]) <= Level(Head(stack))
    <3>1. Level(b[1]) = Level(Head(stack)) /\ Level(b[1]) \in 0..8
      BY <1>2, <2>2, CallLevel, LevelType
    <3>. QED
      BY <2>2, <3>1
  <2>4. stack' = b \o Tail(stack) /\ Consume
    BY <1>4 DEF MatchComma, Replace
  <2>5. InSight' <= InSight
    BY <2>4, SightSteps
  <2>. HIDE DEF b
  <2>. QED
    BY <1>1, <1>3, <2>2, <2>3, <2>4, <2>5, BoundedDone
<1>5. CASE tok # "COMMA"
  <2>1. Done /\ InSight' <= InSight
    BY <1>5, SightSteps DEF MatchComma
  <2>. QED
    BY <1>1, <1>3, <2>1, BoundedPop
<1>. QED
  BY <1>4, <1>5

\* The branch of an if is a statement, which is of the same rank.
LEMMA SingleBounded ==
    ASSUME StackOK, TokensOK, TokensOK', NEW most \in Nat, Bounded(most), DoSingle
    PROVE  Bounded(most)'
<1>. DEFINE b == <<Call("ParseStatement")>>
<1>1. /\ ~Finished /\ Head(stack) = Single /\ Head(stack).op = "do"
      /\ stack' = b \o Tail(stack) /\ Keep
  BY DEF DoSingle, Doing, Replace
<1>2. Call("ParseStatement") \in Symbol
  BY Calls DEF Symbol
<1>3. b \in Seq(Symbol) /\ Len(b) = 1 /\ b[1] = Call("ParseStatement")
  BY <1>2
<1>4. Level(Head(stack)) = 4 /\ Level(Call("ParseStatement")) = 4
  BY <1>1, Levels, NoLevel
<1>5. Single \notin {Advance, Skip}
  BY DEF Single, Advance, Skip, Do
<1>6. ~Consumes(Head(stack)) /\ InSight' <= InSight
  BY <1>1, <1>5, Consumers, SightSteps
<1>7. Len(b) \in 0..1 /\ Level(b[1]) <= Level(Head(stack))
  BY <1>3, <1>4
<1>. HIDE DEF b
<1>. QED
  BY <1>1, <1>3, <1>6, <1>7, BoundedDone

\* The recovery is done, or drops a token and goes on where it is.
LEMMA SynchroniseBounded ==
    ASSUME StackOK, TokensOK, TokensOK', NEW most \in Nat, Bounded(most), DoSynchronise
    PROVE  Bounded(most)'
<1>1. ~Finished /\ Head(stack) = Synchronise /\ Head(stack).op = "do"
  BY DEF DoSynchronise, Doing
<1>2. Synchronise \notin {Advance, Skip}
  BY DEF Synchronise, Advance, Skip, Do
<1>3. ~Consumes(Head(stack))
  BY <1>1, <1>2, Consumers
<1>4. CASE tok \in SyncTokens
  <2>1. Done /\ InSight' <= InSight
    BY <1>4, SightSteps DEF DoSynchronise
  <2>. QED
    BY <1>1, <1>3, <2>1, BoundedPop
<1>5. CASE tok \notin SyncTokens
  <2>1. InSight' <= InSight
    BY <1>5, SightSteps DEF DoSynchronise
  <2>. DEFINE b == <<Synchronise>>
  <2>2. Synchronise \in Symbol /\ stack \in Seq(Symbol) /\ stack # <<>>
    BY <1>1, TokenSymbol DEF Symbol, StackOK, Finished
  <2>3. b \in Seq(Symbol) /\ Len(b) = 1 /\ b[1] = Synchronise
    BY <2>2
  <2>4. stack = <<Head(stack)>> \o Tail(stack)
    BY <2>2
  <2>5. stack' = b \o Tail(stack)
    BY <1>1, <1>5, <2>4 DEF DoSynchronise
  <2>6. Len(b) \in 0..1 /\ Level(b[1]) <= Level(Head(stack))
    BY <1>1, <2>3, NoLevel
  <2>. HIDE DEF b
  <2>. QED
    BY <1>1, <1>3, <2>1, <2>3, <2>5, <2>6, BoundedDone
<1>. QED
  BY <1>4, <1>5

\* A step outside the recursion.
LEMMA NextBounded ==
    ASSUME StackOK, TokensOK, TokensOK', NEW most \in Nat, Bounded(most), ~BangRecursion,
           [Next]_vars
    PROVE  Bounded(most)'
<1>1. CASE UNCHANGED vars
  <2>1. UNCHANGED <<window, left, stack>>
    BY <1>1 DEF vars
  <2>2. InSight' = InSight /\ Spare' = Spare
    BY <2>1 DEF InSight, Sighted, Spare, Finished, Consumes, tok, next
  <2>. QED
    BY <2>1, <2>2 DEF Bounded, Height
<1>. QED
  BY <1>1, ActivateBounded, ExpectBounded, PopBounded, CommaBounded, SingleBounded,
     SynchroniseBounded DEF Next

\* Nothing leads out of the recursion.
LEMMA BangStays ==
    ASSUME StackOK, BangRecursion, [Next]_vars
    PROVE  BangRecursion'
<1>1. CASE UNCHANGED vars
  BY <1>1 DEF vars, BangRecursion, Finished, tok, next
<1>2. CASE Next
  <2>1. /\ ~Finished /\ tok = "!" /\ next # "$"
        /\ Head(stack).op = "call" /\ Head(stack).arg \in {"ParseOwnership", "ParsePrimary"}
    BY DEF BangRecursion, Call
  <2>2. Replace(Body(Head(stack).arg)) /\ UNCHANGED window
    <3>1. Activate
      BY <1>2, <2>1 DEF Next, ExpectToken, ParserMatch, MatchComma, Count, NewExpression,
         DoAdvance, ParsingError, DoSynchronise, DoSingle, Doing
    <3>. QED
      BY <2>1, <3>1 DEF Activate, Doing, Keep
  <2>3. PICK b \in Seq(Symbol) :
            /\ b = Body(Head(stack).arg) /\ Len(b) >= 1
            /\ b[1] \in {Call("ParseOwnership"), Call("ParsePrimary")}
    <3>1. Head(stack).arg \in Functions
      BY <2>1 DEF Functions
    <3>2. Body(Head(stack).arg) \in Seq(Symbol)
      BY <3>1, Bodies DEF Neutral
    <3>3. CASE Head(stack).arg = "ParseOwnership"
      <4>1. Body(Head(stack).arg) = ParseOwnership
        BY <3>3 DEF Body
      <4>2. Len(ParseOwnership) >= 1 /\ ParseOwnership[1] = Call("ParsePrimary")
        BY <2>1 DEF ParseOwnership, OwnershipTarget
      <4>. QED
        BY <3>2, <4>1, <4>2
    <3>4. CASE Head(stack).arg = "ParsePrimary"
      <4>1. Body(Head(stack).arg) = ParsePrimary
        BY <3>4 DEF Body
      <4>2. Len(ParsePrimary) >= 1 /\ ParsePrimary[1] = Call("ParseOwnership")
        BY <2>1 DEF ParsePrimary, OwnershipOperators, Literals, Identifiers
      <4>. QED
        BY <3>2, <4>1, <4>2
    <3>. QED
      BY <2>1, <3>3, <3>4
  <2>4. Tail(stack) \in Seq(Symbol) /\ stack' = b \o Tail(stack)
    BY <2>1, <2>2, <2>3, NextSymbol DEF Replace
  <2>5. Len(stack') >= 1 /\ stack'[1] = b[1] /\ stack' \in Seq(Symbol)
    BY <2>3, <2>4, ConcatProperties, LenProperties
  <2>6. stack' # <<>> /\ Head(stack') = b[1]
    BY <2>5
  <2>. QED
    BY <2>1, <2>2, <2>3, <2>6 DEF BangRecursion, Finished, tok, next
<1>. QED
  BY <1>1, <1>2

\* The stack that a stream of at most `most' tokens needs.
Needed(most) == Growth * 8 + PerToken * most

\* At the start there is one call and no more tokens than the stream has.
LEMMA InitBounded ==
    ASSUME NEW most \in Nat, \A s \in Streams : s.tokens <= most, Init
    PROVE  Bounded(most)
<1>1. PICK s \in Streams : left = s.tokens - 3
  BY DEF Init
<1>2. s.tokens \in Nat /\ s.tokens <= most
  BY <1>1, StreamsAssumption
<1>3. TokensOK
  BY InitMachine
<1>4. InSight \in Nat /\ InSight <= most
  <2>. DEFINE a == Sighted(1)
              b == Sighted(2)
              c == Sighted(3)
  <2>1. a \in 0..1 /\ b \in 0..1 /\ c \in 0..1 /\ InSight = left + a + b + c
    BY <1>3, SightType DEF InSight
  <2>2. InSight \in Nat
    BY <1>3, SightType
  <2>. HIDE DEF a, b, c
  <2>. QED
    BY <1>1, <1>2, <2>1, <2>2
<1>5. Spare \in Nat /\ Spare <= most
  BY <1>3, <1>4, SightType
<1>6. Len(stack) = 1 /\ stack[1] = Call("ParseProgram")
  BY DEF Init
<1>7. Level(stack[1]) = 5
  BY <1>6, Levels
<1>8. \A i \in 1..Len(stack) :
          Len(stack) - i + 1 <= 14 * (8 - Level(stack[i])) + 126 * (most - Spare)
  BY <1>5, <1>6, <1>7
<1>. QED
  BY <1>4, <1>8 DEF Bounded, Height, Growth, PerToken

\* What the bound says of the stack as a whole.
LEMMA BoundedStack ==
    ASSUME StackOK, TokensOK, NEW most \in Nat, Bounded(most)
    PROVE  Len(stack) \in Nat /\ Len(stack) <= Needed(most)
<1>1. Len(stack) \in Nat
  BY LenProperties DEF StackOK
<1>2. Spare \in Nat
  BY SightType
<1>3. CASE Len(stack) = 0
  BY <1>3 DEF Needed, Growth, PerToken
<1>4. CASE Len(stack) >= 1
  <2>1. Len(stack) - 1 + 1 <= 14 * (8 - Level(stack[1])) + 126 * (most - Spare)
    BY <1>1, <1>4 DEF Bounded, Height, Growth, PerToken
  <2>2. Level(stack[1]) \in 0..8
    BY LevelType
  <2>. DEFINE n == Len(stack)
              l == Level(stack[1])
  <2>. HIDE DEF n, l
  <2>3. n \in Nat /\ l \in 0..8 /\ n - 1 + 1 <= 14 * (8 - l) + 126 * (most - Spare)
    BY <1>1, <2>1, <2>2 DEF n, l
  <2>4. n <= 14 * 8 + 126 * most
    BY <1>2, <2>3
  <2>. QED
    BY <1>1, <2>4 DEF n, Needed, Growth, PerToken
<1>. QED
  BY <1>1, <1>3, <1>4

\* However large the C stack is, outside that one recursion a stream of `most' tokens
\* never puts more on it than grows with `most'.
THEOREM StackIsLinear ==
    ASSUME NEW most \in Nat, \A s \in Streams : s.tokens <= most
    PROVE  Spec => [](BangRecursion \/ Len(stack) <= Needed(most))
<1>1. Init => TokensOK /\ StackOK /\ (Bounded(most) \/ BangRecursion)
  BY InitMachine, InitBounded
<1>2. TokensOK /\ StackOK /\ (Bounded(most) \/ BangRecursion) /\ [Next]_vars
          => TokensOK' /\ StackOK' /\ (Bounded(most)' \/ BangRecursion')
  <2>. SUFFICES ASSUME TokensOK, StackOK, Bounded(most) \/ BangRecursion, [Next]_vars
                PROVE  TokensOK' /\ StackOK' /\ (Bounded(most)' \/ BangRecursion')
    OBVIOUS
  <2>1. TokensOK' /\ StackOK'
    BY StepMachine
  <2>2. CASE BangRecursion
    BY <2>1, <2>2, BangStays
  <2>3. CASE ~BangRecursion
    BY <2>1, <2>3, NextBounded
  <2>. QED
    BY <2>2, <2>3, <2>1
<1>3. TokensOK /\ StackOK /\ (Bounded(most) \/ BangRecursion)
          => BangRecursion \/ Len(stack) <= Needed(most)
  BY BoundedStack
<1>. QED
  BY <1>1, <1>2, <1>3, PTL DEF Spec

\* Nothing but the end of the stack ends the recursion: no step leads out of it.
THEOREM BangIsForever == Spec => [][BangRecursion => BangRecursion']_vars
<1>1. StackOK /\ [Next]_vars => [BangRecursion => BangRecursion']_vars
  BY BangStays
<1>. QED
  BY <1>1, MachineInvariant, PTL DEF Spec

\* So a C stack of that size does not overflow, except in the recursion.
THEOREM StackHolds ==
    ASSUME NEW most \in Nat, \A s \in Streams : s.tokens <= most, StackLimit > Needed(most)
    PROVE  Spec => []RecursionConsumes
<1>1. Needed(most) \in Nat /\ StackLimit \in Nat
  BY StackAssumption DEF Needed, Growth, PerToken
<1>2. StackOK /\ (BangRecursion \/ Len(stack) <= Needed(most)) => RecursionConsumes
  <2>. SUFFICES ASSUME StackOK, BangRecursion \/ Len(stack) <= Needed(most)
                PROVE  RecursionConsumes
    OBVIOUS
  <2>1. Len(stack) \in Nat
    BY LenProperties DEF StackOK
  <2>. QED
    BY <1>1, <2>1 DEF RecursionConsumes, Overflow
<1>. QED
  BY <1>2, StackIsLinear, MachineInvariant, PTL
=============================================================================
