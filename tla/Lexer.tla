------------------------------- MODULE Lexer --------------------------------
(***************************************************************************)
(* Tokenize and LexerNextToken of compiler/Frontend/Lexer/Lexer.c.         *)
(*                                                                         *)
(* The source comes into sight two characters at a time and is the         *)
(* environment's choice.  A character is a class of those the lexer treats *)
(* alike; a keyword is one character of the model, which is a keyword only *)
(* when it stands alone.  `at' is the place in LexerNextToken, a step of   *)
(* which reads at most one character.                                      *)
(*                                                                         *)
(* Diagnostics are recorded and shown later, all of them.  One recorded    *)
(* behind a newline has Column 0, and PrintDiagnostics then writes         *)
(* Column - 1, 2^32 - 1, characters of the line: it faults.  Of all that   *)
(* is recorded this alone decides something: `misplaced'.                  *)
(*                                                                         *)
(* Left out: the other positions, texts and messages, with LastToken,      *)
(* which only the reports read; the depths of parentheses and of square    *)
(* brackets and MatchDepth, which decide nothing (InMatch, which would     *)
(* raise the last, is never set).  LexerPeekToken and LexerConsumePeek     *)
(* have no caller.                                                         *)
(***************************************************************************)
EXTENDS Integers, Sequences, FiniteSets

CONSTANT
    Sources   \* bound: the classes of characters a source is made of, and its length

Contexts == {"unsafe", "macro"}
Keywords == Contexts \cup {"fn", "keyword"}   \* "keyword": any of the others
Letters == Keywords \cup {"letter", "x"}
Digits == {"0", "digit"}                      \* "digit": 1 to 9
Blanks == {"blank", "newline"}
\* "~": those no token begins with; the others of one character each are like ",".
Marks == {"^", "!", "/", "*", "+", "-", "=", ">", "<", ".", ":", "{", "}", ",",
          "quote", "apostrophe", "backslash", "~"}

Characters == Letters \cup Digits \cup Blanks \cup Marks \cup {"_"}

ASSUME SourcesAssumption ==
    \A s \in Sources : s.alphabet \subseteq Characters /\ s.length \in Nat \ 0..1

VARIABLES
    ahead,        \* Source[Cursor] and the one behind it; "end" is the '\0'
    alphabet,     \* what the characters behind them are chosen from (only a bound)
    left,         \* how many may still come into sight (only a bound)
    at,           \* the place in LexerNextToken, or what became of Tokenize
    token,        \* the type of _Token
    BraceDepth,
    In,           \* InUnsafe and InMacro
    Depth,        \* Context.UnsafeDepth and Context.MacroDepth
    HasError,
    misplaced,    \* a diagnostic that may still be shown has Column 0
    refused,      \* history: memory was refused
    nest,         \* history: the braces open, with the contexts each opened
    ended         \* history: an EOF is in the stream

depths == <<BraceDepth, In, Depth, nest>>
reports == <<misplaced, refused>>
vars == <<ahead, alphabet, left, at, token, depths, HasError, reports, ended>>

Peek == ahead[1]
Second == ahead[2]
IsAtEnd == Peek = "end"

-----------------------------------------------------------------------------
(* LexerNext: every character read counts, wherever it stands *)

Advance ==
    /\ \/ /\ Second # "end" /\ left > 0
          /\ \E c \in alphabet : ahead' = <<Second, c>>
          /\ left' = left - 1
       \/ /\ ahead' = <<Second, "end">>
          /\ left' = 0
    /\ UNCHANGED alphabet

\* The brace that follows the keyword opens its context.
OpenBrace ==
    /\ BraceDepth' = BraceDepth + 1
    /\ Depth' = [k \in Contexts |-> IF In[k] THEN Depth[k] + 1 ELSE Depth[k]]
    /\ In' = [k \in Contexts |-> FALSE]
    /\ nest' = Append(nest, {k \in Contexts : In[k]})

Closed ==
    /\ BraceDepth' = BraceDepth - 1
    /\ nest' = IF nest = <<>> THEN nest ELSE SubSeq(nest, 1, Len(nest) - 1)

\* Mutants: a closing brace closes no context; or one that is not open.
CloseBraceLeaving == Closed /\ UNCHANGED <<In, Depth>>
CloseBraceBelow ==
    Closed /\ Depth' = [k \in Contexts |-> Depth[k] - 1] /\ UNCHANGED In

\* Any closing brace closes one of each context.
CloseBrace ==
    /\ Closed
    /\ Depth' = [k \in Contexts |-> IF Depth[k] > 0 THEN Depth[k] - 1 ELSE 0]
    /\ UNCHANGED In

LexerNext ==
    /\ Advance
    /\ CASE Peek = "{" -> OpenBrace
         [] Peek = "}" -> CloseBrace
         [] OTHER      -> UNCHANGED depths

-----------------------------------------------------------------------------
(* LexerNextToken *)

\* A step of the lexer at `place', which goes on at `then'.
At(place, then) == at = place /\ at' = then
Look == UNCHANGED <<ahead, alphabet, left, depths>>
Same == UNCHANGED <<token, HasError>>
Kept == UNCHANGED <<reports, ended>>

\* PrintDiagnostics, behind which the lexer goes on at `then'.
PrintDiagnostics(then) == IF misplaced THEN "faulted" ELSE then

InComment == Peek = "^" \/ (Peek = "!" /\ Second = "^") \/ (Peek = "/" /\ Second = "/")
InBlockComment == Peek = "/" /\ Second = "*"
Closes == Peek = "*" /\ Second = "/"

\* Mutant: the end of the source does not end a block comment.
BlockCommentForever ==
    \/ At("skip", "opening") /\ InBlockComment /\ LexerNext
    \/ At("opening", "block") /\ LexerNext
    \/ At("block", IF Closes THEN "closing" ELSE "block") /\ LexerNext
    \/ At("closing", "skip") /\ LexerNext

BlockComment ==
    \/ At("skip", "opening") /\ InBlockComment /\ LexerNext
    \/ At("opening", "block") /\ LexerNext
    \/ At("block", IF Closes THEN "closing" ELSE "block") /\ ~IsAtEnd /\ LexerNext
    \/ At("block", "skip") /\ IsAtEnd /\ Look
    \/ At("closing", "skip") /\ LexerNext

LexerSkipWC ==
    /\ \/ At("skip", "skip") /\ Peek \in Blanks /\ LexerNext
       \/ At("skip", "comment") /\ InComment /\ Look
       \/ At("comment", "comment") /\ Peek \notin {"newline", "end"} /\ LexerNext
       \/ At("comment", "skip") /\ Peek \in {"newline", "end"} /\ Look
       \/ BlockComment
       \/ At("skip", "start") /\ Peek \notin Blanks /\ ~InComment
             /\ ~InBlockComment /\ Look
    /\ Same /\ Kept

\* The operators of more than one character, by what may follow the first.
Seconds(c) ==
    CASE c \in {"+", "=", "!", "<"} -> {"="}
      [] c = "-" -> {"=", ">"}
      [] c = ">" -> {"=", ">"}
      [] c \in {":", "."} -> {c}
      [] OTHER -> {}

Unexpected == {"backslash", "~"}
IsNumber == Peek \in Digits \/ (Peek = "." /\ Second \in Digits)
Start(then, type) == At("start", then) /\ token' = type /\ UNCHANGED HasError

\* The branches of LexerNextToken.
FirstCharacter ==
    \/ IsAtEnd /\ Start("finish", "EOF")
    \/ Peek \in Letters \cup {"_"}
          /\ Start("word", IF Peek \in Keywords THEN Peek ELSE "identifier")
    \/ IsNumber /\ Start(IF Peek = "0" /\ Second = "x" THEN "hex mark" ELSE "number",
                         "number")
    \* The length of a lone quote's token is -1, of an unsigned type, and memcpy faults.
    \/ Peek = "quote"
          /\ Start(IF Second = "end" THEN "faulted" ELSE "string", "string")
    \/ Peek = "apostrophe" /\ Start("character", "character")
    \/ /\ Peek \in Marks \ {"quote", "apostrophe"} /\ ~IsNumber
       /\ IF Second \in Seconds(Peek)
          THEN Start(IF Peek = "." THEN "dots" ELSE "operator", "operator")
          ELSE Start(IF Peek \in Unexpected THEN PrintDiagnostics("finish") ELSE "finish",
                     Peek)

\* Mutant: an error is forgotten when it is returned.
BeginTokenForgetting ==
    /\ IF HasError THEN At("start", "collect") /\ token' = "EOF" /\ HasError' = FALSE
                   ELSE FirstCharacter
    /\ LexerNext
    /\ Kept

\* After an error every call reads one character and returns EOF.
BeginToken ==
    /\ IF HasError THEN Start("collect", "EOF") ELSE FirstCharacter
    /\ LexerNext
    /\ Kept

\* The second character of an operator, and the third of "...".
Operator ==
    /\ \/ At("operator", "finish")
       \/ At("dots", IF Second = "." THEN "operator" ELSE "finish")
    /\ LexerNext /\ Same /\ Kept

\* ResolveIdentifier is given the whole word: more than a keyword is none.
Word ==
    /\ IF Peek \in Letters \cup Digits \cup {"_"}
       THEN At("word", "word") /\ LexerNext /\ token' = "identifier"
       ELSE At("word", "finish") /\ Look /\ UNCHANGED token
    /\ UNCHANGED HasError /\ Kept

\* A hexadecimal number is returned without what the others end with.
Number ==
    /\ \/ at \in {"number", "fraction", "hex"} /\ at' = at /\ Peek \in Digits
             /\ LexerNext
       \/ At("number", "fraction") /\ Peek = "." /\ LexerNext
       \/ At("number", "finish") /\ Peek \notin Digits \cup {"."} /\ Look
       \/ At("fraction", "finish") /\ Peek \notin Digits /\ Look
       \/ At("hex mark", "hex") /\ LexerNext
       \/ At("hex", "collect") /\ Peek \notin Digits /\ Look
    /\ Same /\ Kept

StringCharacter ==
    /\ \/ At("string", "string") /\ Peek \notin {"quote", "newline", "backslash", "end"}
       \/ At("string", "escape") /\ Peek = "backslash"
    /\ LexerNext /\ UNCHANGED <<HasError, misplaced>>

\* Any character is taken.  A newline is no valid escape, and is reported behind it.
StringEscape ==
    /\ At("escape", "string")
    /\ misplaced' = (misplaced \/ Peek = "newline")
    /\ LexerNext /\ UNCHANGED HasError

\* A newline is an error of its own.  At the end of the source the string is reported
\* as unterminated besides, closed or not: behind that newline, or in its own line.
StringEnd ==
    \/ /\ At("string", IF Second = "end" THEN PrintDiagnostics("finish") ELSE "finish")
       /\ Peek = "quote" /\ LexerNext /\ UNCHANGED <<HasError, misplaced>>
    \/ /\ At("string", IF Second = "end" THEN "faulted" ELSE PrintDiagnostics("finish"))
       /\ misplaced' = (misplaced \/ Second = "end")
       /\ Peek = "newline" /\ LexerNext /\ HasError' = TRUE
    \/ /\ At("string", PrintDiagnostics("finish"))
       /\ IsAtEnd /\ Look /\ UNCHANGED <<HasError, misplaced>>

String ==
    /\ StringCharacter \/ StringEscape \/ StringEnd
    /\ UNCHANGED <<token, refused, ended>>

\* The literal is one character; a keyword has more.
CharacterLiteral ==
    /\ \/ At("character", "apostrophe") /\ Peek \notin Keywords
             /\ UNCHANGED HasError
       \/ At("character", PrintDiagnostics("finish")) /\ Peek \in Keywords
             /\ HasError' = TRUE
       \/ At("apostrophe", "finish") /\ Peek = "apostrophe" /\ UNCHANGED HasError
       \/ At("apostrophe", PrintDiagnostics("finish")) /\ Peek # "apostrophe"
             /\ HasError' = TRUE
    /\ LexerNext
    /\ UNCHANGED token /\ Kept

\* What follows the token's own branch in LexerNextToken.  What is reported here, and
\* by Tokenize, is behind a newline only after an error and at the end of the source,
\* where nothing is shown any more.
FinishToken ==
    /\ At("finish", "collect")
    /\ In' = [k \in Contexts |-> In[k] \/ token = k]
    /\ UNCHANGED <<ahead, alphabet, left, BraceDepth, Depth, nest>> /\ Same /\ Kept

LexerNextToken ==
    \/ LexerSkipWC \/ BeginToken \/ Operator \/ Word \/ Number
    \/ String \/ CharacterLiteral \/ FinishToken

-----------------------------------------------------------------------------
(* Tokenize *)

\* Tokenize adds the token to the stream and goes on, but at an EOF outside of braces.
Tokenize ==
    /\ at = "collect"
    /\ ended' = (ended \/ token = "EOF")
    /\ at' = IF token = "EOF" /\ BraceDepth <= 0 THEN "stopped" ELSE "skip"
    /\ Look /\ Same /\ UNCHANGED reports

\* The tokens, the diagnostics and the copy of a string are written to what malloc and
\* realloc return.  (When an array has to grow is left out: it may each time.)
OutOfMemory ==
    /\ at \in {"string", "escape", "finish", "collect"}
          \/ (at = "start" /\ Peek \in Unexpected)
    /\ at' = "faulted" /\ refused' = TRUE
    /\ Look /\ Same /\ UNCHANGED <<misplaced, ended>>

Init ==
    /\ \E s \in Sources :
          /\ alphabet = s.alphabet /\ left = s.length - 2
          /\ ahead \in {a \in [1..2 -> s.alphabet \cup {"end"}] :
                            a[1] = "end" => a[2] = "end"}
    /\ at = "skip" /\ token = "none"
    /\ BraceDepth = 0 /\ nest = <<>>
    /\ In = [k \in Contexts |-> FALSE]
    /\ Depth = [k \in Contexts |-> 0]
    /\ HasError = FALSE /\ ended = FALSE
    /\ misplaced = FALSE /\ refused = FALSE

Next == LexerNextToken \/ Tokenize \/ OutOfMemory
Spec == Init /\ [][Next]_vars

\* The lexer waits for nothing: it takes its next step.
FairSpec == Spec /\ WF_vars(Next)

-----------------------------------------------------------------------------
(* Properties *)

\* The types of the variables; no context is left more often than entered.
TypeOK ==
    /\ ahead \in [1..2 -> Characters \cup {"end"}]
    /\ left \in Nat
    /\ BraceDepth \in Int
    /\ In \in [Contexts -> BOOLEAN] /\ Depth \in [Contexts -> Nat]
    /\ HasError \in BOOLEAN /\ ended \in BOOLEAN
    /\ misplaced \in BOOLEAN /\ refused \in BOOLEAN

\* The braces open that opened context k.
Opened(k) == {i \in DOMAIN nest : k \in nest[i]}

\* ApplyTokenContext flags no token outside of the braces of a context: however the
\* keyword, the brace that takes it and other braces follow each other, in whatever
\* string or comment, a context is no deeper than its braces are.
ContextsInside == \A k \in Contexts : Depth[k] <= Cardinality(Opened(k))

\* The parser reads on behind an EOF as if the stream ended there: once it holds an
\* EOF, nothing but EOF is added, though characters are still read after an error.
EOFIsLast == ended /\ at = "collect" => token = "EOF"

\* At the end of the source, with a brace counted open: Tokenize never breaks.
Endless == IsAtEnd /\ BraceDepth > 0

\* What Tokenize may fault at: memory that is refused, a diagnostic at the beginning of
\* a line, and a string at the end of the source, a lone quote, whose copy is too long.
FaultKnown == refused \/ misplaced \/ (token = "string" /\ IsAtEnd)

\* Tokenize returns for every source but one that ends with a brace counted open, unless
\* it faults, which nothing but a string with a newline or a lone quote makes it do
\* while there is memory: no comment, literal or operator that is cut off anywhere.
TokenizeEnds == <>(at = "stopped" \/ Endless \/ (at = "faulted" /\ FaultKnown))

\* Lexer.c:926 reports "unclosed '{'", "expected '}' before end of file", as a compiler does
\* that goes on to show it: Tokenize returns, or faults.
TokenizeStops == <>(at \in {"stopped", "faulted"})

=============================================================================
