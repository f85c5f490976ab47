---------------------------- MODULE Lexer_proofs -----------------------------
(***************************************************************************)
(* The stream of tokens and the contexts of its braces, for every source,  *)
(* however long.                                                           *)
(*                                                                         *)
(* EOFIsLast is not inductive: that the next token is an EOF again depends *)
(* on what was read, or went wrong, before the first.  The invariant       *)
(* remembers it: behind an EOF the source has ended or an error was found, *)
(* neither of which is ever taken back.                                    *)
(***************************************************************************)
EXTENDS Lexer, FiniteSetTheorems, SequenceTheorems, TLAPS

\* The characters in sight; behind the end of the source there is none.
AheadInv ==
    /\ ahead \in [1..2 -> Characters \cup {"end"}]
    /\ alphabet \subseteq Characters
    /\ left \in Nat
    /\ IsAtEnd => Second = "end"

\* The braces and the contexts.
DepthInv ==
    /\ BraceDepth \in Int
    /\ In \in [Contexts -> BOOLEAN] /\ Depth \in [Contexts -> Nat]
    /\ nest \in Seq(SUBSET Contexts)
    /\ ContextsInside

\* The places where the lexer can be behind the first EOF.
BetweenTokens == {"skip", "comment", "opening", "block", "closing", "start", "finish",
                  "collect", "stopped", "faulted"}

EndInv ==
    /\ HasError \in BOOLEAN /\ ended \in BOOLEAN
    /\ misplaced \in BOOLEAN /\ refused \in BOOLEAN
    /\ token = "EOF" \/ ended => HasError \/ IsAtEnd
    /\ ended => at \in BetweenTokens
    /\ ended /\ at \in {"finish", "collect"} => token = "EOF"

IInv == AheadInv /\ DepthInv /\ EndInv

-----------------------------------------------------------------------------
(* Reading a character *)

\* LexerNext keeps two characters in sight, and never gets away from the end.
LEMMA AdvanceAhead ==
    ASSUME AheadInv, Advance
    PROVE  AheadInv' /\ (IsAtEnd => IsAtEnd')
<1>1. Second \in Characters \cup {"end"}
  BY DEF AheadInv, Second
<1>2. CASE Second # "end" /\ left > 0 /\ (\E c \in alphabet : ahead' = <<Second, c>>)
              /\ left' = left - 1 /\ UNCHANGED alphabet
  <2>1. PICK c \in alphabet : ahead' = <<Second, c>>
    BY <1>2
  <2>2. ahead' \in [1..2 -> Characters \cup {"end"}] /\ ahead'[1] = Second
    BY <1>1, <2>1 DEF AheadInv
  <2> QED BY <1>2, <2>2 DEF AheadInv, IsAtEnd, Peek, Second
<1>3. CASE ahead' = <<Second, "end">> /\ left' = 0 /\ UNCHANGED alphabet
  <2>1. ahead' \in [1..2 -> Characters \cup {"end"}] /\ ahead'[1] = Second
          /\ ahead'[2] = "end"
    BY <1>1, <1>3
  <2> QED BY <1>3, <2>1 DEF AheadInv, IsAtEnd, Peek, Second
<1> QED BY <1>2, <1>3 DEF Advance

\* Positions of the braces that opened a context are finitely many.
LEMMA OpenedFinite ==
    ASSUME nest \in Seq(SUBSET Contexts), NEW k
    PROVE  /\ IsFiniteSet(Opened(k))
           /\ Cardinality(Opened(k)) \in Nat
           /\ Opened(k) \subseteq 1..Len(nest)
<1>1. Opened(k) \subseteq 1..Len(nest)
  BY DEF Opened
<1>2. IsFiniteSet(1..Len(nest))
  BY FS_Interval
<1>3. IsFiniteSet(Opened(k))
  BY <1>1, <1>2, FS_Subset
<1> QED BY <1>1, <1>3, FS_CardinalityType

\* A brace that opens a context deepens it by one, as its own.
LEMMA OpenBraceDepth == ASSUME DepthInv, OpenBrace PROVE DepthInv'
<1>1. nest \in Seq(SUBSET Contexts) /\ {k \in Contexts : In[k]} \in SUBSET Contexts
  BY DEF DepthInv
<1>2. /\ nest' \in Seq(SUBSET Contexts)
      /\ Len(nest') = Len(nest) + 1
      /\ \A i \in 1..Len(nest) : nest'[i] = nest[i]
      /\ nest'[Len(nest) + 1] = {k \in Contexts : In[k]}
  BY <1>1 DEF OpenBrace
<1>3. /\ BraceDepth' \in Int /\ In' \in [Contexts -> BOOLEAN]
      /\ Depth' \in [Contexts -> Nat]
  BY DEF DepthInv, OpenBrace
<1>4. ASSUME NEW k \in Contexts PROVE Depth'[k] <= Cardinality(Opened(k)')
  <2>1. /\ IsFiniteSet(Opened(k)) /\ Cardinality(Opened(k)) \in Nat
        /\ Opened(k) \subseteq 1..Len(nest)
    BY <1>1, OpenedFinite
  <2>2. Depth[k] \in Nat /\ Depth[k] <= Cardinality(Opened(k))
    BY DEF DepthInv, ContextsInside
  <2>3. CASE In[k]
    <3>1. Opened(k)' = Opened(k) \cup {Len(nest) + 1}
      BY <1>1, <1>2, <2>3 DEF Opened
    <3>2. Len(nest) + 1 \notin Opened(k)
      BY <1>1, <2>1
    <3>4. Cardinality(Opened(k) \cup {Len(nest) + 1}) = Cardinality(Opened(k)) + 1
      BY <2>1, <3>2, FS_AddElement
    <3>3. Depth'[k] = Depth[k] + 1
      BY <2>3 DEF OpenBrace
    <3> QED BY <2>1, <2>2, <3>1, <3>3, <3>4
  <2>4. CASE ~In[k]
    <3>1. Opened(k)' = Opened(k)
      BY <1>1, <1>2, <2>4 DEF Opened
    <3>2. Depth'[k] = Depth[k]
      BY <2>4 DEF OpenBrace
    <3> QED BY <2>2, <3>1, <3>2
  <2> QED BY <2>3, <2>4
<1> QED BY <1>2, <1>3, <1>4 DEF DepthInv, ContextsInside

\* A closing brace takes one from every context that is open, its own among them.
LEMMA CloseBraceDepth == ASSUME DepthInv, CloseBrace PROVE DepthInv'
<1>1. nest \in Seq(SUBSET Contexts)
  BY DEF DepthInv
<1>2. /\ BraceDepth' \in Int /\ In' \in [Contexts -> BOOLEAN]
      /\ Depth' \in [Contexts -> Nat]
  BY DEF DepthInv, CloseBrace, Closed
<1>3. CASE nest = <<>>
  <2>1. nest' = nest
    BY <1>3 DEF CloseBrace, Closed
  <2>2. ASSUME NEW k \in Contexts PROVE Depth'[k] <= Cardinality(Opened(k)')
    <3>1. Opened(k) = {} /\ Opened(k)' = {}
      BY <1>3, <2>1 DEF Opened
    <3>2. Cardinality(Opened(k)) = 0 /\ Cardinality(Opened(k)') = 0
      BY <3>1, FS_EmptySet
    <3>3. Depth[k] \in Nat /\ Depth[k] <= 0
      BY <3>2 DEF DepthInv, ContextsInside
    <3>4. Depth'[k] = 0
      BY <3>3 DEF CloseBrace
    <3> QED BY <3>2, <3>4
  <2> QED BY <1>1, <1>2, <2>1, <2>2 DEF DepthInv, ContextsInside
<1>4. CASE nest # <<>>
  <2>1. /\ nest' \in Seq(SUBSET Contexts)
        /\ Len(nest) \in Nat \ {0}
        /\ Len(nest') = Len(nest) - 1
        /\ \A i \in 1..(Len(nest) - 1) : nest'[i] = nest[i]
    <3>1. nest' = SubSeq(nest, 1, Len(nest) - 1)
      BY <1>4 DEF CloseBrace, Closed
    <3>2. Len(nest) \in Nat \ {0}
      BY <1>1, <1>4
    <3>3. \A i \in 1..(Len(nest) - 1) : nest[i] \in SUBSET Contexts
      BY <1>1
    <3>4. /\ nest' \in Seq(SUBSET Contexts)
          /\ Len(nest') = IF 1 <= Len(nest) - 1 THEN Len(nest) - 1 - 1 + 1 ELSE 0
          /\ \A i \in 1..(Len(nest) - 1 - 1 + 1) : nest'[i] = nest[1 + i - 1]
      BY <3>1, <3>2, <3>3, SubSeqProperties
    <3>5. Len(nest') = Len(nest) - 1
      <4>1. Len(nest) \in Int /\ Len(nest) >= 1
        BY <3>2
      <4>2. ASSUME NEW n \in Int, n >= 1
            PROVE  (IF 1 <= n - 1 THEN n - 1 - 1 + 1 ELSE 0) = n - 1
        BY <4>2
      <4> QED BY <3>4, <4>1, <4>2
    <3>6. \A i \in 1..(Len(nest) - 1) : nest'[i] = nest[i]
      BY <3>2, <3>4
    <3> QED BY <3>2, <3>4, <3>5, <3>6
  <2>2. ASSUME NEW k \in Contexts PROVE Depth'[k] <= Cardinality(Opened(k)')
    <3>1. IsFiniteSet(Opened(k)) /\ Cardinality(Opened(k)) \in Nat
      BY <1>1, OpenedFinite
    <3>2. Opened(k)' = Opened(k) \ {Len(nest)}
      BY <1>1, <2>1 DEF Opened
    <3> DEFINE less == Opened(k) \ {Len(nest)}
    <3>3. Cardinality(less) \in Nat /\ Cardinality(less) >= Cardinality(Opened(k)) - 1
      <4>1. IsFiniteSet(less) /\ (Cardinality(less) = Cardinality(Opened(k))
                                   \/ Cardinality(less) = Cardinality(Opened(k)) - 1)
        BY <3>1, FS_RemoveElement
      <4>2. Cardinality(less) \in Nat
        BY <4>1, FS_CardinalityType
      <4> HIDE DEF less
      <4> QED BY <3>1, <4>1, <4>2
    <3>4. Depth[k] \in Nat /\ Depth[k] <= Cardinality(Opened(k))
      BY DEF DepthInv, ContextsInside
    <3>5. Depth'[k] = IF Depth[k] > 0 THEN Depth[k] - 1 ELSE 0
      BY DEF CloseBrace
    <3> HIDE DEF less
    <3>6. Depth'[k] <= Cardinality(less)
      BY <3>1, <3>3, <3>4, <3>5
    <3> QED BY <3>2, <3>6 DEF less
  <2> QED BY <1>2, <2>1, <2>2 DEF DepthInv, ContextsInside
<1> QED BY <1>3, <1>4

\* The braces stay as they are.
LEMMA SameDepth == ASSUME DepthInv, UNCHANGED depths PROVE DepthInv'
  BY DEF DepthInv, depths, ContextsInside, Opened

\* A character read, or none: the characters in sight and the braces stay in order.
LEMMA NextReads ==
    ASSUME AheadInv, DepthInv, LexerNext \/ Look
    PROVE  AheadInv' /\ DepthInv' /\ (IsAtEnd => IsAtEnd')
<1>1. CASE Look
  <2>1. AheadInv' /\ (IsAtEnd => IsAtEnd')
    BY <1>1 DEF Look, AheadInv, IsAtEnd, Peek, Second
  <2> QED BY <1>1, <2>1, SameDepth DEF Look
<1>2. CASE LexerNext
  <2>1. AheadInv' /\ (IsAtEnd => IsAtEnd')
    BY <1>2, AdvanceAhead DEF LexerNext
  <2>2. OpenBrace \/ CloseBrace \/ UNCHANGED depths
    BY <1>2 DEF LexerNext
  <2> QED BY <2>1, <2>2, OpenBraceDepth, CloseBraceDepth, SameDepth
<1> QED BY <1>1, <1>2

-----------------------------------------------------------------------------
(* The steps *)

\* A lexer that has read nothing.
LEMMA InitIInv == Init => IInv
<1> SUFFICES ASSUME Init PROVE IInv
  OBVIOUS
<1>1. PICK s \in Sources :
        /\ alphabet = s.alphabet /\ left = s.length - 2
        /\ ahead \in {a \in [1..2 -> s.alphabet \cup {"end"}] :
                          a[1] = "end" => a[2] = "end"}
  BY DEF Init
<1>2. s.alphabet \subseteq Characters /\ s.length \in Nat \ 0..1
  BY SourcesAssumption
<1>3. AheadInv
  BY <1>1, <1>2 DEF AheadInv, IsAtEnd, Peek, Second
<1>4. \A k \in Contexts : Opened(k) = {}
  BY DEF Init, Opened
<1>5. DepthInv
  <2>1. \A k \in Contexts : Cardinality(Opened(k)) = 0
    BY <1>4, FS_EmptySet
  <2>2. nest \in Seq(SUBSET Contexts)
    BY DEF Init
  <2>3. BraceDepth \in Int /\ In \in [Contexts -> BOOLEAN] /\ Depth \in [Contexts -> Nat]
    BY DEF Init
  <2>4. \A k \in Contexts : Depth[k] = 0
    BY DEF Init
  <2> QED BY <2>1, <2>2, <2>3, <2>4 DEF DepthInv, ContextsInside
<1>6. EndInv
  BY DEF Init, EndInv, BetweenTokens
<1> QED BY <1>3, <1>5, <1>6 DEF IInv

\* All steps but FinishToken read a character or none.
LEMMA StepReads ==
    ASSUME Next PROVE LexerNext \/ Look \/ FinishToken
<1>1. LexerSkipWC => LexerNext \/ Look
  BY DEF LexerSkipWC, BlockComment
<1>2. BeginToken \/ Operator \/ Word \/ Number \/ CharacterLiteral \/ Tokenize \/ OutOfMemory
        => LexerNext \/ Look
  BY DEF BeginToken, Operator, Word, Number, CharacterLiteral, Tokenize, OutOfMemory
<1>3. String => LexerNext \/ Look
  BY DEF String, StringCharacter, StringEscape, StringEnd
<1> QED BY <1>1, <1>2, <1>3 DEF Next, LexerNextToken

\* What is recorded of diagnostics and of memory is true or false.
LEMMA StepReports ==
    ASSUME EndInv, Next
    PROVE  misplaced' \in BOOLEAN /\ refused' \in BOOLEAN
<1>1. misplaced \in BOOLEAN /\ refused \in BOOLEAN
  BY DEF EndInv
<1>2. CASE LexerSkipWC \/ BeginToken \/ Operator \/ Word \/ Number \/ CharacterLiteral
              \/ FinishToken \/ Tokenize
  <2>1. UNCHANGED reports
    BY <1>2 DEF LexerSkipWC, BeginToken, Operator, Word, Number, CharacterLiteral, FinishToken,
                Tokenize, Kept
  <2> QED BY <1>1, <2>1 DEF reports
<1>3. CASE OutOfMemory
  BY <1>1, <1>3 DEF OutOfMemory
<1>4. CASE String
  <2>1. refused' = refused
    BY <1>4 DEF String
  <2>2. \/ misplaced' = misplaced \/ misplaced' = (misplaced \/ Peek = "newline")
        \/ misplaced' = (misplaced \/ Second = "end")
    BY <1>4, Zenon DEF String, StringCharacter, StringEscape, StringEnd
  <2>3. misplaced' \in BOOLEAN
    BY <1>1, <2>2
  <2> QED BY <1>1, <2>1, <2>3
<1> QED BY <1>2, <1>3, <1>4 DEF Next, LexerNextToken

\* After an error, and at the end of the source, a token that is begun is an EOF.
LEMMA BeginTokenEnd ==
    ASSUME EndInv, BeginToken, IsAtEnd => IsAtEnd'
    PROVE  EndInv'
<1>1. HasError' = HasError /\ ended' = ended /\ misplaced' = misplaced /\ refused' = refused
  BY DEF BeginToken, FirstCharacter, Start, Kept, reports
<1>2. CASE HasError
  BY <1>1, <1>2 DEF EndInv, BeginToken, Start, At, BetweenTokens
<1>3. CASE ~HasError /\ IsAtEnd
  <2>1. at' = "finish" /\ token' = "EOF"
    BY <1>3 DEF BeginToken, FirstCharacter, Start, At, IsAtEnd, IsNumber, Digits, Letters,
                Keywords, Contexts, Marks
  <2> QED BY <1>1, <1>3, <2>1 DEF EndInv, BetweenTokens
<1>4. CASE ~HasError /\ ~IsAtEnd
  <2>1. ended = FALSE
    BY <1>4 DEF EndInv
  <2>2. token' # "EOF"
    BY <1>4 DEF BeginToken, FirstCharacter, Start, IsAtEnd, IsNumber, Digits, Letters,
                Keywords, Contexts, Marks
  <2> QED BY <1>1, <2>1, <2>2 DEF EndInv
<1> QED BY <1>2, <1>3, <1>4

\* The places of a token's own branch, where no EOF is in the stream.
LEMMA InTokenEnd ==
    ASSUME EndInv, at \notin BetweenTokens, UNCHANGED ended, token' = "EOF" => token = "EOF",
           HasError' \in BOOLEAN, HasError => HasError', IsAtEnd => IsAtEnd',
           misplaced' \in BOOLEAN, refused' \in BOOLEAN
    PROVE  EndInv'
  BY DEF EndInv

\* Behind the first EOF there is no way back to another token.
LEMMA StepEnd ==
    ASSUME EndInv, Next, IsAtEnd => IsAtEnd'
    PROVE  EndInv'
<1> misplaced' \in BOOLEAN /\ refused' \in BOOLEAN
  BY StepReports
<1>1. CASE LexerSkipWC
  <2>1. at' \in BetweenTokens \ {"finish", "collect"} /\ UNCHANGED <<token, HasError, ended>>
    BY <1>1 DEF LexerSkipWC, BlockComment, At, Same, Kept, BetweenTokens
  <2> QED BY <2>1 DEF EndInv
<1>2. CASE BeginToken
  BY <1>2, BeginTokenEnd
<1>3. CASE Operator
  <2>1. at \notin BetweenTokens /\ UNCHANGED <<token, HasError, ended>>
    BY <1>3 DEF Operator, At, Same, Kept, BetweenTokens
  <2> QED BY <2>1, InTokenEnd DEF EndInv
<1>4. CASE Word
  <2>1. at \notin BetweenTokens /\ UNCHANGED <<HasError, ended>>
          /\ (token' = "EOF" => token = "EOF")
    BY <1>4 DEF Word, At, Kept, BetweenTokens
  <2> QED BY <2>1, InTokenEnd DEF EndInv
<1>5. CASE Number
  <2>1. at \notin BetweenTokens /\ UNCHANGED <<token, HasError, ended>>
    BY <1>5 DEF Number, At, Same, Kept, BetweenTokens
  <2> QED BY <2>1, InTokenEnd DEF EndInv
<1>6. CASE String
  <2>1. at \notin BetweenTokens /\ UNCHANGED <<token, ended>>
    BY <1>6 DEF String, StringCharacter, StringEscape, StringEnd, At, BetweenTokens
  <2>2. HasError' = HasError \/ HasError' = TRUE
    BY <1>6 DEF String, StringCharacter, StringEscape, StringEnd
  <2>3. HasError' \in BOOLEAN /\ (HasError => HasError')
    BY <2>2, Zenon DEF EndInv
  <2> QED BY <2>1, <2>3, InTokenEnd
<1>7. CASE CharacterLiteral
  <2>1. at \notin BetweenTokens /\ UNCHANGED <<token, ended>>
    BY <1>7 DEF CharacterLiteral, At, Kept, BetweenTokens
  <2>2. HasError' = HasError \/ HasError' = TRUE
    BY <1>7 DEF CharacterLiteral
  <2>3. HasError' \in BOOLEAN /\ (HasError => HasError')
    BY <2>2, Zenon DEF EndInv
  <2> QED BY <2>1, <2>3, InTokenEnd
<1>8. CASE FinishToken
  BY <1>8 DEF FinishToken, At, Same, Kept, EndInv, BetweenTokens
<1>9. CASE Tokenize
  BY <1>9 DEF Tokenize, Same, EndInv, BetweenTokens
<1>10. CASE OutOfMemory
  BY <1>10 DEF OutOfMemory, Same, EndInv, BetweenTokens
<1> QED BY <1>1, <1>2, <1>3, <1>4, <1>5, <1>6, <1>7, <1>8, <1>9, <1>10
        DEF Next, LexerNextToken

\* Every step keeps the invariant.
LEMMA StepIInv == ASSUME IInv, [Next]_vars PROVE IInv'
<1>1. CASE Next /\ (LexerNext \/ Look)
  BY <1>1, NextReads, StepEnd DEF IInv
<1>2. CASE Next /\ FinishToken
  <2>1. AheadInv' /\ (IsAtEnd => IsAtEnd')
    BY <1>2 DEF FinishToken, IInv, AheadInv, IsAtEnd, Peek, Second
  <2>2. DepthInv'
    BY <1>2 DEF FinishToken, IInv, DepthInv, ContextsInside, Opened
  <2> QED BY <1>2, <2>1, <2>2, StepEnd DEF IInv
<1>3. CASE UNCHANGED vars
  <2>1. DepthInv'
    BY <1>3, SameDepth DEF IInv, vars
  <2> QED BY <1>3, <2>1 DEF IInv, vars, reports, AheadInv, EndInv, IsAtEnd, Peek, Second
<1> QED BY <1>1, <1>2, <1>3, StepReads

\* In every reachable state.
LEMMA Invariance == Spec => []IInv
  BY InitIInv, StepIInv, PTL DEF Spec

-----------------------------------------------------------------------------
\* The types of the lexer's state: no context is left more often than entered.
THEOREM TypeCorrect == Spec => []TypeOK
<1>1. IInv => TypeOK
  BY DEF IInv, AheadInv, DepthInv, EndInv, TypeOK
<1> QED BY Invariance, <1>1, PTL

\* However long the source, a context is no deeper than the braces it opened.
THEOREM ContextsNest == Spec => []ContextsInside
<1>1. IInv => ContextsInside
  BY DEF IInv, DepthInv
<1> QED BY Invariance, <1>1, PTL

\* The parser may take the first EOF for the end of the stream.
THEOREM EOFEnds == Spec => []EOFIsLast
<1>1. IInv => EOFIsLast
  BY DEF IInv, EndInv, EOFIsLast
<1> QED BY Invariance, <1>1, PTL
=============================================================================
