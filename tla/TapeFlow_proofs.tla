--------------------------- MODULE TapeFlow_proofs ---------------------------
(***************************************************************************)
(* Theorems about the finished tape of SyntaxTape, for every program: its  *)
(* brackets match; no jump enters a loop from outside or leaves its        *)
(* subprogram, and every subprogram ends with a RETURN.                    *)
(*                                                                         *)
(* Reading and Nest are recursive.  Nothing is proved about them by        *)
(* induction over their argument: that the equation of each has exactly    *)
(* one solution is part of the invariant, since the tape only grows at its *)
(* end and frames at its top.                                              *)
(***************************************************************************)
EXTENDS TapeFlow, SyntaxTape_proofs, FiniteSetTheorems

(***************************************************************************)
(* The brackets.                                                           *)
(***************************************************************************)
Brackets == Regions \cup {"scope", "mismatched"}

IsReading(f, t) ==
    f = [n \in 0..Len(t) |-> IF n = 0 THEN <<>> ELSE Read(f[n - 1], t[n])]
IsNest(f, s) ==
    f = [n \in 0..Len(s) |-> IF n = 0 THEN <<>> ELSE f[n - 1] \o Bracket(s[n])]

\* The equation has the solution r and no other.
ReadsAs(t, r) == r \in [0..Len(t) -> Seq(Brackets)] /\ \A f : IsReading(f, t) <=> f = r
NestsAs(s, q) == q \in [0..Len(s) -> Seq(Brackets)] /\ \A f : IsNest(f, s) <=> f = q

\* b is open at the end of the tape, or of the stack of activations.
Reads(t, b) == \E r : ReadsAs(t, r) /\ b = r[Len(t)]
Nests(s, b) == \E q : NestsAs(s, q) /\ b = q[Len(s)]

LEMMA ReadsBrackets ==
    ASSUME NEW t \in Seq(Instruction), NEW b, Reads(t, b)
    PROVE  b \in Seq(Brackets) /\ Reading(t)[Len(t)] = b
<1>1. PICK r : ReadsAs(t, r) /\ b = r[Len(t)]
  BY DEF Reads
<1>2. Reading(t) = r
  BY <1>1 DEF ReadsAs, Reading, IsReading
<1>3. Len(t) \in 0..Len(t)
  BY LenProperties
<1>. QED
  BY <1>1, <1>2, <1>3 DEF ReadsAs

LEMMA NestsBrackets ==
    ASSUME NEW s \in Seq(Frame), NEW b, Nests(s, b)
    PROVE  b \in Seq(Brackets) /\ Nest(s)[Len(s)] = b
<1>1. PICK q : NestsAs(s, q) /\ b = q[Len(s)]
  BY DEF Nests
<1>2. Nest(s) = q
  BY <1>1 DEF NestsAs, Nest, IsNest
<1>3. Len(s) \in 0..Len(s)
  BY LenProperties
<1>. QED
  BY <1>1, <1>2, <1>3 DEF NestsAs

LEMMA ReadsNothing == Reads(<<>>, <<>>)
<1>. DEFINE r == [n \in 0..0 |-> <<>>]
<1>1. r \in [0..Len(<<>>) -> Seq(Brackets)]
  BY EmptySeq
<1>2. \A f : IsReading(f, <<>>) <=> f = r
  BY DEF IsReading
<1>3. r[Len(<<>>)] = <<>>
  OBVIOUS
<1>. HIDE DEF r
<1>. QED
  BY <1>1, <1>2, <1>3 DEF Reads, ReadsAs

LEMMA NestsNothing == Nests(<<>>, <<>>)
<1>. DEFINE r == [n \in 0..0 |-> <<>>]
<1>1. r \in [0..Len(<<>>) -> Seq(Brackets)]
  BY EmptySeq
<1>2. \A f : IsNest(f, <<>>) <=> f = r
  BY DEF IsNest
<1>3. r[Len(<<>>)] = <<>>
  OBVIOUS
<1>. HIDE DEF r
<1>. QED
  BY <1>1, <1>2, <1>3 DEF Nests, NestsAs

\* An instruction leaves a sequence of brackets open.
LEMMA ReadType ==
    ASSUME NEW b \in Seq(Brackets), NEW a \in Instruction
    PROVE  Read(b, a) \in Seq(Brackets)
<1>1. {"scope", "mismatched"} \subseteq Brackets
  BY DEF Brackets
<1>2. a.op \in {"REGION_BEGIN", "REGION_END"} => a.arg \in Brackets
  BY DEF Instruction, Plain, Brackets
<1>3. b # <<>> => Pop(b) \in Seq(Brackets)
  BY PopTop
<1>4. \A x \in Brackets : Append(b, x) \in Seq(Brackets)
  BY AppendTop
<1>5. Append(b, "scope") \in Seq(Brackets) /\ Append(b, "mismatched") \in Seq(Brackets)
  BY <1>1, <1>4
<1>6. a.op = "REGION_BEGIN" => Append(b, a.arg) \in Seq(Brackets)
  BY <1>2, <1>4
<1>7. Closes(b, a) => Pop(b) \in Seq(Brackets)
  BY <1>3 DEF Closes
<1>. QED
  BY <1>5, <1>6, <1>7 DEF Read

LEMMA BracketType ==
    ASSUME NEW f
    PROVE  Bracket(f) \in Seq(Brackets)
<1>1. f.kind \in Regions => f.kind \in Brackets
  BY DEF Brackets
<1>2. "scope" \in Brackets
  BY DEF Brackets
<1>3. \A x \in Brackets : <<x>> \in Seq(Brackets)
  OBVIOUS
<1>4. <<>> \in Seq(Brackets)
  OBVIOUS
<1>. QED
  BY <1>1, <1>2, <1>3, <1>4 DEF Bracket

\* Reading one instruction more.
LEMMA ReadsAppend ==
    ASSUME NEW t \in Seq(Instruction), NEW a \in Instruction, NEW b, Reads(t, b)
    PROVE  Reads(Append(t, a), Read(b, a))
<1>. DEFINE u == Append(t, a)
            last == Read(b, a)
<1>1. PICK r : ReadsAs(t, r) /\ b = r[Len(t)]
  BY DEF Reads
<1>2. /\ Len(t) \in Nat /\ Len(u) = Len(t) + 1 /\ u[Len(t) + 1] = a
      /\ \A i \in 1..Len(t) : u[i] = t[i]
  BY AppendTop, LenProperties
<1>3. b \in Seq(Brackets)
  BY ReadsBrackets
<1>4. last \in Seq(Brackets)
  BY <1>3, ReadType
<1>5. last = Read(b, a)
  OBVIOUS
<1>. HIDE DEF u, last
<1>. DEFINE r2 == [n \in 0..(Len(t) + 1) |-> IF n = Len(t) + 1 THEN last ELSE r[n]]
<1>6. r \in [0..Len(t) -> Seq(Brackets)] /\ IsReading(r, t)
  BY <1>1 DEF ReadsAs
<1>7. r2 \in [0..Len(u) -> Seq(Brackets)]
  BY <1>2, <1>4, <1>6
<1>8. /\ r[0] = <<>>
      /\ \A n \in 1..Len(t) : r[n] = Read(r[n - 1], t[n])
  <2>1. r = [n \in 0..Len(t) |-> IF n = 0 THEN <<>> ELSE Read(r[n - 1], t[n])]
    BY <1>6, Zenon DEF IsReading
  <2>2. 0 \in 0..Len(t) /\ \A n \in 1..Len(t) : n \in 0..Len(t) /\ n # 0
    BY <1>2
  <2>3. \A n \in 0..Len(t) : r[n] = IF n = 0 THEN <<>> ELSE Read(r[n - 1], t[n])
    BY <2>1, Zenon
  <2>. QED
    BY <2>2, <2>3, Zenon
<1>9. IsReading(r2, u)
  <2>1. ASSUME NEW n \in 0..Len(u)
        PROVE  r2[n] = IF n = 0 THEN <<>> ELSE Read(r2[n - 1], u[n])
    <3>1. CASE n = 0
      BY <1>2, <1>8, <3>1
    <3>2. CASE n \in 1..Len(t)
      <4>1. r2[n] = r[n] /\ r2[n - 1] = r[n - 1] /\ u[n] = t[n] /\ n # 0
        BY <1>2, <3>2
      <4>. QED
        BY <1>8, <3>2, <4>1
    <3>3. CASE n = Len(t) + 1
      <4>1. r2[n] = last /\ r2[n - 1] = r[Len(t)] /\ u[n] = a /\ n # 0
        BY <1>2, <3>3
      <4>. QED
        BY <1>1, <1>5, <4>1
    <3>. QED
      BY <1>2, <3>1, <3>2, <3>3
  <2>2. r2 = [n \in 0..Len(u) |-> r2[n]]
    BY <1>2
  <2>. HIDE DEF r2
  <2>. QED
    BY <2>1, <2>2 DEF IsReading
<1>10. ASSUME NEW f, IsReading(f, u)
       PROVE  f = r2
  <2>. DEFINE h == [n \in 0..Len(t) |-> f[n]]
  <2>1. f = [n \in 0..Len(u) |-> IF n = 0 THEN <<>> ELSE Read(f[n - 1], u[n])]
    BY <1>10, Zenon DEF IsReading
  <2>2. \A n \in 0..Len(u) : f[n] = IF n = 0 THEN <<>> ELSE Read(f[n - 1], u[n])
    BY <2>1, Zenon
  <2>3. \A n \in 0..Len(t) : h[n] = IF n = 0 THEN <<>> ELSE Read(h[n - 1], t[n])
    <3>. SUFFICES ASSUME NEW n \in 0..Len(t)
                  PROVE  h[n] = IF n = 0 THEN <<>> ELSE Read(h[n - 1], t[n])
      OBVIOUS
    <3>1. n \in 0..Len(u) /\ h[n] = f[n]
      BY <1>2
    <3>2. n # 0 => h[n - 1] = f[n - 1] /\ t[n] = u[n]
      BY <1>2
    <3>. QED
      BY <2>2, <3>1, <3>2
  <2>4. h = [n \in 0..Len(t) |-> h[n]]
    OBVIOUS
  <2>5. \A n \in 0..Len(t) : h[n] = f[n]
    OBVIOUS
  <2>. HIDE DEF h
  <2>6. IsReading(h, t)
    BY <2>3, <2>4 DEF IsReading
  <2>7. h = r
    BY <1>1, <2>6 DEF ReadsAs
  <2>8. \A n \in 0..Len(u) : f[n] = r2[n]
    <3>. SUFFICES ASSUME NEW n \in 0..Len(u)
                  PROVE  f[n] = r2[n]
      OBVIOUS
    <3>1. CASE n \in 0..Len(t)
      BY <1>2, <2>5, <2>7, <3>1
    <3>2. CASE n = Len(t) + 1
      <4>1. n # 0 /\ n - 1 = Len(t) /\ Len(t) \in 0..Len(t) /\ u[n] = a /\ r2[n] = last
        BY <1>2, <3>2
      <4>2. f[n] = Read(f[n - 1], u[n])
        BY <2>2, <4>1
      <4>. QED
        BY <1>1, <1>5, <2>5, <2>7, <4>1, <4>2
    <3>. QED
      BY <1>2, <3>1, <3>2
  <2>9. f = [n \in 0..Len(u) |-> f[n]]
    BY <2>1, Zenon
  <2>10. r2 = [n \in 0..Len(u) |-> r2[n]]
    BY <1>2
  <2>. HIDE DEF r2
  <2>. QED
    BY <2>8, <2>9, <2>10
<1>11. r2[Len(u)] = last
  BY <1>2
<1>. HIDE DEF r2
<1>12. ReadsAs(u, r2)
  BY <1>7, <1>9, <1>10 DEF ReadsAs
<1>. QED
  BY <1>5, <1>11, <1>12 DEF Reads, u

\* One activation more.
LEMMA NestsAppend ==
    ASSUME NEW t \in Seq(Frame), NEW a \in Frame, NEW b, Nests(t, b)
    PROVE  Nests(Append(t, a), b \o Bracket(a))
<1>. DEFINE u == Append(t, a)
            last == b \o Bracket(a)
<1>1. PICK r : NestsAs(t, r) /\ b = r[Len(t)]
  BY DEF Nests
<1>2. /\ Len(t) \in Nat /\ Len(u) = Len(t) + 1 /\ u[Len(t) + 1] = a
      /\ \A i \in 1..Len(t) : u[i] = t[i]
  BY AppendTop, LenProperties
<1>3. b \in Seq(Brackets)
  BY NestsBrackets
<1>4. last \in Seq(Brackets)
  BY <1>3, BracketType, ConcatProperties
<1>5. last = b \o Bracket(a)
  OBVIOUS
<1>. HIDE DEF u, last
<1>. DEFINE r2 == [n \in 0..(Len(t) + 1) |-> IF n = Len(t) + 1 THEN last ELSE r[n]]
<1>6. r \in [0..Len(t) -> Seq(Brackets)] /\ IsNest(r, t)
  BY <1>1 DEF NestsAs
<1>7. r2 \in [0..Len(u) -> Seq(Brackets)]
  BY <1>2, <1>4, <1>6
<1>8. /\ r[0] = <<>>
      /\ \A n \in 1..Len(t) : r[n] = r[n - 1] \o Bracket(t[n])
  <2>1. r = [n \in 0..Len(t) |-> IF n = 0 THEN <<>> ELSE r[n - 1] \o Bracket(t[n])]
    BY <1>6, Zenon DEF IsNest
  <2>2. 0 \in 0..Len(t) /\ \A n \in 1..Len(t) : n \in 0..Len(t) /\ n # 0
    BY <1>2
  <2>3. \A n \in 0..Len(t) : r[n] = IF n = 0 THEN <<>> ELSE r[n - 1] \o Bracket(t[n])
    BY <2>1, Zenon
  <2>. QED
    BY <2>2, <2>3, Zenon
<1>9. IsNest(r2, u)
  <2>1. ASSUME NEW n \in 0..Len(u)
        PROVE  r2[n] = IF n = 0 THEN <<>> ELSE r2[n - 1] \o Bracket(u[n])
    <3>1. CASE n = 0
      BY <1>2, <1>8, <3>1
    <3>2. CASE n \in 1..Len(t)
      <4>1. r2[n] = r[n] /\ r2[n - 1] = r[n - 1] /\ u[n] = t[n] /\ n # 0
        BY <1>2, <3>2
      <4>. QED
        BY <1>8, <3>2, <4>1
    <3>3. CASE n = Len(t) + 1
      <4>1. r2[n] = last /\ r2[n - 1] = r[Len(t)] /\ u[n] = a /\ n # 0
        BY <1>2, <3>3
      <4>. QED
        BY <1>1, <1>5, <4>1
    <3>. QED
      BY <1>2, <3>1, <3>2, <3>3
  <2>2. r2 = [n \in 0..Len(u) |-> r2[n]]
    BY <1>2
  <2>. HIDE DEF r2
  <2>. QED
    BY <2>1, <2>2 DEF IsNest
<1>10. ASSUME NEW f, IsNest(f, u)
       PROVE  f = r2
  <2>. DEFINE h == [n \in 0..Len(t) |-> f[n]]
  <2>1. f = [n \in 0..Len(u) |-> IF n = 0 THEN <<>> ELSE f[n - 1] \o Bracket(u[n])]
    BY <1>10, Zenon DEF IsNest
  <2>2. \A n \in 0..Len(u) : f[n] = IF n = 0 THEN <<>> ELSE f[n - 1] \o Bracket(u[n])
    BY <2>1, Zenon
  <2>3. \A n \in 0..Len(t) : h[n] = IF n = 0 THEN <<>> ELSE h[n - 1] \o Bracket(t[n])
    <3>. SUFFICES ASSUME NEW n \in 0..Len(t)
                  PROVE  h[n] = IF n = 0 THEN <<>> ELSE h[n - 1] \o Bracket(t[n])
      OBVIOUS
    <3>1. n \in 0..Len(u) /\ h[n] = f[n]
      BY <1>2
    <3>2. n # 0 => h[n - 1] = f[n - 1] /\ t[n] = u[n]
      BY <1>2
    <3>. QED
      BY <2>2, <3>1, <3>2
  <2>4. h = [n \in 0..Len(t) |-> h[n]]
    OBVIOUS
  <2>5. \A n \in 0..Len(t) : h[n] = f[n]
    OBVIOUS
  <2>. HIDE DEF h
  <2>6. IsNest(h, t)
    BY <2>3, <2>4 DEF IsNest
  <2>7. h = r
    BY <1>1, <2>6 DEF NestsAs
  <2>8. \A n \in 0..Len(u) : f[n] = r2[n]
    <3>. SUFFICES ASSUME NEW n \in 0..Len(u)
                  PROVE  f[n] = r2[n]
      OBVIOUS
    <3>1. CASE n \in 0..Len(t)
      BY <1>2, <2>5, <2>7, <3>1
    <3>2. CASE n = Len(t) + 1
      <4>1. n # 0 /\ n - 1 = Len(t) /\ Len(t) \in 0..Len(t) /\ u[n] = a /\ r2[n] = last
        BY <1>2, <3>2
      <4>2. f[n] = f[n - 1] \o Bracket(u[n])
        BY <2>2, <4>1
      <4>. QED
        BY <1>1, <1>5, <2>5, <2>7, <4>1, <4>2
    <3>. QED
      BY <1>2, <3>1, <3>2
  <2>9. f = [n \in 0..Len(u) |-> f[n]]
    BY <2>1, Zenon
  <2>10. r2 = [n \in 0..Len(u) |-> r2[n]]
    BY <1>2
  <2>. HIDE DEF r2
  <2>. QED
    BY <2>8, <2>9, <2>10
<1>11. r2[Len(u)] = last
  BY <1>2
<1>. HIDE DEF r2
<1>12. NestsAs(u, r2)
  BY <1>7, <1>9, <1>10 DEF NestsAs
<1>. QED
  BY <1>5, <1>11, <1>12 DEF Nests, u

\* The innermost activation is gone.
LEMMA NestsPop ==
    ASSUME NEW s \in Seq(Frame), s # <<>>, NEW b, Nests(s, b)
    PROVE  \E c \in Seq(Brackets) : Nests(Pop(s), c) /\ b = c \o Bracket(Top(s))
<1>. DEFINE u == Pop(s)
            d == Len(s) - 1
<1>1. PICK q : NestsAs(s, q) /\ b = q[Len(s)]
  BY DEF Nests
<1>2. /\ Len(s) \in Nat /\ d \in Nat /\ Len(s) = d + 1 /\ Len(u) = d
      /\ \A i \in 1..d : u[i] = s[i]
      /\ Top(s) = s[d + 1]
  BY PopTop, LenProperties DEF Top
<1>. HIDE DEF u, d
<1>3. q \in [0..Len(s) -> Seq(Brackets)] /\ IsNest(q, s)
  BY <1>1 DEF NestsAs
<1>4. q = [n \in 0..Len(s) |-> IF n = 0 THEN <<>> ELSE q[n - 1] \o Bracket(s[n])]
  BY <1>3, Zenon DEF IsNest
<1>5. \A n \in 0..Len(s) : q[n] = IF n = 0 THEN <<>> ELSE q[n - 1] \o Bracket(s[n])
  BY <1>4, Zenon
<1>. DEFINE p == [n \in 0..d |-> q[n]]
<1>6. p \in [0..Len(u) -> Seq(Brackets)]
  BY <1>2, <1>3
<1>7. IsNest(p, u)
  <2>1. ASSUME NEW n \in 0..d
        PROVE  p[n] = IF n = 0 THEN <<>> ELSE p[n - 1] \o Bracket(u[n])
    <3>1. n \in 0..Len(s) /\ p[n] = q[n]
      BY <1>2
    <3>2. n # 0 => p[n - 1] = q[n - 1] /\ u[n] = s[n]
      BY <1>2
    <3>. QED
      BY <1>5, <3>1, <3>2
  <2>2. p = [n \in 0..d |-> p[n]]
    OBVIOUS
  <2>. HIDE DEF p
  <2>. QED
    BY <1>2, <2>1, <2>2 DEF IsNest
<1>8. ASSUME NEW f, IsNest(f, u)
      PROVE  f = p
  <2>1. f = [n \in 0..d |-> IF n = 0 THEN <<>> ELSE f[n - 1] \o Bracket(u[n])]
    BY <1>2, <1>8, Zenon DEF IsNest
  <2>2. \A n \in 0..d : f[n] = IF n = 0 THEN <<>> ELSE f[n - 1] \o Bracket(u[n])
    BY <2>1, Zenon
  <2>. DEFINE top == f[d] \o Bracket(s[d + 1])
              g == [n \in 0..(d + 1) |-> IF n = d + 1 THEN top ELSE f[n]]
  <2>3. top = f[d] \o Bracket(s[d + 1])
    OBVIOUS
  <2>. HIDE DEF top
  <2>4. \A n \in 0..(d + 1) : g[n] = IF n = 0 THEN <<>> ELSE g[n - 1] \o Bracket(s[n])
    <3>. SUFFICES ASSUME NEW n \in 0..(d + 1)
                  PROVE  g[n] = IF n = 0 THEN <<>> ELSE g[n - 1] \o Bracket(s[n])
      OBVIOUS
    <3>1. CASE n = d + 1
      <4>1. g[n] = top /\ g[n - 1] = f[d] /\ n # 0
        BY <1>2, <3>1
      <4>. QED
        BY <2>3, <3>1, <4>1
    <3>2. CASE n \in 0..d
      <4>1. g[n] = f[n] /\ (n # 0 => g[n - 1] = f[n - 1] /\ u[n] = s[n])
        BY <1>2, <3>2
      <4>. QED
        BY <2>2, <3>2, <4>1
    <3>. QED
      BY <1>2, <3>1, <3>2
  <2>5. g = [n \in 0..(d + 1) |-> g[n]]
    OBVIOUS
  <2>6. \A n \in 0..d : g[n] = f[n]
    BY <1>2
  <2>. HIDE DEF g
  <2>7. IsNest(g, s)
    BY <1>2, <2>4, <2>5 DEF IsNest
  <2>8. g = q
    BY <1>1, <2>7 DEF NestsAs
  <2>9. \A n \in 0..d : f[n] = p[n]
    BY <2>6, <2>8
  <2>10. f = [n \in 0..d |-> f[n]]
    BY <2>1, Zenon
  <2>11. p = [n \in 0..d |-> p[n]]
    OBVIOUS
  <2>. HIDE DEF p
  <2>. QED
    BY <2>9, <2>10, <2>11
<1>9. p[Len(u)] = q[d]
  BY <1>2
<1>10. Len(s) \in 0..Len(s) /\ Len(s) # 0 /\ d \in 0..Len(s) /\ Len(s) - 1 = d
  BY <1>2
<1>11. b = q[d] \o Bracket(Top(s)) /\ q[d] \in Seq(Brackets)
  BY <1>1, <1>2, <1>3, <1>5, <1>10
<1>. HIDE DEF p
<1>12. NestsAs(u, p)
  BY <1>6, <1>7, <1>8 DEF NestsAs
<1>13. Nests(u, q[d])
  BY <1>9, <1>12 DEF Nests
<1>. QED
  BY <1>11, <1>13 DEF u

\* What an activation returned and what it was called with is no bracket.
LEMMA NestsSame ==
    ASSUME NEW s \in Seq(Frame), NEW u \in Seq(Frame), Len(u) = Len(s),
           \A i \in 1..Len(s) : u[i].kind = s[i].kind, NEW b, Nests(s, b)
    PROVE  Nests(u, b)
<1>1. PICK q : NestsAs(s, q) /\ b = q[Len(s)]
  BY DEF Nests
<1>2. \A i \in 1..Len(s) : Bracket(u[i]) = Bracket(s[i])
  BY DEF Bracket
<1>3. \A n \in 0..Len(s) : n # 0 => n \in 1..Len(s)
  BY LenProperties
<1>4. ASSUME NEW f
      PROVE  [n \in 0..Len(u) |-> IF n = 0 THEN <<>> ELSE f[n - 1] \o Bracket(u[n])]
               = [n \in 0..Len(s) |-> IF n = 0 THEN <<>> ELSE f[n - 1] \o Bracket(s[n])]
  BY <1>2, <1>3
<1>5. \A f : IsNest(f, u) <=> IsNest(f, s)
  BY <1>4 DEF IsNest
<1>6. NestsAs(u, q)
  BY <1>1, <1>5 DEF NestsAs
<1>. QED
  BY <1>1, <1>6 DEF Nests

\* The entry appended last is the one that Pop removes.
LEMMA PopAppend ==
    ASSUME NEW S, NEW c \in Seq(S), NEW x \in S
    PROVE  Append(c, x) # <<>> /\ Top(Append(c, x)) = x /\ Pop(Append(c, x)) = c
<1>. DEFINE u == Append(c, x)
<1>1. /\ u \in Seq(S) /\ Len(c) \in Nat /\ Len(u) = Len(c) + 1 /\ u[Len(c) + 1] = x
      /\ \A i \in 1..Len(c) : u[i] = c[i]
  BY AppendTop, LenProperties
<1>. HIDE DEF u
<1>2. u # <<>>
  BY <1>1, EmptySeq
<1>3. /\ Pop(u) \in Seq(S) /\ Len(Pop(u)) = Len(c)
      /\ \A i \in 1..Len(c) : Pop(u)[i] = c[i]
  <2>1. /\ Pop(u) \in Seq(S) /\ Len(Pop(u)) = Len(u) - 1
        /\ \A i \in 1..(Len(u) - 1) : Pop(u)[i] = u[i]
    BY <1>1, <1>2, PopTop
  <2>2. Len(u) - 1 = Len(c)
    BY <1>1
  <2>. QED
    BY <1>1, <2>1, <2>2
<1>4. Pop(u) = c
  BY <1>3, SeqEqual
<1>. QED
  BY <1>1, <1>2, <1>4 DEF u, Top

\* A reader closes the bracket that it has opened last.
LEMMA ReadClosing ==
    ASSUME NEW c \in Seq(Brackets), NEW x \in Brackets, NEW a,
           \/ a.op = "SCOPE_END" /\ x = "scope"
           \/ a.op = "REGION_END" /\ x = a.arg
    PROVE  Read(c \o <<x>>, a) = c
<1>1. c \o <<x>> = Append(c, x)
  OBVIOUS
<1>2. PICK u : u = Append(c, x)
  OBVIOUS
<1>3. u # <<>> /\ Top(u) = x /\ Pop(u) = c
  BY <1>2, PopAppend
<1>4. Read(u, a) = c
  <2>1. ASSUME a.op = "SCOPE_END", x = "scope"
        PROVE  Read(u, a) = Pop(u)
    BY <1>3, <2>1 DEF Read, Closes
  <2>2. ASSUME a.op = "REGION_END", x = a.arg
        PROVE  Read(u, a) = Pop(u)
    BY <1>3, <2>2 DEF Read, Closes
  <2>. QED
    BY <1>3, <2>1, <2>2
<1>. QED
  BY <1>1, <1>2, <1>4

\* Opening one, and the instructions that are no bracket.
LEMMA ReadOpening ==
    ASSUME NEW c \in Seq(Brackets), NEW a
    PROVE  /\ a.op = "SCOPE_BEGIN" => Read(c, a) = c \o <<"scope">>
           /\ a.op = "REGION_BEGIN" => Read(c, a) = c \o <<a.arg>>
           /\ a.op \in {"LABEL", "JMP", "JMP_IF_NOT", "RET", "TRAP", "DEFER"} => Read(c, a) = c
BY DEF Read

(***************************************************************************)
(* The steps.                                                              *)
(***************************************************************************)
NestInv == \E b : Reads(tape, b) /\ Nests(frames, b)

\* What the instructions emitted leave open.
LEMMA EmitOneReads ==
    ASSUME TypeOK, NEW a \in Instruction, Emit(<<a>>), NEW b, Reads(tape, b)
    PROVE  Reads(tape', Read(b, a))
<1>1. tape' = Append(tape, a) /\ tape \in Seq(Instruction)
  BY EmitIsAppend DEF TypeOK
<1>. QED
  BY <1>1, ReadsAppend

\* Two instructions.
LEMMA EmitTwoReads ==
    ASSUME TypeOK, NEW a \in Instruction, NEW c \in Instruction, Emit(<<a, c>>),
           NEW b, Reads(tape, b)
    PROVE  Reads(tape', Read(Read(b, a), c))
<1>. DEFINE t == Append(tape, a)
<1>1. tape' = Append(t, c) /\ tape \in Seq(Instruction) /\ t \in Seq(Instruction)
  BY AppendTop DEF TypeOK, Emit
<1>2. Reads(t, Read(b, a))
  BY <1>1, ReadsAppend
<1>. HIDE DEF t
<1>. QED
  BY <1>1, <1>2, ReadsAppend

\* Lowering a statement without a body changes no nesting.
LEMMA LoweredNests ==
    ASSUME TypeOK, NEW isReturn \in BOOLEAN, NEW b, Nests(frames, b)
    PROVE  Nests(Lowered(isReturn), b)
BY LoweredFrames, NestsSame DEF TypeOK

\* Entering a construct adds its bracket.
LEMMA OpenNests ==
    ASSUME TypeOK, NEW kind \in FrameKinds, NEW label \in Nat, NEW end \in Nat,
           Open(kind, label, end), NEW b, Nests(frames, b)
    PROVE  Nests(frames', b \o Bracket(Activation(kind, label, end)))
<1>1. Nests(Lowered(FALSE), b) /\ Lowered(FALSE) \in Seq(Frame)
  BY LoweredNests, LoweredFrames
<1>. QED
  BY <1>1, NestsAppend, ActivationType DEF Open

\* Leaving one takes it away.
LEMMA CloseNests ==
    ASSUME TypeOK, NEW kind, Close(kind), NEW b, Nests(frames, b)
    PROVE  \E c \in Seq(Brackets) : Nests(frames', c) /\ b = c \o Bracket(Top(frames))
BY NestsPop DEF TypeOK, Close

\* Statements without a body emit no bracket.
LEMMA SimpleNests ==
    ASSUME TypeOK, NestInv, LowerStraight \/ LowerReturn \/ LowerBreak \/ LowerContinue
    PROVE  NestInv'
<1>1. PICK b : Reads(tape, b) /\ Nests(frames, b)
  BY DEF NestInv
<1>2. b \in Seq(Brackets)
  BY <1>1, ReadsBrackets DEF TypeOK
<1>3. Nests(Lowered(TRUE), b) /\ Nests(Lowered(FALSE), b)
  BY <1>1, LoweredNests
<1>4. CASE LowerStraight
  BY <1>1, <1>3, <1>4 DEF LowerStraight, NestInv
<1>5. CASE LowerReturn
  <2>1. I("RET") \in Instruction /\ I("RET").op = "RET"
    BY PlainInstruction DEF Plain, I
  <2>2. Reads(tape', Read(b, I("RET"))) /\ Read(b, I("RET")) = b
    BY <1>1, <1>2, <1>5, <2>1, EmitOneReads, ReadOpening DEF LowerReturn
  <2>. QED
    BY <1>3, <1>5, <2>2 DEF LowerReturn, NestInv
<1>6. ASSUME NEW side \in {"start", "end"}, Emit(<<LeaveTo(side)>>), frames' = Lowered(FALSE)
      PROVE  NestInv'
  <2>1. LeaveTo(side) \in Instruction /\ LeaveTo(side).op \in {"JMP", "TRAP"}
    BY LeaveToType DEF LeaveTo, I, J
  <2>2. Reads(tape', Read(b, LeaveTo(side))) /\ Read(b, LeaveTo(side)) = b
    BY <1>1, <1>2, <1>6, <2>1, EmitOneReads, ReadOpening
  <2>. QED
    BY <1>3, <1>6, <2>2 DEF NestInv
<1>. QED
  BY <1>4, <1>5, <1>6 DEF LowerBreak, LowerContinue

\* One or two instructions that are no bracket, in a construct that has none.
LEMMA FlowNests ==
    ASSUME TypeOK, NEW a \in Instruction, NEW c \in Instruction,
           a.op \in {"LABEL", "JMP", "JMP_IF_NOT"}, c.op \in {"LABEL", "JMP", "JMP_IF_NOT"},
           Emit(<<a>>) \/ Emit(<<a, c>>) \/ tape' = tape,
           NEW b \in Seq(Brackets), Reads(tape, b), Nests(frames', b)
    PROVE  NestInv'
<1>1. Read(b, a) = b /\ Read(b, c) = b
  BY ReadOpening
<1>2. CASE Emit(<<a>>)
  <2>1. Reads(tape', Read(b, a))
    BY <1>2, EmitOneReads
  <2>. QED
    BY <1>1, <2>1 DEF NestInv
<1>3. CASE Emit(<<a, c>>)
  <2>1. Reads(tape', Read(Read(b, a), c))
    BY <1>3, EmitTwoReads
  <2>. QED
    BY <1>1, <2>1 DEF NestInv
<1>4. CASE tape' = tape
  BY <1>4 DEF NestInv
<1>. QED
  BY <1>2, <1>3, <1>4

\* Entering a construct without a bracket, and leaving it.
LEMMA BareNests ==
    ASSUME TypeOK, NEW kind \in {"if", "else", "loop", "match", "arm"},
           NEW b \in Seq(Brackets), Nests(frames, b),
           \/ \E label \in Nat, end \in Nat : Open(kind, label, end)
           \/ Close(kind)
    PROVE  Nests(frames', b)
<1>1. kind \in FrameKinds
  BY DEF FrameKinds
<1>2. ASSUME NEW f, f.kind = kind
      PROVE  Bracket(f) = <<>>
  BY <1>2 DEF Bracket, Regions
<1>3. ASSUME NEW c \in Seq(Brackets)
      PROVE  c \o <<>> = c
  OBVIOUS
<1>4. ASSUME NEW label \in Nat, NEW end \in Nat, Open(kind, label, end)
      PROVE  Nests(frames', b)
  <2>1. Nests(frames', b \o Bracket(Activation(kind, label, end)))
    BY <1>1, <1>4, OpenNests
  <2>2. Activation(kind, label, end).kind = kind
    BY DEF Activation
  <2>. QED
    BY <1>2, <1>3, <2>1, <2>2
<1>5. CASE Close(kind)
  <2>1. PICK c \in Seq(Brackets) : Nests(frames', c) /\ b = c \o Bracket(Top(frames))
    BY <1>5, CloseNests
  <2>2. Top(frames).kind = kind
    BY <1>5 DEF Close
  <2>. QED
    BY <1>2, <1>3, <2>1, <2>2
<1>. QED
  BY <1>4, <1>5

\* The steps of if, of the loops and of match.
LEMMA BareSteps ==
    ASSUME TypeOK, NestInv,
           \/ LowerIf \/ EndIf \/ LowerWhile \/ LowerFor \/ EndLoop
           \/ LowerMatch \/ EndArm \/ EndMatch
           \/ \E guarded \in BOOLEAN : OpenArm(guarded)
    PROVE  NestInv'
<1>1. PICK b : Reads(tape, b) /\ Nests(frames, b)
  BY DEF NestInv
<1>2. b \in Seq(Brackets)
  BY <1>1, ReadsBrackets DEF TypeOK
<1>3. LabelCounter \in Nat /\ LabelCounter + 1 \in Nat /\ 0 \in Nat
  BY DEF TypeOK
<1>4. frames # <<>> => Top(frames).label \in Nat /\ Top(frames).end \in Nat
  <2>1. frames # <<>> => Top(frames) \in Frame
    BY PopTop DEF TypeOK
  <2>. QED
    BY <2>1 DEF Frame
<1>5. ASSUME NEW op \in {"LABEL", "JMP", "JMP_IF_NOT"}, NEW l \in Nat
      PROVE  J(op, l) \in Instruction /\ J(op, l).op = op
  BY LabelInstruction DEF Label, J
<1>6. CASE LowerIf
  <2>1. Emit(<<J("JMP_IF_NOT", LabelCounter)>>) /\ Open("if", LabelCounter, LabelCounter + 1)
    BY <1>6 DEF LowerIf
  <2>2. Nests(frames', b)
    BY <1>1, <1>2, <1>3, <2>1, BareNests
  <2>. QED
    BY <1>1, <1>2, <1>3, <1>5, <2>1, <2>2, FlowNests
<1>7. CASE EndIf
  <2>1. Emit(<<J("LABEL", Top(frames).end)>>) /\ Close("else") /\ frames # <<>>
    BY <1>7 DEF EndIf, Close
  <2>2. Nests(frames', b)
    BY <1>1, <1>2, <2>1, BareNests
  <2>. QED
    BY <1>1, <1>2, <1>4, <1>5, <2>1, <2>2, FlowNests
<1>8. CASE LowerWhile \/ LowerFor
  <2>1. /\ Emit(<<J("LABEL", LabelCounter), J("JMP_IF_NOT", LabelCounter + 1)>>)
        /\ Open("loop", LabelCounter, LabelCounter + 1)
    BY <1>8 DEF LowerWhile, LowerFor, OpenLoop
  <2>2. Nests(frames', b)
    BY <1>1, <1>2, <1>3, <2>1, BareNests
  <2>. QED
    BY <1>1, <1>2, <1>3, <1>5, <2>1, <2>2, FlowNests
<1>9. CASE EndLoop
  <2>1. /\ Emit(<<J("JMP", Top(frames).label), J("LABEL", Top(frames).end)>>)
        /\ Close("loop") /\ frames # <<>>
    BY <1>9 DEF EndLoop, Close
  <2>2. Nests(frames', b)
    BY <1>1, <1>2, <2>1, BareNests
  <2>. QED
    BY <1>1, <1>2, <1>4, <1>5, <2>1, <2>2, FlowNests
<1>10. CASE LowerMatch
  <2>1. tape' = tape /\ Open("match", 0, LabelCounter)
    BY <1>10 DEF LowerMatch
  <2>2. Nests(frames', b)
    BY <1>1, <1>2, <1>3, <2>1, BareNests
  <2>. QED
    BY <1>1, <2>1, <2>2 DEF NestInv
<1>11. CASE EndArm
  <2>1. /\ Emit(<<J("JMP", Top(frames).end), J("LABEL", Top(frames).label)>>)
        /\ Close("arm") /\ frames # <<>>
    BY <1>11 DEF EndArm, Close
  <2>2. Nests(frames', b)
    BY <1>1, <1>2, <2>1, BareNests
  <2>. QED
    BY <1>1, <1>2, <1>4, <1>5, <2>1, <2>2, FlowNests
<1>12. CASE EndMatch
  <2>1. Emit(<<J("LABEL", Top(frames).end)>>) /\ Close("match") /\ frames # <<>>
    BY <1>12 DEF EndMatch, Close
  <2>2. Nests(frames', b)
    BY <1>1, <1>2, <2>1, BareNests
  <2>. QED
    BY <1>1, <1>2, <1>4, <1>5, <2>1, <2>2, FlowNests
<1>13. ASSUME NEW guarded \in BOOLEAN, OpenArm(guarded)
       PROVE  NestInv'
  <2>. DEFINE test == J("JMP_IF_NOT", LabelCounter)
  <2>1. /\ Emit(<<test>>) \/ Emit(<<test, test>>)
        /\ Open("arm", LabelCounter, Top(frames).end) /\ frames # <<>>
    BY <1>13 DEF OpenArm
  <2>2. Nests(frames', b)
    <3>1. \E label \in Nat, end \in Nat : Open("arm", label, end)
      BY <1>3, <1>4, <2>1
    <3>. QED
      BY <1>1, <1>2, <3>1, BareNests
  <2>3. test \in Instruction /\ test.op = "JMP_IF_NOT"
    BY <1>3, <1>5
  <2>. HIDE DEF test
  <2>. QED
    BY <1>1, <1>2, <2>1, <2>2, <2>3, FlowNests
<1>. QED
  BY <1>6, <1>7, <1>8, <1>9, <1>10, <1>11, <1>12, <1>13

\* The second half of an if replaces the activation of the first.
LEMMA ElseNests ==
    ASSUME TypeOK, NestInv, LowerElse
    PROVE  NestInv'
<1>1. PICK b : Reads(tape, b) /\ Nests(frames, b)
  BY DEF NestInv
<1>2. b \in Seq(Brackets)
  BY <1>1, ReadsBrackets DEF TypeOK
<1>. DEFINE top == Top(frames)
            new == Activation("else", top.label, top.end)
<1>3. /\ frames \in Seq(Frame) /\ frames # <<>> /\ top.kind = "if"
      /\ frames' = Append(Pop(frames), new)
      /\ Emit(<<J("JMP", top.end), J("LABEL", top.label)>>)
  BY DEF LowerElse, TypeOK
<1>4. top \in Frame /\ Pop(frames) \in Seq(Frame)
  BY <1>3, PopTop
<1>5. top.label \in Nat /\ top.end \in Nat
  BY <1>4 DEF Frame
<1>6. new \in Frame /\ new.kind = "else"
  BY <1>5, ActivationType DEF FrameKinds, Activation
<1>7. /\ J("JMP", top.end) \in Instruction /\ J("JMP", top.end).op = "JMP"
      /\ J("LABEL", top.label) \in Instruction /\ J("LABEL", top.label).op = "LABEL"
  BY <1>5, LabelInstruction DEF Label, J
<1>8. Bracket(top) = <<>>
  BY <1>3 DEF Bracket, Regions
<1>9. Bracket(new) = <<>>
  BY <1>6 DEF Bracket, Regions
<1>10. PICK c \in Seq(Brackets) : Nests(Pop(frames), c) /\ b = c \o Bracket(top)
  BY <1>1, <1>3, NestsPop
<1>11. c \o <<>> = c
  OBVIOUS
<1>12. Nests(frames', c \o Bracket(new))
  BY <1>3, <1>4, <1>6, <1>10, NestsAppend
<1>13. Nests(frames', b)
  BY <1>8, <1>9, <1>10, <1>11, <1>12
<1>. QED
  BY <1>1, <1>2, <1>3, <1>7, <1>13, FlowNests

\* Blocks, regions and subprograms emit their bracket on entering and its match on
\* leaving.
LEMMA BracketSteps ==
    ASSUME TypeOK, NestInv,
           \/ \E kind \in {"block", "defer"} : LowerBlock(kind)
           \/ EndBlock
           \/ \E region \in Regions : LowerScopedBlock(region) \/ EndScopedBlock(region)
           \/ \E name \in Names : LowerSubprogram(name)
           \/ EndSubprogram
    PROVE  NestInv'
<1>1. PICK b : Reads(tape, b) /\ Nests(frames, b)
  BY DEF NestInv
<1>2. b \in Seq(Brackets)
  BY <1>1, ReadsBrackets DEF TypeOK
<1>. DEFINE begin == I("SCOPE_BEGIN")
            end == I("SCOPE_END")
            defer == I("DEFER")
            ret == I("RET")
<1>3. /\ begin \in Instruction /\ begin.op = "SCOPE_BEGIN"
      /\ end \in Instruction /\ end.op = "SCOPE_END"
      /\ defer \in Instruction /\ defer.op = "DEFER"
      /\ ret \in Instruction /\ ret.op = "RET"
  BY PlainInstruction DEF Plain, I
<1>4. ASSUME NEW kind \in {"block", "subprogram"}, Open(kind, 0, 0)
      PROVE  Nests(frames', b \o <<"scope">>)
  <2>1. kind \in FrameKinds
    BY DEF FrameKinds
  <2>2. Nests(frames', b \o Bracket(Activation(kind, 0, 0)))
    BY <1>1, <1>4, <2>1, OpenNests
  <2>3. Bracket(Activation(kind, 0, 0)) = <<"scope">>
    BY DEF Bracket, Activation, Regions
  <2>. QED
    BY <2>2, <2>3
<1>5. ASSUME NEW kind \in {"block", "subprogram"}, Close(kind)
      PROVE  \E c \in Seq(Brackets) : Nests(frames', c) /\ b = c \o <<"scope">>
  <2>1. PICK c \in Seq(Brackets) : Nests(frames', c) /\ b = c \o Bracket(Top(frames))
    BY <1>1, <1>5, CloseNests
  <2>2. Bracket(Top(frames)) = <<"scope">>
    BY <1>5 DEF Bracket, Regions, Close
  <2>. QED
    BY <2>1, <2>2
<1>6. Read(b, begin) = b \o <<"scope">> /\ Read(b, defer) = b /\ Read(b, ret) = b
  BY <1>2, <1>3, ReadOpening
<1>7. ASSUME NEW c \in Seq(Brackets), b = c \o <<"scope">>
      PROVE  Read(b, end) = c
  BY <1>3, <1>7, ReadClosing DEF Brackets
<1>. HIDE DEF begin, end, defer, ret
<1>8. ASSUME NEW kind \in {"block", "defer"}, LowerBlock(kind)
      PROVE  NestInv'
  <2>1. /\ Emit(<<defer, begin>>) \/ Emit(<<begin>>)
        /\ Open("block", 0, 0)
    BY <1>8 DEF LowerBlock, begin, defer
  <2>2. Nests(frames', b \o <<"scope">>)
    BY <1>4, <2>1
  <2>3. Reads(tape', Read(b, begin)) \/ Reads(tape', Read(Read(b, defer), begin))
    BY <1>1, <1>3, <2>1, EmitOneReads, EmitTwoReads
  <2>. QED
    BY <1>6, <2>2, <2>3 DEF NestInv
<1>9. CASE EndBlock
  <2>1. Emit(<<end>>) /\ Close("block")
    BY <1>9 DEF EndBlock, end
  <2>2. PICK c \in Seq(Brackets) : Nests(frames', c) /\ b = c \o <<"scope">>
    BY <1>5, <2>1
  <2>3. Reads(tape', Read(b, end))
    BY <1>1, <1>3, <2>1, EmitOneReads
  <2>. QED
    BY <1>7, <2>2, <2>3 DEF NestInv
<1>10. ASSUME NEW name \in Names, LowerSubprogram(name)
       PROVE  NestInv'
  <2>. DEFINE a == J("LABEL", name)
  <2>1. Emit(<<a, begin>>) /\ Open("subprogram", 0, 0)
    BY <1>10 DEF LowerSubprogram, begin
  <2>2. a \in Instruction /\ a.op = "LABEL"
    BY LabelInstruction DEF Label, J
  <2>. HIDE DEF a
  <2>3. Nests(frames', b \o <<"scope">>)
    BY <1>4, <2>1
  <2>4. Reads(tape', Read(Read(b, a), begin))
    BY <1>1, <1>3, <2>1, <2>2, EmitTwoReads
  <2>5. Read(b, a) = b
    BY <1>2, <2>2, ReadOpening
  <2>. QED
    BY <1>6, <2>3, <2>4, <2>5 DEF NestInv
<1>11. CASE EndSubprogram
  <2>1. (Emit(<<end>>) \/ Emit(<<ret, end>>)) /\ Close("subprogram")
    BY <1>11 DEF EndSubprogram, end, ret
  <2>2. PICK c \in Seq(Brackets) : Nests(frames', c) /\ b = c \o <<"scope">>
    BY <1>5, <2>1
  <2>3. Reads(tape', Read(b, end)) \/ Reads(tape', Read(Read(b, ret), end))
    BY <1>1, <1>3, <2>1, EmitOneReads, EmitTwoReads
  <2>4. Read(b, end) = c
    BY <1>7, <2>2
  <2>. QED
    BY <1>6, <2>2, <2>3, <2>4 DEF NestInv
<1>12. ASSUME NEW region \in Regions
       PROVE  /\ region \in Brackets /\ region \in FrameKinds
              /\ \A f : f.kind = region => Bracket(f) = <<region>>
  <2>1. region \in Brackets /\ region \in FrameKinds
    BY DEF Brackets, FrameKinds
  <2>2. region \notin {"block", "subprogram"}
    BY DEF Regions
  <2>. QED
    BY <2>1, <2>2 DEF Bracket
<1>13. ASSUME NEW region \in Regions, LowerScopedBlock(region)
       PROVE  NestInv'
  <2>. DEFINE a == J("REGION_BEGIN", region)
  <2>1. Emit(<<a>>) /\ Open(region, 0, 0)
    BY <1>13 DEF LowerScopedBlock
  <2>2. a \in Instruction /\ a.op = "REGION_BEGIN" /\ a.arg = region
    BY RegionInstruction DEF J
  <2>. HIDE DEF a
  <2>3. Nests(frames', b \o Bracket(Activation(region, 0, 0)))
    BY <1>1, <1>12, <2>1, OpenNests
  <2>4. Bracket(Activation(region, 0, 0)) = <<region>>
    BY <1>12 DEF Activation
  <2>5. Reads(tape', Read(b, a)) /\ Read(b, a) = b \o <<region>>
    BY <1>1, <1>2, <2>1, <2>2, EmitOneReads, ReadOpening
  <2>. QED
    BY <2>3, <2>4, <2>5 DEF NestInv
<1>14. ASSUME NEW region \in Regions, EndScopedBlock(region)
       PROVE  NestInv'
  <2>. DEFINE a == J("REGION_END", region)
  <2>1. Emit(<<a>>) /\ Close(region)
    BY <1>14 DEF EndScopedBlock
  <2>2. a \in Instruction /\ a.op = "REGION_END" /\ a.arg = region
    BY RegionInstruction DEF J
  <2>. HIDE DEF a
  <2>3. PICK c \in Seq(Brackets) : Nests(frames', c) /\ b = c \o Bracket(Top(frames))
    BY <1>1, <2>1, CloseNests
  <2>4. Bracket(Top(frames)) = <<region>>
    BY <1>12, <2>1 DEF Close
  <2>5. Read(b, a) = c
    BY <1>12, <2>2, <2>3, <2>4, ReadClosing
  <2>6. Reads(tape', Read(b, a))
    BY <1>1, <2>1, <2>2, EmitOneReads
  <2>. QED
    BY <2>3, <2>5, <2>6 DEF NestInv
<1>. QED
  BY <1>8, <1>9, <1>10, <1>11, <1>13, <1>14

\* Each step keeps reading and nesting together.
LEMMA NestStep == TypeOK /\ NestInv /\ [Next]_vars => NestInv'
<1>. SUFFICES ASSUME TypeOK, NestInv, [Next]_vars
              PROVE  NestInv'
  OBVIOUS
<1>1. CASE Finish \/ UNCHANGED vars
  BY <1>1 DEF Finish, vars, NestInv
<1>. QED
  BY <1>1, SimpleNests, BareSteps, ElseNests, BracketSteps DEF Next, Returned

\* Nothing is open at first.
LEMMA NestInit == Init => NestInv
BY ReadsNothing, NestsNothing DEF Init, NestInv

\* A linear reader of the tape is at every moment inside the brackets of the active
\* Lower functions, in their order, and inside none when LowerSS returns.
THEOREM BracketsMatch == Spec => []BracketsNest
<1>1. ASSUME TypeOK, NestInv
      PROVE  BracketsNest
  BY <1>1, ReadsBrackets, NestsBrackets DEF NestInv, BracketsNest, TypeOK
<1>. QED
  BY <1>1, TypeCorrect, NestInit, NestStep, PTL DEF Spec

(***************************************************************************)
(* Where control goes.  t is a tape that still grows and s the stack of    *)
(* the activations that make it grow.                                      *)
(***************************************************************************)
LabelsOf(t) == Sites(t, {"LABEL"})
JumpsOf(t) == Sites(t, {"JMP", "JMP_IF_NOT"})
EntriesOf(t) == {e \in LabelsOf(t) : t[e].arg \in Names}

\* The jump at i has found its label, at k.
Goes(t, i, k) == i \in JumpsOf(t) /\ k \in LabelsOf(t) /\ t[i].arg = t[k].arg

\* f is the activation of the loop that starts at k.
Begins(t, f, k) == f.kind = "loop" /\ k \in LabelsOf(t) /\ t[k].arg = f.label

\* Jumps name generated labels.
Numbered(t) == \A i \in JumpsOf(t) : t[i].arg \in Nat

\* A jump that waits for the label of an activation stands in the subprogram that
\* is being lowered and inside every loop that was open when it was emitted.
WaitingInside(t, s) ==
    \A i \in JumpsOf(t), m \in 1..Len(s) : t[i].arg \in Owes(s[m]) =>
        /\ \A e \in EntriesOf(t) : e < i
        /\ \A q \in 1..m, k \in LabelsOf(t) : Begins(t, s[q], k) => k < i

\* The loops that are open belong to the subprogram that is being lowered, inner
\* ones start later, and no jump leads from before their start to behind it.
StartsInUnit(t, s) ==
    \A q \in 1..Len(s), k \in LabelsOf(t) : Begins(t, s[q], k) =>
        \A e \in EntriesOf(t) : e < k
StartsNest(t, s) ==
    \A q, p \in 1..Len(s), k, l \in LabelsOf(t) :
        p < q /\ Begins(t, s[p], l) /\ Begins(t, s[q], k) => l < k
EnteredAtStart(t, s) ==
    \A q \in 1..Len(s), k \in LabelsOf(t) : Begins(t, s[q], k) =>
        \A i \in JumpsOf(t), l \in LabelsOf(t) : Goes(t, i, l) /\ l > k => i > k

\* No jump crosses the label of a subprogram.
WithinUnit(t) ==
    \A i \in JumpsOf(t), k \in LabelsOf(t) : Goes(t, i, k) =>
        \A e \in EntriesOf(t) : e <= i <=> e <= k

\* The loop that starts at k is finished: the last of the jumps back to k, from e,
\* is known, nothing leads into the instructions up to it and no open loop starts
\* among them.
EndsAt(t, s, k, e) ==
    /\ Goes(t, e, k)
    /\ \A i \in JumpsOf(t), l \in LabelsOf(t) : Goes(t, i, l) /\ k < l /\ l <= e => k < i /\ i <= e
    /\ \A q \in 1..Len(s), l \in LabelsOf(t) : Begins(t, s[q], l) => l <= k \/ l > e
Finished(t, s, j, k) == \E e \in JumpsOf(t) : j <= e /\ EndsAt(t, s, k, e)
StillOpen(t, s, k) == \E q \in 1..Len(s) : Begins(t, s[q], k)

\* A label that is jumped back to is the start of a loop, open or finished.
BackToStarts(t, s) ==
    \A j \in JumpsOf(t), k \in LabelsOf(t) : Goes(t, j, k) /\ k < j =>
        StillOpen(t, s, k) \/ Finished(t, s, j, k)

Flow(t, s) ==
    /\ Numbered(t) /\ WithinUnit(t) /\ WaitingInside(t, s)
    /\ StartsInUnit(t, s) /\ StartsNest(t, s) /\ EnteredAtStart(t, s)
    /\ BackToStarts(t, s)

(***************************************************************************)
(* What a step that is not the start of a subprogram does: from tape t and *)
(* activations s to u and v.                                               *)
(***************************************************************************)
Longer(t, u) == Len(u) >= Len(t) /\ \A i \in 1..Len(t) : u[i] = t[i]

\* A new jump leads ahead, or back to the start of an open loop.
JumpsAdded(t, s, u) ==
    \A i \in JumpsOf(u) : i > Len(t) =>
        /\ u[i].arg \in Nat
        /\ \A k \in LabelsOf(t) : u[i].arg = t[k].arg => StillOpen(t, s, k)

\* A new label is new on the tape and resolves jumps that waited for the innermost
\* activation.
LabelsAdded(t, s, u) ==
    \A k \in LabelsOf(u) : k > Len(t) =>
        /\ u[k].arg \notin Names
        /\ \A l \in LabelsOf(t) : t[l].arg # u[k].arg
        /\ \A i \in JumpsOf(u) : u[i].arg = u[k].arg =>
               i <= Len(t) /\ Len(s) \in 1..Len(s) /\ t[i].arg \in Owes(s[Len(s)])

\* The loops after the step were open before it, but for one that begins with the
\* step's last label.
StartsAdded(t, s, u, v) ==
    \A q \in 1..Len(v), k \in LabelsOf(u) : Begins(u, v[q], k) =>
        \/ q \in 1..Len(s) /\ Begins(t, s[q], k)
        \/ /\ q = Len(s) + 1 /\ Len(v) = Len(s) + 1
           /\ k = Len(t) + 1 /\ \A l \in LabelsOf(u) : l <= k

\* The loops before the step stay open, but for one that ends with the step's only
\* jump.
StartsKept(t, s, u, v) ==
    \A q \in 1..Len(s), k \in LabelsOf(t) : Begins(t, s[q], k) =>
        \/ StillOpen(u, v, k)
        \/ /\ q = Len(s) /\ Len(v) = Len(s) - 1
           /\ Goes(u, Len(t) + 1, k) /\ \A i \in JumpsOf(u) : i <= Len(t) + 1

\* What a jump on the tape waits for is owed by the same activation as before.
OwedAdded(t, s, v) ==
    \A i \in JumpsOf(t), m \in 1..Len(v) : t[i].arg \in Owes(v[m]) =>
        m \in 1..Len(s) /\ t[i].arg \in Owes(s[m])

Extends(t, s, u, v) ==
    /\ Longer(t, u) /\ JumpsAdded(t, s, u) /\ LabelsAdded(t, s, u)
    /\ StartsAdded(t, s, u, v) /\ StartsKept(t, s, u, v) /\ OwedAdded(t, s, v)

\* The instructions of a longer tape.
LEMMA LongerSites ==
    ASSUME NEW t \in Seq(Instruction), NEW u \in Seq(Instruction), Longer(t, u), NEW ops
    PROVE  \A i \in Sites(u, ops) : /\ i \in Nat /\ i >= 1 /\ i <= Len(u) /\ Len(t) \in Nat
                                    /\ i <= Len(t) => i \in Sites(t, ops) /\ u[i] = t[i]
                                    /\ i \in Sites(t, ops) => i <= Len(t)
BY LenProperties DEF Longer, Sites

\* They are also there.
LEMMA SitesKept ==
    ASSUME NEW t \in Seq(Instruction), NEW u \in Seq(Instruction), Longer(t, u), NEW ops
    PROVE  \A i \in Sites(t, ops) :
               i \in Sites(u, ops) /\ u[i] = t[i] /\ i \in Nat /\ i <= Len(t)
BY LenProperties DEF Longer, Sites

\* A label is no jump.
LEMMA SitesApart ==
    ASSUME NEW t, NEW i \in JumpsOf(t), NEW k \in LabelsOf(t)
    PROVE  i # k
BY DEF JumpsOf, LabelsOf, Sites

\* The steps keep the flow.
LEMMA FlowGrows ==
    ASSUME NEW t \in Seq(Instruction), NEW u \in Seq(Instruction),
           NEW s \in Seq(Frame), NEW v \in Seq(Frame),
           Extends(t, s, u, v), Flow(t, s)
    PROVE  Flow(u, v) /\ EntriesOf(u) = EntriesOf(t)
<1>. DEFINE n == Len(t)
<1>0. n \in Nat /\ Len(s) \in Nat /\ Len(v) \in Nat
  BY LenProperties
<1>1. /\ \A i \in JumpsOf(u) : /\ i \in Nat /\ (i <= n => i \in JumpsOf(t) /\ u[i] = t[i])
      /\ \A k \in LabelsOf(u) : /\ k \in Nat /\ (k <= n => k \in LabelsOf(t) /\ u[k] = t[k])
  BY LongerSites DEF JumpsOf, LabelsOf, Extends
<1>2. /\ \A i \in JumpsOf(t) : i \in JumpsOf(u) /\ u[i] = t[i] /\ i \in Nat /\ i <= n
      /\ \A k \in LabelsOf(t) : k \in LabelsOf(u) /\ u[k] = t[k] /\ k \in Nat /\ k <= n
  BY SitesKept DEF JumpsOf, LabelsOf, Extends
<1>. HIDE DEF n
<1>3. EntriesOf(u) = EntriesOf(t)
  <2>1. ASSUME NEW e \in EntriesOf(u)
        PROVE  e \in EntriesOf(t)
    <3>1. e \in LabelsOf(u) /\ u[e].arg \in Names
      BY <2>1 DEF EntriesOf
    <3>2. e <= n
      BY <1>0, <1>1, <3>1 DEF Extends, LabelsAdded, n
    <3>. QED
      BY <1>1, <3>1, <3>2 DEF EntriesOf
  <2>2. ASSUME NEW e \in EntriesOf(t)
        PROVE  e \in EntriesOf(u)
    BY <1>2, <2>2 DEF EntriesOf
  <2>. QED
    BY <2>1, <2>2
<1>4. \A e \in EntriesOf(t) : e \in Nat /\ e <= n
  BY <1>2 DEF EntriesOf
\* The three kinds of jump that have found their label.
<1>5. ASSUME NEW i, NEW k, Goes(u, i, k)
      PROVE  /\ i \in JumpsOf(u) /\ k \in LabelsOf(u) /\ i \in Nat /\ k \in Nat /\ i # k
             /\ \/ i <= n /\ k <= n /\ Goes(t, i, k)
                \/ i > n /\ k <= n /\ StillOpen(t, s, k)
                \/ /\ i <= n /\ k > n /\ i \in JumpsOf(t)
                   /\ Len(s) \in 1..Len(s) /\ t[i].arg \in Owes(s[Len(s)])
  <2>1. i \in JumpsOf(u) /\ k \in LabelsOf(u) /\ u[i].arg = u[k].arg
    BY <1>5 DEF Goes
  <2>2. i \in Nat /\ k \in Nat /\ i # k
    BY <1>1, <2>1, SitesApart
  <2>3. CASE i <= n /\ k <= n
    BY <1>1, <2>1, <2>2, <2>3 DEF Goes
  <2>4. CASE i > n /\ k <= n
    BY <1>1, <2>1, <2>2, <2>4 DEF Extends, JumpsAdded, n
  <2>5. CASE k > n
    <3>1. i <= n /\ Len(s) \in 1..Len(s) /\ t[i].arg \in Owes(s[Len(s)])
      BY <2>1, <2>5 DEF Extends, LabelsAdded, n
    <3>. QED
      BY <1>1, <2>1, <2>2, <2>5, <3>1
  <2>. QED
    BY <1>0, <2>1, <2>2, <2>3, <2>4, <2>5
\* The two kinds of open loop.
<1>6. ASSUME NEW q \in 1..Len(v), NEW k, Begins(u, v[q], k)
      PROVE  /\ k \in LabelsOf(u) /\ k \in Nat
             /\ \/ q \in 1..Len(s) /\ k \in LabelsOf(t) /\ k <= n /\ Begins(t, s[q], k)
                \/ /\ q = Len(s) + 1 /\ Len(v) = Len(s) + 1
                   /\ k = n + 1 /\ \A l \in LabelsOf(u) : l <= k
  <2>1. k \in LabelsOf(u)
    BY <1>6 DEF Begins
  <2>2. CASE q \in 1..Len(s) /\ Begins(t, s[q], k)
    <3>1. k \in LabelsOf(t)
      BY <2>2 DEF Begins
    <3>. QED
      BY <1>2, <2>1, <2>2, <3>1
  <2>. QED
    BY <1>1, <1>6, <2>1, <2>2 DEF Extends, StartsAdded, n
<1>7. Numbered(u)
  BY <1>0, <1>1 DEF Extends, JumpsAdded, Flow, Numbered, n
<1>8. WithinUnit(u)
  <2>. SUFFICES ASSUME NEW i, NEW k, Goes(u, i, k), NEW e \in EntriesOf(t)
                PROVE  e <= i <=> e <= k
    BY <1>3 DEF WithinUnit
  <2>1. CASE i <= n /\ k <= n /\ Goes(t, i, k)
    <3>1. i \in JumpsOf(t) /\ k \in LabelsOf(t)
      BY <2>1 DEF Goes
    <3>. QED
      BY <2>1, <3>1 DEF Flow, WithinUnit
  <2>2. CASE i > n /\ k <= n /\ StillOpen(t, s, k)
    <3>1. PICK q \in 1..Len(s) : Begins(t, s[q], k)
      BY <2>2 DEF StillOpen
    <3>2. k \in LabelsOf(t)
      BY <3>1 DEF Begins
    <3>3. e < k
      BY <3>1, <3>2 DEF Flow, StartsInUnit
    <3>. QED
      BY <1>0, <1>4, <1>5, <2>2, <3>3
  <2>3. CASE /\ i <= n /\ k > n /\ i \in JumpsOf(t)
             /\ Len(s) \in 1..Len(s) /\ t[i].arg \in Owes(s[Len(s)])
    <3>1. e < i
      BY <2>3 DEF Flow, WaitingInside
    <3>. QED
      BY <1>0, <1>4, <1>5, <2>3, <3>1
  <2>. QED
    BY <1>5, <2>1, <2>2, <2>3
<1>9. WaitingInside(u, v)
  <2>. SUFFICES ASSUME NEW i \in JumpsOf(u), NEW m \in 1..Len(v), u[i].arg \in Owes(v[m])
                PROVE  /\ \A e \in EntriesOf(t) : e < i
                       /\ \A q \in 1..m, k \in LabelsOf(u) : Begins(u, v[q], k) => k < i
    BY <1>3 DEF WaitingInside
  <2>1. CASE i <= n
    <3>1. i \in JumpsOf(t) /\ m \in 1..Len(s) /\ t[i].arg \in Owes(s[m])
      BY <1>1, <2>1 DEF Extends, OwedAdded
    <3>2. \A e \in EntriesOf(t) : e < i
      BY <3>1 DEF Flow, WaitingInside
    <3>3. ASSUME NEW q \in 1..m, NEW k \in LabelsOf(u), Begins(u, v[q], k)
          PROVE  k < i
      <4>1. q \in 1..Len(v) /\ q \in 1..Len(s)
        BY <1>0, <3>1
      <4>2. Begins(t, s[q], k) /\ k \in LabelsOf(t)
        BY <1>0, <1>6, <3>3, <4>1
      <4>. QED
        BY <3>1, <4>2 DEF Flow, WaitingInside
    <3>. QED
      BY <3>2, <3>3
  <2>2. CASE i > n
    <3>1. \A e \in EntriesOf(t) : e < i
      BY <1>0, <1>1, <1>4, <2>2
    <3>2. ASSUME NEW q \in 1..m, NEW k \in LabelsOf(u), Begins(u, v[q], k)
          PROVE  k < i
      <4>1. q \in 1..Len(v)
        BY <1>0
      <4>2. k <= n + 1 /\ k \in Nat /\ i # k /\ i \in Nat
        BY <1>0, <1>1, <1>6, <3>2, <4>1, SitesApart
      <4>. QED
        BY <1>0, <2>2, <4>2
    <3>. QED
      BY <3>1, <3>2
  <2>. QED
    BY <1>0, <1>1, <2>1, <2>2
<1>10. StartsInUnit(u, v)
  <2>. SUFFICES ASSUME NEW q \in 1..Len(v), NEW k \in LabelsOf(u), Begins(u, v[q], k),
                       NEW e \in EntriesOf(t)
                PROVE  e < k
    BY <1>3 DEF StartsInUnit
  <2>1. CASE q \in 1..Len(s) /\ k \in LabelsOf(t) /\ Begins(t, s[q], k)
    BY <2>1 DEF Flow, StartsInUnit
  <2>2. CASE k = n + 1
    BY <1>0, <1>4, <2>2
  <2>. QED
    BY <1>6, <2>1, <2>2
<1>11. StartsNest(u, v)
  <2>. SUFFICES ASSUME NEW q \in 1..Len(v), NEW p \in 1..Len(v), NEW k \in LabelsOf(u),
                       NEW l \in LabelsOf(u), p < q, Begins(u, v[p], l), Begins(u, v[q], k)
                PROVE  l < k
    BY DEF StartsNest
  <2>1. p \in 1..Len(s) /\ l \in LabelsOf(t) /\ l <= n /\ Begins(t, s[p], l)
    BY <1>0, <1>6
  <2>2. CASE q \in 1..Len(s) /\ k \in LabelsOf(t) /\ Begins(t, s[q], k)
    BY <2>1, <2>2 DEF Flow, StartsNest
  <2>3. CASE k = n + 1
    BY <1>0, <1>2, <2>1, <2>3
  <2>. QED
    BY <1>6, <2>2, <2>3
<1>12. EnteredAtStart(u, v)
  <2>. SUFFICES ASSUME NEW q \in 1..Len(v), NEW k \in LabelsOf(u), Begins(u, v[q], k),
                       NEW i, NEW l, Goes(u, i, l), l > k
                PROVE  i > k
    BY DEF EnteredAtStart
  <2>0. i \in Nat /\ l \in LabelsOf(u) /\ l \in Nat /\ k \in Nat
    BY <1>5, <1>6
  <2>1. q \in 1..Len(s) /\ k \in LabelsOf(t) /\ k <= n /\ Begins(t, s[q], k)
    BY <1>6, <2>0
  <2>2. CASE i <= n /\ l <= n /\ Goes(t, i, l)
    <3>1. i \in JumpsOf(t) /\ l \in LabelsOf(t)
      BY <2>2 DEF Goes
    <3>. QED
      BY <2>1, <2>2, <3>1 DEF Flow, EnteredAtStart
  <2>3. CASE i > n
    BY <1>0, <2>0, <2>1, <2>3
  <2>4. CASE i <= n /\ i \in JumpsOf(t) /\ Len(s) \in 1..Len(s) /\ t[i].arg \in Owes(s[Len(s)])
    BY <2>1, <2>4 DEF Flow, WaitingInside
  <2>. QED
    BY <1>5, <2>2, <2>3, <2>4
\* A loop open before the step is open or finished after it.
<1>13. ASSUME NEW j \in JumpsOf(u), NEW k \in LabelsOf(t), StillOpen(t, s, k)
       PROVE  StillOpen(u, v, k) \/ Finished(u, v, j, k)
  <2>1. PICK q \in 1..Len(s) : Begins(t, s[q], k)
    BY <1>13 DEF StillOpen
  <2>2. ASSUME q = Len(s), Len(v) = Len(s) - 1, Goes(u, n + 1, k),
               \A i \in JumpsOf(u) : i <= n + 1
        PROVE  Finished(u, v, j, k)
    <3>0. k \in Nat /\ k <= n
      BY <1>2
    <3>1. ASSUME NEW i, NEW l, Goes(u, i, l), k < l, l <= n + 1
          PROVE  k < i /\ i <= n + 1
      <4>1. i \in JumpsOf(u) /\ l \in LabelsOf(u) /\ i \in Nat /\ l \in Nat
        BY <1>5, <3>1
      <4>2. i <= n + 1
        BY <2>2, <4>1
      <4>3. CASE i > n
        BY <1>0, <3>0, <4>1, <4>2, <4>3
      <4>4. CASE i <= n /\ l <= n /\ Goes(t, i, l)
        <5>1. i \in JumpsOf(t) /\ l \in LabelsOf(t)
          BY <4>4 DEF Goes
        <5>2. i > k
          BY <2>1, <3>1, <4>4, <5>1 DEF Flow, EnteredAtStart
        <5>. QED
          BY <1>0, <3>0, <4>1, <4>2, <5>2
      <4>5. CASE i <= n /\ i \in JumpsOf(t) /\ Len(s) \in 1..Len(s) /\ t[i].arg \in Owes(s[Len(s)])
        <5>1. k < i
          BY <2>1, <4>5 DEF Flow, WaitingInside
        <5>. QED
          BY <4>2, <5>1
      <4>. QED
        BY <1>5, <3>1, <4>3, <4>4, <4>5
    <3>2. ASSUME NEW p \in 1..Len(v), NEW l \in LabelsOf(u), Begins(u, v[p], l)
          PROVE  l <= k
      <4>1. p \in 1..Len(s) /\ p < q /\ l \in LabelsOf(t) /\ Begins(t, s[p], l) /\ l \in Nat
        BY <1>0, <1>6, <2>2, <3>2
      <4>2. l < k
        BY <2>1, <4>1 DEF Flow, StartsNest
      <4>. QED
        BY <3>0, <4>1, <4>2
    <3>3. EndsAt(u, v, k, n + 1)
      BY <2>2, <3>1, <3>2 DEF EndsAt
    <3>4. n + 1 \in JumpsOf(u) /\ j <= n + 1
      BY <2>2 DEF Goes
    <3>. QED
      BY <3>3, <3>4 DEF Finished
  <2>. QED
    BY <2>1, <2>2 DEF Extends, StartsKept, n
\* A finished loop stays finished.
<1>14. ASSUME NEW j \in JumpsOf(t), NEW k \in LabelsOf(t), Finished(t, s, j, k)
       PROVE  Finished(u, v, j, k)
  <2>1. PICK e \in JumpsOf(t) : j <= e /\ EndsAt(t, s, k, e)
    BY <1>14 DEF Finished
  <2>2. e \in JumpsOf(u) /\ e \in Nat /\ e <= n /\ k \in LabelsOf(u) /\ k \in Nat
    BY <1>2
  <2>3. Goes(u, e, k)
    BY <1>2, <2>1 DEF EndsAt, Goes
  <2>4. ASSUME NEW i, NEW l, Goes(u, i, l), k < l, l <= e
        PROVE  k < i /\ i <= e
    <3>0. l \in Nat /\ l <= n
      BY <1>0, <1>5, <2>2, <2>4
    <3>1. CASE i <= n /\ l <= n /\ Goes(t, i, l)
      <4>1. i \in JumpsOf(t) /\ l \in LabelsOf(t)
        BY <3>1 DEF Goes
      <4>. QED
        BY <2>1, <2>4, <3>1, <4>1 DEF EndsAt
    <3>2. CASE i > n /\ l <= n /\ StillOpen(t, s, l)
      <4>1. PICK q \in 1..Len(s) : Begins(t, s[q], l)
        BY <3>2 DEF StillOpen
      <4>2. l <= k \/ l > e
        BY <2>1, <4>1 DEF EndsAt, Begins
      <4>. QED
        BY <2>2, <2>4, <3>0, <4>2
    <3>. QED
      BY <1>0, <1>5, <2>4, <3>0, <3>1, <3>2
  <2>5. ASSUME NEW q \in 1..Len(v), NEW l \in LabelsOf(u), Begins(u, v[q], l)
        PROVE  l <= k \/ l > e
    <3>1. CASE q \in 1..Len(s) /\ l \in LabelsOf(t) /\ Begins(t, s[q], l)
      BY <2>1, <3>1 DEF EndsAt
    <3>2. CASE l = n + 1
      BY <1>0, <2>2, <3>2
    <3>. QED
      BY <1>6, <2>5, <3>1, <3>2
  <2>6. EndsAt(u, v, k, e)
    BY <2>3, <2>4, <2>5 DEF EndsAt
  <2>. QED
    BY <2>1, <2>2, <2>6 DEF Finished
<1>15. BackToStarts(u, v)
  <2>. SUFFICES ASSUME NEW j, NEW k, Goes(u, j, k), k < j
                PROVE  StillOpen(u, v, k) \/ Finished(u, v, j, k)
    BY DEF BackToStarts
  <2>0. j \in JumpsOf(u) /\ k \in LabelsOf(u) /\ j \in Nat /\ k \in Nat
    BY <1>5
  <2>1. CASE j <= n /\ k <= n /\ Goes(t, j, k)
    <3>1. j \in JumpsOf(t) /\ k \in LabelsOf(t)
      BY <2>1 DEF Goes
    <3>2. StillOpen(t, s, k) \/ Finished(t, s, j, k)
      BY <2>1, <3>1 DEF Flow, BackToStarts
    <3>. QED
      BY <1>13, <1>14, <2>0, <3>1, <3>2
  <2>2. CASE j > n /\ k <= n /\ StillOpen(t, s, k)
    <3>1. k \in LabelsOf(t)
      BY <1>1, <2>0, <2>2
    <3>. QED
      BY <1>13, <2>0, <2>2, <3>1
  <2>3. CASE j <= n /\ k > n
    BY <1>0, <2>0, <2>3
  <2>. QED
    BY <1>5, <2>1, <2>2, <2>3
<1>. QED
  BY <1>3, <1>7, <1>8, <1>9, <1>10, <1>11, <1>12, <1>15 DEF Flow

(***************************************************************************)
(* The steps of SyntaxTape extend the tape in this way.                    *)
(***************************************************************************)
\* u is t with the instructions of c behind it.
Adds(t, u, c) ==
    /\ Len(u) = Len(t) + Len(c)
    /\ \A i \in 1..Len(t) : u[i] = t[i]
    /\ \A i \in 1..Len(c) : u[Len(t) + i] = c[i]

\* What one step may emit, with respect to the labels on the tape and the labels owed.
JumpAllowed(a) ==
    a.op \in {"JMP", "JMP_IF_NOT"} =>
        /\ a.arg \in Nat
        /\ \/ a.arg \notin Labelled
           \/ \E q \in 1..Len(frames) : IsLoop(q) /\ frames[q].label = a.arg
LabelAllowed(a) ==
    a.op = "LABEL" =>
        /\ a.arg \notin Names /\ a.arg \notin Labelled
        /\ a.arg \in Jumped =>
               Len(frames) \in 1..Len(frames) /\ a.arg \in Owes(frames[Len(frames)])
Apart(a, b) == a.op = "LABEL" /\ b.op \in {"JMP", "JMP_IF_NOT"} => a.arg # b.arg
Allowed(c) ==
    \A i, j \in 1..Len(c) : JumpAllowed(c[i]) /\ LabelAllowed(c[i]) /\ Apart(c[i], c[j])

\* An activation comes to owe no label that is jumped to.
OwesNew ==
    \A m \in 1..Len(frames'), l \in Jumped : l \in Owes(frames'[m]) =>
        m \in 1..Len(frames) /\ l \in Owes(frames[m])

\* A label or jump on the tape is among the labels or jumps.
LEMMA OnTape ==
    /\ \A i \in JumpsOf(tape) : tape[i].arg \in Jumped
    /\ \A k \in LabelsOf(tape) : tape[k].arg \in Labelled
    /\ \A l \in Labelled : \E k \in LabelsOf(tape) : tape[k].arg = l
BY DEF JumpsOf, LabelsOf, Jumped, Labelled, Args

\* Where the instructions of a longer tape come from.
LEMMA AddedSites ==
    ASSUME NEW t \in Seq(Instruction), NEW u \in Seq(Instruction), NEW c \in Seq(Instruction),
           Adds(t, u, c), NEW ops
    PROVE  /\ Longer(t, u)
           /\ \A i \in Sites(u, ops) : i > Len(t) =>
                  /\ i \in Nat /\ i - Len(t) \in 1..Len(c) /\ u[i] = c[i - Len(t)]
                  /\ c[i - Len(t)].op \in ops
<1>1. Len(t) \in Nat /\ Len(c) \in Nat
  BY LenProperties
<1>2. Longer(t, u)
  BY <1>1 DEF Adds, Longer
<1>3. ASSUME NEW i \in Sites(u, ops), i > Len(t)
      PROVE  /\ i \in Nat /\ i - Len(t) \in 1..Len(c) /\ u[i] = c[i - Len(t)]
             /\ c[i - Len(t)].op \in ops
  <2>1. i \in 1..Len(u) /\ u[i].op \in ops
    BY DEF Sites
  <2>2. i \in Nat /\ i - Len(t) \in 1..Len(c) /\ Len(t) + (i - Len(t)) = i
    BY <1>1, <1>3, <2>1 DEF Adds
  <2>3. u[i] = c[i - Len(t)]
    BY <2>2 DEF Adds
  <2>. QED
    BY <2>1, <2>2, <2>3
<1>. QED
  BY <1>2, <1>3

\* What is allowed to be emitted makes the tape longer as the flow needs it.
LEMMA AllowedAdds ==
    ASSUME TypeOK, TypeOK', NEW c \in Seq(Instruction), Adds(tape, tape', c),
           Allowed(c)
    PROVE  /\ Longer(tape, tape')
           /\ JumpsAdded(tape, frames, tape')
           /\ LabelsAdded(tape, frames, tape')
<1>. DEFINE n == Len(tape)
<1>0. tape \in Seq(Instruction) /\ tape' \in Seq(Instruction) /\ n \in Nat
  BY LenProperties DEF TypeOK
<1>1. PICK u \in Seq(Instruction) : u = tape'
  BY <1>0
<1>2. /\ Longer(tape, u)
      /\ \A i \in JumpsOf(u) : i > n =>
             /\ i - n \in 1..Len(c) /\ u[i] = c[i - n] /\ c[i - n].op \in {"JMP", "JMP_IF_NOT"}
      /\ \A i \in LabelsOf(u) : i > n =>
             /\ i - n \in 1..Len(c) /\ u[i] = c[i - n] /\ c[i - n].op = "LABEL"
  BY <1>0, <1>1, AddedSites DEF JumpsOf, LabelsOf
<1>3. /\ \A i \in JumpsOf(u) : i \in Nat /\ (i <= n => i \in JumpsOf(tape) /\ u[i] = tape[i])
  BY <1>0, <1>2, LongerSites DEF JumpsOf
<1>. HIDE DEF n
<1>4. JumpsAdded(tape, frames, u)
  <2>. SUFFICES ASSUME NEW i \in JumpsOf(u), i > n
                PROVE  /\ u[i].arg \in Nat
                       /\ \A k \in LabelsOf(tape) : u[i].arg = tape[k].arg => StillOpen(tape, frames, k)
    BY DEF JumpsAdded, n
  <2>1. PICK j \in 1..Len(c) : u[i] = c[j] /\ c[j].op \in {"JMP", "JMP_IF_NOT"}
    BY <1>2
  <2>2. u[i].arg \in Nat
    BY <2>1 DEF Allowed, JumpAllowed
  <2>3. ASSUME NEW k \in LabelsOf(tape), u[i].arg = tape[k].arg
        PROVE  StillOpen(tape, frames, k)
    <3>1. c[j].arg \in Labelled /\ c[j].arg = tape[k].arg
      BY <2>1, <2>3, OnTape
    <3>2. PICK q \in 1..Len(frames) : IsLoop(q) /\ frames[q].label = c[j].arg
      BY <2>1, <3>1 DEF Allowed, JumpAllowed
    <3>. QED
      BY <3>1, <3>2 DEF StillOpen, Begins, IsLoop
  <2>. QED
    BY <2>2, <2>3
<1>5. LabelsAdded(tape, frames, u)
  <2>. SUFFICES ASSUME NEW k \in LabelsOf(u), k > n
                PROVE  /\ u[k].arg \notin Names
                       /\ \A l \in LabelsOf(tape) : tape[l].arg # u[k].arg
                       /\ \A i \in JumpsOf(u) : u[i].arg = u[k].arg =>
                             /\ i <= n /\ Len(frames) \in 1..Len(frames)
                             /\ tape[i].arg \in Owes(frames[Len(frames)])
    BY DEF LabelsAdded, n
  <2>1. PICK j \in 1..Len(c) : u[k] = c[j] /\ c[j].op = "LABEL"
    BY <1>2
  <2>2. u[k].arg \notin Names /\ u[k].arg \notin Labelled
    BY <2>1 DEF Allowed, LabelAllowed, Apart
  <2>3. ASSUME NEW i \in JumpsOf(u), u[i].arg = u[k].arg
        PROVE  /\ i <= n /\ Len(frames) \in 1..Len(frames)
               /\ tape[i].arg \in Owes(frames[Len(frames)])
    <3>1. CASE i <= n
      <4>1. u[i] = tape[i] /\ tape[i].arg \in Jumped
        BY <1>3, <3>1, OnTape
      <4>. QED
        BY <2>1, <2>3, <3>1, <4>1 DEF Allowed, LabelAllowed, Apart
    <3>2. CASE i > n
      <4>1. PICK p \in 1..Len(c) : u[i] = c[p] /\ c[p].op \in {"JMP", "JMP_IF_NOT"}
        BY <1>2, <3>2
      <4>. QED
        BY <2>1, <2>3, <4>1 DEF Allowed, LabelAllowed, Apart
    <3>. QED
      BY <1>0, <1>3, <3>1, <3>2
  <2>. QED
    BY <2>2, <2>3, OnTape
<1>. QED
  BY <1>1, <1>2, <1>4, <1>5

\* The loop of an activation that stays began where it began before.
LEMMA BeginsKept ==
    ASSUME TypeOK, TypeOK', LoopsStarted,
           Longer(tape, tape'), LabelsAdded(tape, frames, tape'),
           NEW q \in 1..Len(frames), NEW g, g.kind = "loop", g.label = frames[q].label, IsLoop(q)
    PROVE  \A k : Begins(tape', g, k) <=> Begins(tape, frames[q], k)
<1>1. PICK u \in Seq(Instruction) : u = tape'
  BY DEF TypeOK
<1>2. tape \in Seq(Instruction) /\ Len(tape) \in Nat
  BY LenProperties DEF TypeOK
<1>3. /\ \A k \in LabelsOf(u) : k \in Nat /\ (k <= Len(tape) => k \in LabelsOf(tape) /\ u[k] = tape[k])
      /\ \A k \in LabelsOf(tape) : k \in LabelsOf(u) /\ u[k] = tape[k]
  BY <1>1, <1>2, LongerSites, SitesKept DEF LabelsOf
<1>4. ASSUME NEW k, Begins(u, g, k)
      PROVE  Begins(tape, frames[q], k)
  <2>1. k \in LabelsOf(u) /\ u[k].arg = frames[q].label
    BY <1>4 DEF Begins
  <2>2. PICK l \in LabelsOf(tape) : tape[l].arg = frames[q].label
    BY OnTape DEF LoopsStarted, IsLoop
  <2>3. k <= Len(tape)
    BY <1>1, <1>2, <1>3, <2>1, <2>2 DEF LabelsAdded
  <2>. QED
    BY <1>3, <2>1, <2>3 DEF Begins, IsLoop
<1>5. ASSUME NEW k, Begins(tape, frames[q], k)
      PROVE  Begins(u, g, k)
  BY <1>3, <1>5 DEF Begins
<1>. QED
  BY <1>1, <1>4, <1>5

\* What the flow needs of the tape between two states.
FlowInv == Flow(tape, frames)

\* A step other than the start of a subprogram keeps it and emits no entry.
FlowKept ==
    FlowInv' /\ EntriesOf(tape') = EntriesOf(tape) /\ Longer(tape, tape')

\* What OwesNew says of the labels owed is what growing asks for.
LEMMA OwesNewAdded ==
    ASSUME OwesNew
    PROVE  OwedAdded(tape, frames, frames')
BY OnTape DEF OwesNew, OwedAdded

\* A step that opens and closes no loop keeps the flow.
LEMMA SameLoopsFlow ==
    ASSUME TypeOK, TypeOK', JumpInv, FlowInv, SameLoops, OwesNew,
           NEW c \in Seq(Instruction), Adds(tape, tape', c), Allowed(c)
    PROVE  FlowKept
<1>1. /\ Longer(tape, tape') /\ JumpsAdded(tape, frames, tape')
      /\ LabelsAdded(tape, frames, tape')
  BY AllowedAdds
<1>2. LoopsStarted
  BY DEF JumpInv
<1>3. PICK u \in Seq(Instruction), v \in Seq(Frame) : u = tape' /\ v = frames'
  BY DEF TypeOK
<1>4. /\ \A q \in 1..Len(v) : v[q].kind = "loop" =>
             q \in 1..Len(frames) /\ IsLoop(q) /\ v[q].label = frames[q].label
      /\ \A q \in 1..Len(frames) : IsLoop(q) =>
             q \in 1..Len(v) /\ v[q].kind = "loop" /\ v[q].label = frames[q].label
  BY <1>3 DEF SameLoops, IsLoop, LoopOf
<1>5. StartsAdded(tape, frames, u, v)
  <2>1. ASSUME NEW q \in 1..Len(v), NEW k \in LabelsOf(u), Begins(u, v[q], k)
        PROVE  q \in 1..Len(frames) /\ Begins(tape, frames[q], k)
    <3>1. v[q].kind = "loop"
      BY <2>1 DEF Begins
    <3>2. q \in 1..Len(frames) /\ IsLoop(q) /\ v[q].label = frames[q].label
      BY <1>4, <3>1
    <3>. QED
      BY <1>1, <1>2, <1>3, <2>1, <3>1, <3>2, BeginsKept
  <2>. QED
    BY <2>1 DEF StartsAdded
<1>6. StartsKept(tape, frames, u, v)
  <2>1. ASSUME NEW q \in 1..Len(frames), NEW k \in LabelsOf(tape), Begins(tape, frames[q], k)
        PROVE  StillOpen(u, v, k)
    <3>1. IsLoop(q)
      BY <2>1 DEF Begins, IsLoop
    <3>2. q \in 1..Len(v) /\ v[q].kind = "loop" /\ v[q].label = frames[q].label
      BY <1>4, <3>1
    <3>3. Begins(u, v[q], k)
      BY <1>1, <1>2, <1>3, <2>1, <3>1, <3>2, BeginsKept
    <3>. QED
      BY <3>2, <3>3 DEF StillOpen
  <2>. QED
    BY <2>1 DEF StartsKept
<1>7. Extends(tape, frames, u, v)
  BY <1>1, <1>3, <1>5, <1>6, OwesNewAdded DEF Extends
<1>8. tape \in Seq(Instruction) /\ frames \in Seq(Frame)
  BY DEF TypeOK
<1>. QED
  BY <1>1, <1>3, <1>7, <1>8, FlowGrows DEF FlowInv, FlowKept

(***************************************************************************)
(* The labels the steps emit and name.  A subprogram that is called like a *)
(* generated label is ruled out from here on.                              *)
(***************************************************************************)
\* Labels from LabelCounter on are nowhere yet.
LEMMA FreshLabels ==
    ASSUME TypeOK, LabelInv, JumpInv, FlowInv, Names \cap Nat = {},
           NEW l \in Nat, l >= LabelCounter
    PROVE  l \notin Names /\ l \notin Labelled /\ l \notin Jumped
<1>1. LabelCounter \in Nat
  BY DEF TypeOK
<1>2. l \notin Labelled
  BY <1>1 DEF LabelInv, LabelledOnce
<1>3. l \notin Owed
  BY <1>1, OwedNat DEF LabelInv, OwedOnce
<1>. QED
  BY <1>2, <1>3 DEF JumpInv

\* Labels owed are numbers that are not yet on the tape.
LEMMA OwedLabels ==
    ASSUME TypeOK, LabelInv, Names \cap Nat = {}, NEW l \in Owed
    PROVE  l \in Nat /\ l \notin Names /\ l \notin Labelled
<1>1. l \in Nat
  BY OwedNat
<1>. QED
  BY <1>1 DEF LabelInv, LabelledOnce

\* The innermost activation owes among the others.
LEMMA TopOwes ==
    ASSUME TypeOK, frames # <<>>
    PROVE  /\ Len(frames) \in 1..Len(frames) /\ Top(frames) = frames[Len(frames)]
           /\ Owes(Top(frames)) \subseteq Owed
<1>1. Len(frames) \in 1..Len(frames)
  BY PopTop, LenProperties DEF TypeOK
<1>. QED
  BY <1>1 DEF Top, Owed

\* Emitting nothing, one instruction or two.
LEMMA EmitAdds ==
    ASSUME TypeOK, NEW c \in Seq(Instruction), Emit(c)
    PROVE  Adds(tape, tape', c)
BY ConcatProperties DEF Emit, Adds, TypeOK

\* A step that emits nothing adds nothing.
LEMMA SameAdds ==
    ASSUME TypeOK, tape' = tape
    PROVE  <<>> \in Seq(Instruction) /\ Adds(tape, tape', <<>>) /\ Allowed(<<>>)
<1>1. Len(tape) \in Nat /\ Len(<<>>) = 0 /\ <<>> \in Seq(Instruction)
  BY LenProperties DEF TypeOK
<1>. QED
  BY <1>1 DEF Adds, Allowed

\* A step that emits one instruction adds it.
LEMMA OneAdds ==
    ASSUME TypeOK, NEW a \in Instruction, Emit(<<a>>), JumpAllowed(a), LabelAllowed(a)
    PROVE  <<a>> \in Seq(Instruction) /\ Adds(tape, tape', <<a>>) /\ Allowed(<<a>>)
<1>1. <<a>> \in Seq(Instruction) /\ Len(<<a>>) = 1 /\ <<a>>[1] = a
  OBVIOUS
<1>2. Apart(a, a)
  BY DEF Apart
<1>3. Allowed(<<a>>)
  BY <1>1, <1>2 DEF Allowed
<1>. QED
  BY <1>1, <1>3, EmitAdds

\* A step that emits two instructions adds them, when neither is the jump to the
\* label that the other is.
LEMMA TwoAdds ==
    ASSUME TypeOK, NEW a \in Instruction, NEW b \in Instruction, Emit(<<a, b>>),
           JumpAllowed(a), LabelAllowed(a), JumpAllowed(b), LabelAllowed(b),
           Apart(a, b), Apart(b, a)
    PROVE  <<a, b>> \in Seq(Instruction) /\ Adds(tape, tape', <<a, b>>) /\ Allowed(<<a, b>>)
<1>1. <<a, b>> \in Seq(Instruction) /\ Len(<<a, b>>) = 2 /\ <<a, b>>[1] = a /\ <<a, b>>[2] = b
  OBVIOUS
<1>2. Apart(a, a) /\ Apart(b, b)
  BY DEF Apart
<1>3. \A i \in 1..2 : i = 1 \/ i = 2
  OBVIOUS
<1>4. Allowed(<<a, b>>)
  BY <1>1, <1>2, <1>3 DEF Allowed
<1>. QED
  BY <1>1, <1>4, EmitAdds

\* An instruction that is neither a label nor a jump, a jump and a label.
LEMMA PlainAllowed ==
    ASSUME NEW a, a.op \notin {"LABEL", "JMP", "JMP_IF_NOT"}
    PROVE  JumpAllowed(a) /\ LabelAllowed(a) /\ \A b : Apart(a, b) /\ Apart(b, a)
BY DEF JumpAllowed, LabelAllowed, Apart

\* A jump to a label that is not on the tape, or back to the start of an open loop,
\* may be emitted.
LEMMA JumpsAllowed ==
    ASSUME NEW op \in {"JMP", "JMP_IF_NOT"}, NEW l \in Nat,
           \/ l \notin Labelled
           \/ \E q \in 1..Len(frames) : IsLoop(q) /\ frames[q].label = l
    PROVE  J(op, l) \in Instruction /\ JumpAllowed(J(op, l)) /\ LabelAllowed(J(op, l))
BY LabelInstruction DEF JumpAllowed, LabelAllowed, J, Label

\* A label may be emitted that is on no tape yet and awaited by no jump but those of
\* the innermost activation.
LEMMA LabelsAllowed ==
    ASSUME NEW l \in Nat, l \notin Names, l \notin Labelled,
           l \in Jumped => Len(frames) \in 1..Len(frames) /\ l \in Owes(frames[Len(frames)])
    PROVE  /\ J("LABEL", l) \in Instruction
           /\ JumpAllowed(J("LABEL", l)) /\ LabelAllowed(J("LABEL", l))
BY LabelInstruction DEF JumpAllowed, LabelAllowed, J, Label

\* A jump is no jump to a label of another number.
LEMMA JumpApart ==
    ASSUME NEW op \in {"JMP", "JMP_IF_NOT"}, NEW l, NEW k, l # k
    PROVE  Apart(J(op, l), J("LABEL", k)) /\ Apart(J("LABEL", k), J(op, l))
BY DEF Apart, J

(***************************************************************************)
(* What steps on frames make the activations owe.                          *)
(***************************************************************************)
LEMMA LoweredNew ==
    ASSUME TypeOK, NEW isReturn \in BOOLEAN, frames' = Lowered(isReturn)
    PROVE  OwesNew
<1>1. /\ Len(frames') = Len(frames)
      /\ \A i \in 1..Len(frames) : Owes(frames'[i]) = Owes(frames[i])
  BY LoweredFrames, OwesSame
<1>. QED
  BY <1>1 DEF OwesNew

\* Opening an activation that owes labels nobody jumps to makes no jump wait that did
\* not wait before.
LEMMA OpenNew ==
    ASSUME TypeOK, NEW kind \in FrameKinds, NEW label \in Nat, NEW end \in Nat,
           Open(kind, label, end), Owes(Activation(kind, label, end)) \cap Jumped = {}
    PROVE  OwesNew
<1>1. /\ Len(frames) \in Nat /\ Len(frames') = Len(frames) + 1
      /\ frames'[Len(frames) + 1] = Activation(kind, label, end)
      /\ \A i \in 1..Len(frames) : Owes(frames'[i]) = Owes(frames[i])
  BY OpenFrames, OwesSame
<1>2. \A i \in 1..(Len(frames) + 1) : i \in 1..Len(frames) \/ i = Len(frames) + 1
  BY <1>1
<1>. QED
  BY <1>1, <1>2 DEF OwesNew

\* Nor does closing the innermost one.
LEMMA CloseNew ==
    ASSUME TypeOK, NEW kind, Close(kind)
    PROVE  OwesNew
<1>1. /\ Len(frames) \in Nat /\ Len(frames') = Len(frames) - 1
      /\ \A i \in 1..(Len(frames) - 1) : frames'[i] = frames[i]
  BY PopTop, LenProperties DEF TypeOK, Close
<1>2. \A i \in 1..(Len(frames) - 1) : i \in 1..Len(frames)
  BY <1>1
<1>. QED
  BY <1>1, <1>2 DEF OwesNew

\* Nor does going from an if's body to its else.
LEMMA ElseNew ==
    ASSUME TypeOK, LowerElse
    PROVE  OwesNew
<1>. DEFINE depth == Len(frames)
            top == Top(frames)
            else == Activation("else", top.label, top.end)
<1>1. /\ depth \in Nat /\ depth >= 1 /\ top \in Frame
      /\ Pop(frames) \in Seq(Frame) /\ Len(Pop(frames)) = depth - 1
      /\ \A i \in 1..(depth - 1) : Pop(frames)[i] = frames[i]
      /\ top = frames[depth] /\ top.kind = "if"
  BY PopTop, LenProperties DEF TypeOK, LowerElse, Top
<1>2. else \in Frame
  BY <1>1, ActivationType DEF Frame, FrameKinds
<1>3. Owes(else) \subseteq Owes(top)
  BY <1>1 DEF Owes, Activation
<1>4. frames' = Append(Pop(frames), else)
  BY DEF LowerElse
<1>. HIDE DEF else
<1>5. /\ Len(frames') = depth /\ frames'[depth] = else
      /\ \A i \in 1..(depth - 1) : frames'[i] = frames[i]
  BY <1>1, <1>2, <1>4, AppendTop
<1>6. \A i \in 1..depth : i \in 1..(depth - 1) \/ i = depth
  BY <1>1
<1>. QED
  BY <1>1, <1>3, <1>5, <1>6 DEF OwesNew

(***************************************************************************)
(* The steps, but for the start of a subprogram.                           *)
(***************************************************************************)
\* What is known of the state before a step.
Known == TypeOK /\ LabelInv /\ JumpInv /\ LoopInv /\ FlowInv

\* Where break and continue go is allowed.
LEMMA LeaveToAllowed ==
    ASSUME Known, Names \cap Nat = {}, NEW side \in {"start", "end"}
    PROVE  LeaveTo(side) \in Instruction /\ JumpAllowed(LeaveTo(side)) /\ LabelAllowed(LeaveTo(side))
<1>. TypeOK /\ LabelInv /\ JumpInv /\ LoopInv /\ FlowInv
  BY DEF Known
<1>1. CASE LoopStack = <<>>
  <2>1. LeaveTo(side) = I("TRAP") /\ I("TRAP").op = "TRAP" /\ I("TRAP") \in Instruction
    BY <1>1, PlainInstruction DEF LeaveTo, I, Plain
  <2>. QED
    BY <2>1, PlainAllowed
<1>2. CASE LoopStack # <<>>
  <2>1. Len(LoopStack) \in 1..Len(LoopStack)
    BY <1>2, PopTop DEF TypeOK
  <2>2. PICK m \in 1..Len(frames) : frames[m].kind = "loop" /\ Top(LoopStack) = LoopOf(frames[m])
    BY <2>1, LoopInvOpen DEF LoopStackOpen, Top
  <2>3. frames[m].label \in Nat /\ frames[m].end \in Nat
    <3>1. frames[m] \in Frame
      BY ElementOfSeq DEF TypeOK
    <3>. QED
      BY <3>1 DEF Frame
  <2>4. frames[m].end \in Owed
    <3>1. frames[m].end \in Owes(frames[m])
      BY <2>2 DEF Owes
    <3>. QED
      BY <3>1 DEF Owed
  <2>5. frames[m].end \notin Labelled
    BY <2>4, OwedLabels
  <2>6. PICK l \in Nat : l = Top(LoopStack)[side] /\ (l = frames[m].label \/ l \notin Labelled)
    BY <2>2, <2>3, <2>5 DEF LoopOf
  <2>7. LeaveTo(side) = J("JMP", l)
    BY <1>2, <2>6 DEF LeaveTo
  <2>. QED
    BY <2>2, <2>6, <2>7, JumpsAllowed DEF IsLoop
<1>. QED
  BY <1>1, <1>2

\* Statements without a body.
LEMMA SimpleFlow ==
    ASSUME Known, TypeOK', Names \cap Nat = {},
           LowerStraight \/ LowerReturn \/ LowerBreak \/ LowerContinue
    PROVE  FlowKept
<1>. TypeOK /\ LabelInv /\ JumpInv /\ LoopInv /\ FlowInv
  BY DEF Known
<1>1. SameLoops /\ OwesNew
  <2>1. frames' = Lowered(TRUE) \/ frames' = Lowered(FALSE)
    BY DEF LowerStraight, LowerReturn, LowerBreak, LowerContinue
  <2>. QED
    BY <2>1, LoweredSame, LoweredNew
<1>2. CASE LowerStraight
  <2>1. tape' = tape
    BY <1>2 DEF LowerStraight
  <2>. QED
    BY <1>1, <2>1, SameAdds, SameLoopsFlow
<1>3. ASSUME NEW a \in Instruction, Emit(<<a>>), JumpAllowed(a), LabelAllowed(a)
      PROVE  FlowKept
  BY <1>1, <1>3, OneAdds, SameLoopsFlow
<1>4. CASE LowerReturn
  <2>1. I("RET") \in Instruction /\ I("RET").op = "RET" /\ Emit(<<I("RET")>>)
    BY <1>4, PlainInstruction DEF LowerReturn, I, Plain
  <2>. QED
    BY <1>3, <2>1, PlainAllowed
<1>5. CASE LowerBreak \/ LowerContinue
  <2>1. PICK side \in {"start", "end"} : Emit(<<LeaveTo(side)>>)
    BY <1>5 DEF LowerBreak, LowerContinue
  <2>. QED
    BY <1>3, <2>1, LeaveToAllowed
<1>. QED
  BY <1>2, <1>4, <1>5

\* The steps of an if.
LEMMA IfFlow ==
    ASSUME Known, TypeOK', Names \cap Nat = {}, LowerIf \/ LowerElse \/ EndIf
    PROVE  FlowKept
<1>. TypeOK /\ LabelInv /\ JumpInv /\ LoopInv /\ FlowInv
  BY DEF Known
<1>1. CASE LowerIf
  <2>0. LabelCounter \in Nat /\ LabelCounter + 1 \in Nat /\ LabelCounter + 1 >= LabelCounter
        /\ LabelCounter >= LabelCounter
    BY DEF TypeOK
  <2>1. /\ LabelCounter \notin Labelled /\ LabelCounter \notin Jumped
        /\ LabelCounter + 1 \notin Jumped
    BY <2>0, FreshLabels
  <2>2. Emit(<<J("JMP_IF_NOT", LabelCounter)>>) /\ Open("if", LabelCounter, LabelCounter + 1)
    BY <1>1 DEF LowerIf
  <2>3. Owes(Activation("if", LabelCounter, LabelCounter + 1)) = {LabelCounter, LabelCounter + 1}
        /\ "if" \in FrameKinds \ {"loop"}
    BY DEF Owes, Activation, FrameKinds
  <2>4. SameLoops /\ OwesNew
    BY <2>0, <2>1, <2>2, <2>3, OpenSame, OpenNew
  <2>5. PICK a \in Instruction : Emit(<<a>>) /\ JumpAllowed(a) /\ LabelAllowed(a)
    BY <2>0, <2>1, <2>2, JumpsAllowed
  <2>. QED
    BY <2>4, <2>5, OneAdds, SameLoopsFlow
<1>2. CASE LowerElse
  <2>. DEFINE top == Top(frames)
  <2>1. frames # <<>> /\ top.kind = "if" /\ Emit(<<J("JMP", top.end), J("LABEL", top.label)>>)
    BY <1>2 DEF LowerElse
  <2>2. /\ Len(frames) \in 1..Len(frames) /\ top = frames[Len(frames)] /\ Owes(top) \subseteq Owed
        /\ Owes(top) = {top.label, top.end}
    BY <2>1, TopOwes DEF Owes
  <2>3. /\ top.label \in Nat /\ top.label \notin Names /\ top.label \notin Labelled
        /\ top.end \in Nat /\ top.end \notin Labelled
    BY <2>2, OwedLabels
  <2>4. top.label # top.end
    BY <2>1, <2>2 DEF LabelInv, OwedOnce
  <2>5. SameLoops /\ OwesNew
    BY <1>2, ElseSame, ElseNew
  <2>. HIDE DEF top
  <2>6. PICK a \in Instruction : /\ a = J("JMP", top.end) /\ JumpAllowed(a) /\ LabelAllowed(a)
    BY <2>3, JumpsAllowed
  <2>7. PICK b \in Instruction : /\ b = J("LABEL", top.label) /\ JumpAllowed(b) /\ LabelAllowed(b)
    BY <2>2, <2>3, LabelsAllowed
  <2>8. Apart(a, b) /\ Apart(b, a)
    BY <2>4, <2>6, <2>7, JumpApart
  <2>. QED
    BY <2>1, <2>5, <2>6, <2>7, <2>8, TwoAdds, SameLoopsFlow
<1>3. CASE EndIf
  <2>1. Close("else") /\ Emit(<<J("LABEL", Top(frames).end)>>) /\ frames # <<>>
    BY <1>3 DEF EndIf, Close
  <2>2. /\ Len(frames) \in 1..Len(frames) /\ Top(frames) = frames[Len(frames)]
        /\ Top(frames).end \in Owes(Top(frames)) /\ Owes(Top(frames)) \subseteq Owed
    BY <2>1, TopOwes DEF Owes, Close
  <2>3. Top(frames).end \in Nat /\ Top(frames).end \notin Names /\ Top(frames).end \notin Labelled
    BY <2>2, OwedLabels
  <2>4. "else" \in FrameKinds \ {"loop"}
    BY DEF FrameKinds
  <2>5. SameLoops /\ OwesNew
    BY <2>1, <2>4, CloseSame, CloseNew
  <2>6. PICK a \in Instruction : Emit(<<a>>) /\ JumpAllowed(a) /\ LabelAllowed(a)
    BY <2>1, <2>2, <2>3, LabelsAllowed
  <2>. QED
    BY <2>5, <2>6, OneAdds, SameLoopsFlow
<1>. QED
  BY <1>1, <1>2, <1>3

\* The steps of a match.
LEMMA MatchFlow ==
    ASSUME Known, TypeOK', Names \cap Nat = {},
           \/ LowerMatch \/ EndArm \/ EndMatch
           \/ \E guarded \in BOOLEAN : OpenArm(guarded)
    PROVE  FlowKept
<1>. TypeOK /\ LabelInv /\ JumpInv /\ LoopInv /\ FlowInv
  BY DEF Known
<1>0. LabelCounter \in Nat /\ LabelCounter >= LabelCounter /\ 0 \in Nat
  BY DEF TypeOK
<1>a. LabelCounter \notin Labelled /\ LabelCounter \notin Jumped
  BY <1>0, FreshLabels
<1>b. "match" \in FrameKinds \ {"loop"} /\ "arm" \in FrameKinds \ {"loop"}
  BY DEF FrameKinds
<1>1. CASE LowerMatch
  <2>1. tape' = tape /\ Open("match", 0, LabelCounter)
    BY <1>1 DEF LowerMatch
  <2>2. Owes(Activation("match", 0, LabelCounter)) = {LabelCounter}
    BY DEF Owes, Activation
  <2>3. SameLoops /\ OwesNew
    BY <1>0, <1>a, <1>b, <2>1, <2>2, OpenSame, OpenNew
  <2>. QED
    BY <2>1, <2>3, SameAdds, SameLoopsFlow
<1>2. ASSUME NEW guarded \in BOOLEAN, OpenArm(guarded)
      PROVE  FlowKept
  <2>. DEFINE test == J("JMP_IF_NOT", LabelCounter)
              end == Top(frames).end
  <2>1. Emit(<<test>>) \/ Emit(<<test, test>>)
    BY <1>2 DEF OpenArm
  <2>2. Open("arm", LabelCounter, end) /\ frames # <<>>
    BY <1>2 DEF OpenArm
  <2>3. end \in Nat
    <3>1. Top(frames) \in Frame
      BY <2>2, PopTop DEF TypeOK
    <3>. QED
      BY <3>1 DEF Frame
  <2>4. Owes(Activation("arm", LabelCounter, end)) = {LabelCounter}
    BY DEF Owes, Activation
  <2>5. test \in Instruction /\ JumpAllowed(test) /\ LabelAllowed(test) /\ Apart(test, test)
    BY <1>0, <1>a, JumpsAllowed DEF Apart, J
  <2>. HIDE DEF test, end
  <2>6. SameLoops /\ OwesNew
    BY <1>0, <1>a, <1>b, <2>2, <2>3, <2>4, OpenSame, OpenNew
  <2>7. CASE Emit(<<test>>)
    BY <2>5, <2>6, <2>7, OneAdds, SameLoopsFlow
  <2>8. CASE Emit(<<test, test>>)
    BY <2>5, <2>6, <2>8, TwoAdds, SameLoopsFlow
  <2>. QED
    BY <2>1, <2>7, <2>8
<1>3. CASE EndArm
  <2>. DEFINE top == Top(frames)
              depth == Len(frames)
  <2>1. Close("arm") /\ frames # <<>> /\ Emit(<<J("JMP", top.end), J("LABEL", top.label)>>)
    BY <1>3 DEF EndArm, Close
  <2>2. /\ depth \in 1..depth /\ top = frames[depth] /\ Owes(top) \subseteq Owed
        /\ Owes(top) = {top.label} /\ top.kind = "arm" /\ depth \in Nat
    BY <2>1, TopOwes, LenProperties DEF Owes, Close, TypeOK
  <2>3. top.label \in Nat /\ top.label \notin Names /\ top.label \notin Labelled
    BY <2>2, OwedLabels
  <2>4. /\ depth - 1 \in 1..depth /\ depth - 1 # depth
        /\ frames[depth - 1].kind = "match" /\ frames[depth - 1].end = top.end
    <3>1. depth > 1 /\ frames[depth - 1].kind = "match" /\ frames[depth - 1].end = top.end
      BY <2>2 DEF JumpInv, ArmsInMatch
    <3>. QED
      BY <2>2, <3>1
  <2>5. top.end \in Owes(frames[depth - 1])
    BY <2>4 DEF Owes
  <2>6. top.end # top.label
    BY <2>2, <2>4, <2>5 DEF LabelInv, OwedOnce
  <2>7. top.end \in Nat /\ top.end \notin Labelled
    <3>1. top.end \in Owed
      BY <2>4, <2>5 DEF Owed
    <3>. QED
      BY <3>1, OwedLabels
  <2>8. SameLoops /\ OwesNew
    BY <1>b, <2>1, CloseSame, CloseNew
  <2>. HIDE DEF top
  <2>9. PICK a \in Instruction : /\ a = J("JMP", top.end) /\ JumpAllowed(a) /\ LabelAllowed(a)
    BY <2>7, JumpsAllowed
  <2>10. PICK b \in Instruction : /\ b = J("LABEL", top.label) /\ JumpAllowed(b) /\ LabelAllowed(b)
    BY <2>2, <2>3, LabelsAllowed
  <2>11. Apart(a, b) /\ Apart(b, a)
    BY <2>6, <2>9, <2>10, JumpApart
  <2>. QED
    BY <2>1, <2>8, <2>9, <2>10, <2>11, TwoAdds, SameLoopsFlow
<1>4. CASE EndMatch
  <2>1. Close("match") /\ Emit(<<J("LABEL", Top(frames).end)>>) /\ frames # <<>>
    BY <1>4 DEF EndMatch, Close
  <2>2. /\ Len(frames) \in 1..Len(frames) /\ Top(frames) = frames[Len(frames)]
        /\ Top(frames).end \in Owes(Top(frames)) /\ Owes(Top(frames)) \subseteq Owed
    BY <2>1, TopOwes DEF Owes, Close
  <2>3. Top(frames).end \in Nat /\ Top(frames).end \notin Names /\ Top(frames).end \notin Labelled
    BY <2>2, OwedLabels
  <2>4. SameLoops /\ OwesNew
    BY <1>b, <2>1, CloseSame, CloseNew
  <2>5. PICK a \in Instruction : Emit(<<a>>) /\ JumpAllowed(a) /\ LabelAllowed(a)
    BY <2>1, <2>2, <2>3, LabelsAllowed
  <2>. QED
    BY <2>4, <2>5, OneAdds, SameLoopsFlow
<1>. QED
  BY <1>1, <1>2, <1>3, <1>4

\* Blocks and regions, and the end of a subprogram.
LEMMA BlockFlow ==
    ASSUME Known, TypeOK',
           \/ \E kind \in {"block", "defer"} : LowerBlock(kind)
           \/ EndBlock
           \/ \E region \in Regions : LowerScopedBlock(region) \/ EndScopedBlock(region)
           \/ EndSubprogram
    PROVE  FlowKept
<1>. TypeOK /\ LabelInv /\ JumpInv /\ LoopInv /\ FlowInv
  BY DEF Known
<1>. DEFINE begin == I("SCOPE_BEGIN")
            end == I("SCOPE_END")
            defer == I("DEFER")
            ret == I("RET")
<1>1. /\ {begin, end, defer, ret} \subseteq Instruction
      /\ \A a \in {begin, end, defer, ret} : a.op \notin {"LABEL", "JMP", "JMP_IF_NOT"}
  <2>1. begin.op = "SCOPE_BEGIN" /\ end.op = "SCOPE_END" /\ defer.op = "DEFER" /\ ret.op = "RET"
    BY DEF I
  <2>. QED
    BY <2>1, PlainInstruction DEF Plain
<1>. HIDE DEF begin, end, defer, ret
<1>2. ASSUME NEW kind \in Regions \cup {"block", "subprogram"},
             Open(kind, 0, 0) \/ Close(kind)
      PROVE  SameLoops /\ OwesNew
  <2>1. kind \in FrameKinds \ {"loop"} /\ Owes(Activation(kind, 0, 0)) = {} /\ 0 \in Nat
    BY DEF FrameKinds, Regions, Owes, Activation
  <2>2. CASE Open(kind, 0, 0)
    BY <2>1, <2>2, OpenSame, OpenNew
  <2>3. CASE Close(kind)
    BY <2>1, <2>3, CloseSame, CloseNew
  <2>. QED
    BY <1>2, <2>2, <2>3
<1>3. ASSUME SameLoops, OwesNew, NEW a \in Instruction, NEW b \in Instruction,
             a.op \notin {"LABEL", "JMP", "JMP_IF_NOT"}, b.op \notin {"LABEL", "JMP", "JMP_IF_NOT"},
             Emit(<<a>>) \/ Emit(<<a, b>>)
      PROVE  FlowKept
  <2>1. /\ JumpAllowed(a) /\ LabelAllowed(a) /\ JumpAllowed(b) /\ LabelAllowed(b)
        /\ Apart(a, b) /\ Apart(b, a)
    BY <1>3, PlainAllowed
  <2>2. CASE Emit(<<a>>)
    BY <1>3, <2>1, <2>2, OneAdds, SameLoopsFlow
  <2>3. CASE Emit(<<a, b>>)
    BY <1>3, <2>1, <2>3, TwoAdds, SameLoopsFlow
  <2>. QED
    BY <1>3, <2>2, <2>3
<1>4. ASSUME NEW kind \in {"block", "defer"}, LowerBlock(kind)
      PROVE  FlowKept
  <2>1. (Emit(<<defer, begin>>) \/ Emit(<<begin>>)) /\ Open("block", 0, 0)
    BY <1>4 DEF LowerBlock, begin, defer
  <2>. QED
    BY <1>1, <1>2, <1>3, <2>1
<1>5. CASE EndBlock
  <2>1. Emit(<<end>>) /\ Close("block")
    BY <1>5 DEF EndBlock, end
  <2>. QED
    BY <1>1, <1>2, <1>3, <2>1
<1>6. CASE EndSubprogram
  <2>1. (Emit(<<ret, end>>) \/ Emit(<<end>>)) /\ Close("subprogram")
    BY <1>6 DEF EndSubprogram, end, ret
  <2>. QED
    BY <1>1, <1>2, <1>3, <2>1
<1>7. ASSUME NEW region \in Regions, LowerScopedBlock(region) \/ EndScopedBlock(region)
      PROVE  FlowKept
  <2>1. PICK a \in Instruction : /\ a.op \notin {"LABEL", "JMP", "JMP_IF_NOT"} /\ Emit(<<a>>)
                                 /\ Open(region, 0, 0) \/ Close(region)
    <3>1. /\ J("REGION_BEGIN", region) \in Instruction /\ J("REGION_END", region) \in Instruction
          /\ J("REGION_BEGIN", region).op = "REGION_BEGIN"
          /\ J("REGION_END", region).op = "REGION_END"
      BY RegionInstruction DEF J
    <3>. QED
      BY <1>7, <3>1 DEF LowerScopedBlock, EndScopedBlock
  <2>. QED
    BY <1>2, <1>3, <2>1
<1>. QED
  BY <1>4, <1>5, <1>6, <1>7

\* A loop is entered: its start is the last label on the tape.
LEMMA OpenLoopFlow ==
    ASSUME Known, TypeOK', Names \cap Nat = {}, NEW kind, OpenLoop(kind)
    PROVE  FlowKept
<1>. TypeOK /\ LabelInv /\ JumpInv /\ LoopInv /\ FlowInv /\ LoopsStarted
  BY DEF Known, JumpInv
<1>. DEFINE depth == Len(frames)
            n == Len(tape)
            l == LabelCounter
            new == Activation("loop", l, l + 1)
            start == J("LABEL", l)
            exit == J("JMP_IF_NOT", l + 1)
<1>0. /\ l \in Nat /\ l + 1 \in Nat /\ l >= LabelCounter /\ l + 1 >= LabelCounter
      /\ n \in Nat /\ depth \in Nat /\ l + 1 # l
  BY LenProperties DEF TypeOK
<1>1. /\ l \notin Names /\ l \notin Labelled /\ l \notin Jumped
      /\ l + 1 \notin Labelled /\ l + 1 \notin Jumped
  BY <1>0, FreshLabels
<1>2. Emit(<<start, exit>>) /\ Open("loop", l, l + 1)
  BY DEF OpenLoop
<1>3. start \in Instruction /\ JumpAllowed(start) /\ LabelAllowed(start)
  BY <1>0, <1>1, LabelsAllowed
<1>4. exit \in Instruction /\ JumpAllowed(exit) /\ LabelAllowed(exit)
  BY <1>0, <1>1, JumpsAllowed
<1>5. Apart(start, exit) /\ Apart(exit, start)
  BY <1>0, JumpApart
<1>6. start.op = "LABEL" /\ start.arg = l /\ exit.op = "JMP_IF_NOT"
  BY DEF J
<1>7. new.kind = "loop" /\ new.label = l /\ Owes(new) = {l + 1} /\ "loop" \in FrameKinds
  BY DEF Activation, Owes, FrameKinds
<1>8. OwesNew
  BY <1>0, <1>1, <1>2, <1>7, OpenNew
<1>. HIDE DEF start, exit
<1>9. PICK c \in Seq(Instruction) :
          /\ Adds(tape, tape', c) /\ Allowed(c)
          /\ Len(c) = 2 /\ c[1] = start /\ c[2] = exit
  <2>1. Len(<<start, exit>>) = 2 /\ <<start, exit>>[1] = start /\ <<start, exit>>[2] = exit
    OBVIOUS
  <2>. QED
    BY <1>2, <1>3, <1>4, <1>5, <2>1, TwoAdds
<1>10. PICK u \in Seq(Instruction), v \in Seq(Frame) : u = tape' /\ v = frames'
  BY DEF TypeOK
<1>11. /\ Longer(tape, u) /\ JumpsAdded(tape, frames, u) /\ LabelsAdded(tape, frames, u)
  BY <1>9, <1>10, AllowedAdds
<1>12. /\ Len(v) = depth + 1 /\ v[depth + 1] = new
       /\ \A i \in 1..depth : v[i].kind = frames[i].kind /\ v[i].label = frames[i].label
  BY <1>0, <1>2, <1>7, <1>10, OpenFrames
<1>13. \A k \in LabelsOf(u) : /\ k \in Nat /\ k <= n + 1
                              /\ k <= n => k \in LabelsOf(tape) /\ u[k] = tape[k]
  <2>1. Len(u) = n + 2 /\ u[n + 1] = start /\ u[n + 2] = exit
    BY <1>0, <1>9, <1>10 DEF Adds
  <2>2. ASSUME NEW k \in LabelsOf(u)
        PROVE  k \in Nat /\ k <= n + 1
    <3>1. k \in 1..(n + 2) /\ u[k].op = "LABEL"
      BY <1>0, <2>1 DEF LabelsOf, Sites
    <3>2. k # n + 2
      BY <1>6, <2>1, <3>1
    <3>. QED
      BY <1>0, <3>1, <3>2
  <2>3. \A k \in LabelsOf(u) : k <= n => k \in LabelsOf(tape) /\ u[k] = tape[k]
    BY <1>11, LongerSites DEF LabelsOf, TypeOK
  <2>. QED
    BY <2>2, <2>3
<1>. HIDE DEF new
<1>14. StartsAdded(tape, frames, u, v)
  <2>. SUFFICES ASSUME NEW q \in 1..(depth + 1), NEW k \in LabelsOf(u), Begins(u, v[q], k)
                PROVE  \/ q \in 1..depth /\ Begins(tape, frames[q], k)
                       \/ q = depth + 1 /\ k = n + 1
    BY <1>12, <1>13 DEF StartsAdded
  <2>1. v[q].kind = "loop" /\ u[k].arg = v[q].label
    BY DEF Begins
  <2>2. CASE q \in 1..depth
    <3>1. IsLoop(q) /\ v[q].label = frames[q].label
      BY <1>12, <2>1, <2>2 DEF IsLoop
    <3>. QED
      BY <1>10, <1>11, <2>1, <2>2, <3>1, BeginsKept
  <2>3. CASE q = depth + 1
    <3>1. u[k].arg = l
      BY <1>7, <1>12, <2>1, <2>3
    <3>2. ~(k <= n)
      <4>1. k <= n => u[k].arg \in Labelled
        BY <1>13, OnTape
      <4>. QED
        BY <1>1, <3>1, <4>1
    <3>. QED
      BY <1>0, <1>13, <2>3, <3>2
  <2>. QED
    BY <1>0, <2>2, <2>3
<1>15. StartsKept(tape, frames, u, v)
  <2>1. ASSUME NEW q \in 1..depth, NEW k \in LabelsOf(tape), Begins(tape, frames[q], k)
        PROVE  StillOpen(u, v, k)
    <3>1. IsLoop(q) /\ v[q].kind = "loop" /\ v[q].label = frames[q].label
      BY <1>12, <2>1 DEF Begins, IsLoop
    <3>2. Begins(u, v[q], k)
      BY <1>10, <1>11, <2>1, <3>1, BeginsKept
    <3>3. q \in 1..Len(v)
      BY <1>0, <1>12
    <3>. QED
      BY <3>2, <3>3 DEF StillOpen
  <2>. QED
    BY <2>1 DEF StartsKept
<1>16. Extends(tape, frames, u, v)
  BY <1>8, <1>10, <1>11, <1>14, <1>15, OwesNewAdded DEF Extends
<1>17. tape \in Seq(Instruction) /\ frames \in Seq(Frame)
  BY DEF TypeOK
<1>. QED
  BY <1>10, <1>11, <1>16, <1>17, FlowGrows DEF FlowInv, FlowKept

\* A loop ends with the jump to its start.
LEMMA EndLoopFlow ==
    ASSUME Known, TypeOK', Names \cap Nat = {}, EndLoop
    PROVE  FlowKept
<1>. TypeOK /\ LabelInv /\ JumpInv /\ LoopInv /\ FlowInv /\ LoopsStarted
  BY DEF Known, JumpInv
<1>. DEFINE depth == Len(frames)
            n == Len(tape)
            top == Top(frames)
            back == J("JMP", top.label)
            end == J("LABEL", top.end)
<1>1. Close("loop") /\ frames # <<>> /\ top.kind = "loop" /\ Emit(<<back, end>>)
  BY DEF EndLoop, Close
<1>2. /\ depth \in Nat /\ depth >= 1 /\ n \in Nat /\ top = frames[depth] /\ depth \in 1..depth
      /\ Len(frames') = depth - 1
      /\ \A i \in 1..(depth - 1) : frames'[i] = frames[i]
  BY <1>1, PopTop, LenProperties DEF TypeOK, Close, Top
<1>3. top.label \in Nat /\ top.label \in Labelled
  <2>1. top \in Frame
    BY <1>1, PopTop DEF TypeOK
  <2>2. top.label \in Labelled
    BY <1>1, <1>2 DEF LoopsStarted
  <2>. QED
    BY <2>1, <2>2 DEF Frame
<1>4. top.end \in Owes(top) /\ top.end \in Owed
  BY <1>1, <1>2 DEF Owes, Owed
<1>5. top.end \in Nat /\ top.end \notin Names /\ top.end \notin Labelled
  BY <1>4, OwedLabels
<1>6. back \in Instruction /\ JumpAllowed(back) /\ LabelAllowed(back)
  BY <1>1, <1>2, <1>3, JumpsAllowed DEF IsLoop
<1>7. end \in Instruction /\ JumpAllowed(end) /\ LabelAllowed(end)
  BY <1>2, <1>4, <1>5, LabelsAllowed
<1>8. Apart(back, end) /\ Apart(end, back)
  BY <1>3, <1>5, JumpApart
<1>9. back.op = "JMP" /\ back.arg = top.label /\ end.op = "LABEL"
  BY DEF J
<1>10. OwesNew
  BY <1>1, CloseNew
<1>. HIDE DEF back, end, top
<1>11. PICK c \in Seq(Instruction) :
           Adds(tape, tape', c) /\ Allowed(c) /\ Len(c) = 2 /\ c[1] = back /\ c[2] = end
  <2>1. Len(<<back, end>>) = 2 /\ <<back, end>>[1] = back /\ <<back, end>>[2] = end
    OBVIOUS
  <2>. QED
    BY <1>1, <1>6, <1>7, <1>8, <2>1, TwoAdds
<1>12. PICK u \in Seq(Instruction), v \in Seq(Frame) : u = tape' /\ v = frames'
  BY DEF TypeOK
<1>13. Longer(tape, u) /\ JumpsAdded(tape, frames, u) /\ LabelsAdded(tape, frames, u)
  BY <1>11, <1>12, AllowedAdds
<1>14. Len(v) = depth - 1 /\ \A i \in 1..(depth - 1) : v[i] = frames[i] /\ i \in 1..depth
  BY <1>2, <1>12
<1>15. Len(u) = n + 2 /\ u[n + 1] = back /\ u[n + 2] = end
  BY <1>2, <1>11, <1>12 DEF Adds
<1>16. StartsAdded(tape, frames, u, v)
  <2>1. ASSUME NEW q \in 1..Len(v), NEW k \in LabelsOf(u), Begins(u, v[q], k)
        PROVE  q \in 1..depth /\ Begins(tape, frames[q], k)
    <3>1. q \in 1..depth /\ v[q] = frames[q] /\ v[q].kind = "loop"
      BY <1>14, <2>1 DEF Begins
    <3>. QED
      BY <1>12, <1>13, <2>1, <3>1, BeginsKept DEF IsLoop
  <2>. QED
    BY <2>1 DEF StartsAdded
<1>17. StartsKept(tape, frames, u, v)
  <2>. SUFFICES ASSUME NEW q \in 1..depth, NEW k \in LabelsOf(tape), Begins(tape, frames[q], k)
                PROVE  \/ StillOpen(u, v, k)
                       \/ /\ q = depth /\ Goes(u, n + 1, k)
                          /\ \A i \in JumpsOf(u) : i <= n + 1
    BY <1>14 DEF StartsKept
  <2>0. frames[q].kind = "loop" /\ IsLoop(q) /\ tape[k].arg = frames[q].label
    BY DEF Begins, IsLoop
  <2>1. CASE q # depth
    <3>1. q \in 1..(depth - 1) /\ v[q] = frames[q] /\ q \in 1..Len(v)
      BY <1>2, <1>14, <2>1
    <3>2. Begins(u, v[q], k)
      BY <1>12, <1>13, <2>0, <3>1, BeginsKept
    <3>. QED
      BY <3>1, <3>2 DEF StillOpen
  <2>2. CASE q = depth
    <3>1. n + 1 \in JumpsOf(u)
      BY <1>2, <1>9, <1>15 DEF JumpsOf, Sites
    <3>2. k \in LabelsOf(u) /\ u[k] = tape[k]
      BY <1>13, SitesKept DEF LabelsOf, TypeOK
    <3>3. Goes(u, n + 1, k)
      BY <1>2, <1>9, <1>15, <2>0, <2>2, <3>1, <3>2 DEF Goes
    <3>4. ASSUME NEW i \in JumpsOf(u)
          PROVE  i <= n + 1
      <4>1. i \in 1..(n + 2) /\ u[i].op \in {"JMP", "JMP_IF_NOT"}
        BY <1>2, <1>15 DEF JumpsOf, Sites
      <4>2. i # n + 2
        BY <1>9, <1>15, <4>1
      <4>. QED
        BY <1>2, <4>1, <4>2
    <3>. QED
      BY <2>2, <3>3, <3>4
  <2>. QED
    BY <2>1, <2>2
<1>18. Extends(tape, frames, u, v)
  BY <1>10, <1>12, <1>13, <1>16, <1>17, OwesNewAdded DEF Extends
<1>19. tape \in Seq(Instruction) /\ frames \in Seq(Frame)
  BY DEF TypeOK
<1>. QED
  BY <1>12, <1>13, <1>18, <1>19, FlowGrows DEF FlowInv, FlowKept

\* A subprogram starts: nothing is open, and no jump is affected.
LEMMA SubprogramFlow ==
    ASSUME Known, TypeOK', Names \cap Nat = {}, NEW name \in Names, LowerSubprogram(name)
    PROVE  FlowInv' /\ EntriesOf(tape') = EntriesOf(tape) \cup {Len(tape) + 1}
<1>. TypeOK /\ FlowInv
  BY DEF Known
<1>. DEFINE n == Len(tape)
            a == J("LABEL", name)
            begin == I("SCOPE_BEGIN")
<1>1. /\ a \in Instruction /\ a.op = "LABEL" /\ a.arg = name
      /\ begin \in Instruction /\ begin.op = "SCOPE_BEGIN"
      /\ n \in Nat /\ Len(frames) = 0 /\ name \notin Nat
  BY LabelInstruction, PlainInstruction, LenProperties
     DEF J, I, Label, Plain, TypeOK, LowerSubprogram
<1>2. Emit(<<a, begin>>) /\ Open("subprogram", 0, 0)
  BY DEF LowerSubprogram
<1>. HIDE DEF a, begin
<1>3. PICK u \in Seq(Instruction), v \in Seq(Frame) : u = tape' /\ v = frames'
  BY DEF TypeOK
<1>4. /\ Len(u) = n + 2 /\ u[n + 1] = a /\ u[n + 2] = begin
      /\ \A i \in 1..n : u[i] = tape[i]
  <2>1. /\ <<a, begin>> \in Seq(Instruction) /\ Len(<<a, begin>>) = 2
        /\ <<a, begin>>[1] = a /\ <<a, begin>>[2] = begin
    BY <1>1
  <2>2. Adds(tape, tape', <<a, begin>>)
    BY <1>2, <2>1, EmitAdds
  <2>. QED
    BY <1>3, <2>1, <2>2 DEF Adds
<1>5. Len(v) = 1 /\ v[1].kind = "subprogram" /\ Owes(v[1]) = {}
  <2>1. "subprogram" \in FrameKinds /\ 0 \in Nat
    BY DEF FrameKinds
  <2>2. Len(v) = 1 /\ v[1] = Activation("subprogram", 0, 0)
    BY <1>1, <1>2, <1>3, <2>1, OpenFrames
  <2>. QED
    BY <2>2 DEF Activation, Owes
<1>6. \A i \in 1..(n + 2) : i \in 1..n \/ i = n + 1 \/ i = n + 2
  BY <1>1
<1>7. JumpsOf(u) = JumpsOf(tape) /\ \A i \in JumpsOf(tape) : i \in 1..n /\ u[i] = tape[i]
  <2>1. ASSUME NEW i \in JumpsOf(u)
        PROVE  i \in JumpsOf(tape)
    BY <1>1, <1>4, <1>6 DEF JumpsOf, Sites
  <2>2. ASSUME NEW i \in JumpsOf(tape)
        PROVE  i \in JumpsOf(u) /\ i \in 1..n /\ u[i] = tape[i]
    BY <1>1, <1>4 DEF JumpsOf, Sites
  <2>. QED
    BY <2>1, <2>2
<1>8. /\ LabelsOf(u) = LabelsOf(tape) \cup {n + 1}
      /\ \A k \in LabelsOf(tape) : k \in 1..n /\ u[k] = tape[k]
  <2>1. ASSUME NEW i \in LabelsOf(u)
        PROVE  i \in LabelsOf(tape) \cup {n + 1}
    BY <1>1, <1>4, <1>6 DEF LabelsOf, Sites
  <2>2. ASSUME NEW i \in LabelsOf(tape)
        PROVE  i \in LabelsOf(u) /\ i \in 1..n /\ u[i] = tape[i]
    BY <1>1, <1>4 DEF LabelsOf, Sites
  <2>3. n + 1 \in LabelsOf(u)
    BY <1>1, <1>4 DEF LabelsOf, Sites
  <2>. QED
    BY <2>1, <2>2, <2>3
<1>9. EntriesOf(u) = EntriesOf(tape) \cup {n + 1}
  <2>1. u[n + 1].arg \in Names
    BY <1>1, <1>4
  <2>. QED
    BY <1>8, <2>1 DEF EntriesOf
<1>10. \A i, k : Goes(u, i, k) <=> Goes(tape, i, k)
  <2>1. ASSUME NEW i, NEW k, Goes(u, i, k)
        PROVE  Goes(tape, i, k)
    <3>1. i \in JumpsOf(tape) /\ u[i] = tape[i] /\ tape[i].arg \in Nat
      BY <1>7, <2>1 DEF Goes, FlowInv, Flow, Numbered
    <3>2. k # n + 1
      BY <1>1, <1>4, <2>1, <3>1 DEF Goes
    <3>. QED
      BY <1>8, <2>1, <3>1, <3>2 DEF Goes
  <2>2. ASSUME NEW i, NEW k, Goes(tape, i, k)
        PROVE  Goes(u, i, k)
    BY <1>7, <1>8, <2>2 DEF Goes
  <2>. QED
    BY <2>1, <2>2
<1>11. \A q \in 1..Len(v) : Owes(v[q]) = {} /\ \A k : ~Begins(u, v[q], k)
  BY <1>5 DEF Begins
<1>12. \A k : ~StillOpen(tape, frames, k)
  BY <1>1 DEF StillOpen
<1>13. Numbered(u)
  BY <1>7 DEF Numbered, FlowInv, Flow
<1>14. WithinUnit(u)
  <2>. SUFFICES ASSUME NEW i \in JumpsOf(u), NEW k \in LabelsOf(u), Goes(u, i, k),
                       NEW e \in EntriesOf(u)
                PROVE  e <= i <=> e <= k
    BY DEF WithinUnit
  <2>1. Goes(tape, i, k) /\ i \in JumpsOf(tape) /\ k \in LabelsOf(tape) /\ i \in 1..n /\ k \in 1..n
    BY <1>7, <1>8, <1>10 DEF Goes
  <2>2. CASE e \in EntriesOf(tape)
    BY <2>1, <2>2 DEF FlowInv, Flow, WithinUnit
  <2>3. CASE e = n + 1
    BY <1>1, <2>1, <2>3
  <2>. QED
    BY <1>9, <2>2, <2>3
<1>15. WaitingInside(u, v) /\ StartsInUnit(u, v) /\ StartsNest(u, v) /\ EnteredAtStart(u, v)
  BY <1>11 DEF WaitingInside, StartsInUnit, StartsNest, EnteredAtStart
<1>16. BackToStarts(u, v)
  <2>. SUFFICES ASSUME NEW j, NEW k, Goes(u, j, k), k < j
                PROVE  Finished(u, v, j, k)
    BY DEF BackToStarts
  <2>1. Goes(tape, j, k) /\ j \in JumpsOf(tape) /\ k \in LabelsOf(tape)
    BY <1>10 DEF Goes
  <2>2. PICK e \in JumpsOf(tape) : j <= e /\ EndsAt(tape, frames, k, e)
    BY <1>12, <2>1 DEF FlowInv, Flow, BackToStarts, Finished
  <2>3. ASSUME NEW i, NEW l, Goes(u, i, l), k < l, l <= e
        PROVE  k < i /\ i <= e
    <3>1. Goes(tape, i, l) /\ i \in JumpsOf(tape) /\ l \in LabelsOf(tape)
      BY <1>10, <2>3 DEF Goes
    <3>. QED
      BY <2>2, <2>3, <3>1 DEF EndsAt
  <2>4. EndsAt(u, v, k, e)
    BY <1>10, <1>11, <2>2, <2>3 DEF EndsAt
  <2>. QED
    BY <1>7, <2>2, <2>4 DEF Finished
<1>. QED
  BY <1>3, <1>9, <1>13, <1>14, <1>15, <1>16 DEF Flow, FlowInv

\* Every step keeps the flow, and none but LowerSubprogram emits an entry.
LEMMA FlowStep ==
    ASSUME Known, TypeOK', Names \cap Nat = {}, [Next]_vars
    PROVE  /\ FlowInv'
           /\ \/ EntriesOf(tape') = EntriesOf(tape) /\ Longer(tape, tape')
              \/ \E name \in Names : LowerSubprogram(name)
<1>1. CASE Finish \/ UNCHANGED vars
  <2>1. UNCHANGED <<tape, frames>>
    BY <1>1 DEF Finish, vars
  <2>. QED
    BY <2>1, LenProperties DEF FlowInv, Known, Longer, TypeOK
<1>2. ASSUME NEW name \in Names, LowerSubprogram(name)
      PROVE  FlowInv'
  BY <1>2, SubprogramFlow
<1>3. ASSUME FlowKept
      PROVE  FlowInv' /\ EntriesOf(tape') = EntriesOf(tape) /\ Longer(tape, tape')
  BY <1>3 DEF FlowKept
<1>. QED
  BY <1>1, <1>2, <1>3, SimpleFlow, IfFlow, OpenLoopFlow, EndLoopFlow, BlockFlow, MatchFlow
     DEF Next, Returned, LowerWhile, LowerFor

\* The empty tape satisfies the invariant of the flow.
LEMMA FlowInit == Init => FlowInv
<1>1. ASSUME tape = <<>>, frames = <<>>
      PROVE  JumpsOf(tape) = {} /\ LabelsOf(tape) = {} /\ Len(frames) = 0
  BY <1>1 DEF JumpsOf, LabelsOf, Sites
<1>. QED
  BY <1>1 DEF Init, FlowInv, Flow, Numbered, WithinUnit, WaitingInside, StartsInUnit,
              StartsNest, EnteredAtStart, BackToStarts

(***************************************************************************)
(* How subprograms end.                                                    *)
(***************************************************************************)
EndsInReturn(t) == Len(t) >= 2 /\ t[Len(t)].op = "SCOPE_END" /\ t[Len(t) - 1].op = "RET"

\* A subprogram behind another one starts behind a RET and its SCOPE_END.
StartBehindReturn(t) ==
    \A e, f \in EntriesOf(t) : f < e =>
        e > 2 /\ t[e - 1].op = "SCOPE_END" /\ t[e - 2].op = "RET"

\* The last subprogram on the tape is being lowered or ends in the same way.
LastSubprogram ==
    EntriesOf(tape) # {} =>
        IF frames = <<>> THEN EndsInReturn(tape) ELSE frames[1].kind = "subprogram"

\* LowerSubprogram knows what the last instruction is.
ReturnedIsLast ==
    \A m \in 1..Len(frames) : frames[m].returned =>
        m = Len(frames) /\ Len(tape) >= 1 /\ tape[Len(tape)].op = "RET"

PartInv ==
    /\ part = "statements" => EntriesOf(tape) = {}
    /\ part = "done" => frames = <<>>

Ends == StartBehindReturn(tape) /\ LastSubprogram /\ ReturnedIsLast /\ PartInv

\* The instructions before the subprograms stay what they are.
LEMMA StartBehindKept ==
    ASSUME TypeOK, Longer(tape, tape'), EntriesOf(tape') = EntriesOf(tape),
           StartBehindReturn(tape)
    PROVE  StartBehindReturn(tape')
<1>. SUFFICES ASSUME NEW e \in EntriesOf(tape), NEW f \in EntriesOf(tape), f < e
              PROVE  e > 2 /\ tape'[e - 1].op = "SCOPE_END" /\ tape'[e - 2].op = "RET"
  BY DEF StartBehindReturn
<1>1. e \in 1..Len(tape) /\ Len(tape) \in Nat
  BY LenProperties DEF EntriesOf, LabelsOf, Sites, TypeOK
<1>2. e > 2 /\ tape[e - 1].op = "SCOPE_END" /\ tape[e - 2].op = "RET"
  BY DEF StartBehindReturn
<1>3. e - 1 \in 1..Len(tape) /\ e - 2 \in 1..Len(tape)
  BY <1>1, <1>2
<1>. QED
  BY <1>2, <1>3 DEF Longer

\* A step inside a statement at top level or inside a subprogram.
LEMMA EndsKept ==
    ASSUME TypeOK, TypeOK', Ends, Longer(tape, tape'), EntriesOf(tape') = EntriesOf(tape),
           part' = part,
           frames = <<>> => part = "statements",
           frames # <<>> /\ frames[1].kind = "subprogram" =>
               frames' # <<>> /\ frames'[1].kind = "subprogram",
           ReturnedIsLast'
    PROVE  Ends'
<1>1. StartBehindReturn(tape')
  BY StartBehindKept DEF Ends
<1>2. LastSubprogram'
  BY DEF Ends, LastSubprogram, PartInv
<1>3. PartInv'
  BY DEF Ends, PartInv
<1>. QED
  BY <1>1, <1>2, <1>3 DEF Ends

\* What Lowered does to the flags.
LEMMA LoweredReturned ==
    ASSUME TypeOK, NEW isReturn \in BOOLEAN
    PROVE  /\ Len(frames) \in Nat /\ Len(Lowered(isReturn)) = Len(frames)
           /\ \A m \in 1..Len(frames) :
                  Lowered(isReturn)[m].returned =
                      (IF m = Len(frames) THEN isReturn ELSE frames[m].returned)
<1>1. Len(Lowered(isReturn)) = Len(frames) /\ Len(frames) \in Nat
  BY LoweredFrames, LenProperties DEF TypeOK
<1>2. CASE frames = <<>>
  BY <1>1, <1>2
<1>3. CASE frames # <<>>
  <2>1. Lowered(isReturn) = [frames EXCEPT ![Len(frames)].returned = isReturn]
    BY <1>3 DEF Lowered
  <2>2. ASSUME NEW m \in 1..Len(frames)
        PROVE  frames[m] \in Frame /\ m \in DOMAIN frames
    BY ElementOfSeq, LenProperties DEF TypeOK
  <2>3. ASSUME NEW m \in 1..Len(frames)
        PROVE  Lowered(isReturn)[m].returned =
                   (IF m = Len(frames) THEN isReturn ELSE frames[m].returned)
    BY <2>1, <2>2 DEF Frame
  <2>. QED
    BY <1>1, <2>3
<1>. QED
  BY <1>2, <1>3

\* A construct that is entered has not returned.
LEMMA OpenReturned ==
    ASSUME TypeOK, NEW kind \in FrameKinds, NEW label \in Nat, NEW end \in Nat,
           Open(kind, label, end), ReturnedIsLast
    PROVE  /\ ReturnedIsLast' /\ frames' # <<>>
           /\ frames # <<>> => frames'[1].kind = frames[1].kind
           /\ frames = <<>> => frames'[1].kind = kind
<1>. DEFINE new == Activation(kind, label, end)
<1>1. new \in Frame /\ ~new.returned /\ new.kind = kind /\ Len(frames) \in Nat
  BY ActivationType, LenProperties DEF Activation, TypeOK
<1>2. PICK low \in Seq(Frame) :
          /\ low = Lowered(FALSE) /\ frames' = Append(low, new) /\ Len(low) = Len(frames)
          /\ \A i \in 1..Len(frames) : low[i].kind = frames[i].kind
  BY LoweredFrames DEF Open
<1>. HIDE DEF new
<1>3. /\ Len(frames') = Len(frames) + 1 /\ frames'[Len(frames) + 1] = new
      /\ \A i \in 1..Len(frames) : frames'[i] = low[i]
  <2>1. /\ Len(Append(low, new)) = Len(low) + 1 /\ Append(low, new)[Len(low) + 1] = new
        /\ \A i \in 1..Len(low) : Append(low, new)[i] = low[i]
    BY <1>1, AppendTop
  <2>. QED
    BY <1>2, <2>1, Zenon
<1>4. ASSUME NEW i \in 1..Len(frames)
      PROVE  ~frames'[i].returned
  <2>1. low[i].returned = IF i = Len(frames) THEN FALSE ELSE frames[i].returned
    BY <1>2, LoweredReturned
  <2>2. frames[i].returned => i = Len(frames)
    BY DEF ReturnedIsLast
  <2>3. frames'[i] = low[i]
    BY <1>3
  <2>. QED
    BY <2>1, <2>2, <2>3
<1>5. \A i \in 1..(Len(frames) + 1) : i \in 1..Len(frames) \/ i = Len(frames) + 1
  BY <1>1
<1>6. ReturnedIsLast'
  BY <1>1, <1>3, <1>4, <1>5 DEF ReturnedIsLast
<1>7. frames' # <<>>
  BY <1>1, <1>3
<1>8. frames # <<>> => 1 \in 1..Len(frames)
  BY <1>1, EmptySeq DEF TypeOK
<1>9. frames # <<>> => frames'[1].kind = frames[1].kind
  BY <1>2, <1>3, <1>8
<1>10. frames = <<>> => frames'[1].kind = kind
  BY <1>1, <1>3
<1>. QED
  BY <1>6, <1>7, <1>9, <1>10

\* An activation that is left has an enclosing one that goes on behind it.
LEMMA CloseReturned ==
    ASSUME TypeOK, NEW kind, Close(kind), ReturnedIsLast
    PROVE  /\ ReturnedIsLast'
           /\ Len(frames) \in Nat /\ Len(frames) >= 1 /\ frames[Len(frames)].kind = kind
           /\ Len(frames') = Len(frames) - 1
           /\ Len(frames) > 1 => frames' # <<>> /\ frames'[1] = frames[1]
           /\ frames[1].kind # kind => Len(frames) > 1
<1>1. /\ Len(frames) \in Nat /\ Len(frames) >= 1 /\ Len(frames') = Len(frames) - 1
      /\ \A i \in 1..(Len(frames) - 1) : frames'[i] = frames[i]
      /\ frames[Len(frames)].kind = kind
  BY PopTop, LenProperties DEF TypeOK, Close, Top
<1>2. \A i \in 1..(Len(frames) - 1) : i \in 1..Len(frames) /\ i # Len(frames)
  BY <1>1
<1>3. ReturnedIsLast'
  BY <1>1, <1>2 DEF ReturnedIsLast
<1>4. Len(frames) > 1 => 1 \in 1..(Len(frames) - 1)
  BY <1>1
<1>5. ASSUME Len(frames) > 1
      PROVE  frames' # <<>>
  <2>1. Len(frames') # 0
    BY <1>1, <1>5
  <2>. QED
    BY <2>1
<1>. QED
  BY <1>1, <1>3, <1>4, <1>5

\* Statements without a body.
LEMMA SimpleEnds ==
    ASSUME TypeOK, TypeOK', Ends, Longer(tape, tape'), EntriesOf(tape') = EntriesOf(tape),
           LowerStraight \/ LowerReturn \/ LowerBreak \/ LowerContinue
    PROVE  Ends'
<1>1. /\ part' = part /\ (frames = <<>> => part = "statements")
      /\ \/ frames' = Lowered(FALSE)
         \/ LowerReturn /\ frames' = Lowered(TRUE)
  BY DEF LowerStraight, LowerReturn, LowerBreak, LowerContinue, Statement
<1>2. /\ Len(frames') = Len(frames) /\ Len(frames) \in Nat
      /\ \A i \in 1..Len(frames) : frames'[i].kind = frames[i].kind
  BY <1>1, LoweredFrames, LenProperties DEF TypeOK
<1>3. frames # <<>> => frames' # <<>> /\ 1 \in 1..Len(frames)
  BY <1>2, EmptySeq DEF TypeOK
<1>4. LowerReturn => Len(tape') >= 1 /\ tape'[Len(tape')].op = "RET"
  <2>. SUFFICES ASSUME LowerReturn
                PROVE  Len(tape') >= 1 /\ tape'[Len(tape')].op = "RET"
    OBVIOUS
  <2>1. I("RET") \in Instruction /\ I("RET").op = "RET"
    BY PlainInstruction DEF I, Plain
  <2>2. tape' = Append(tape, I("RET")) /\ tape \in Seq(Instruction) /\ Len(tape) \in Nat
    BY <2>1, EmitIsAppend, LenProperties DEF LowerReturn, TypeOK
  <2>3. Len(tape') = Len(tape) + 1 /\ tape'[Len(tape) + 1] = I("RET")
    BY <2>1, <2>2, AppendTop
  <2>. QED
    BY <2>1, <2>2, <2>3
<1>5. ReturnedIsLast'
  <2>. SUFFICES ASSUME NEW m \in 1..Len(frames), frames'[m].returned
                PROVE  m = Len(frames) /\ LowerReturn
    BY <1>2, <1>4 DEF ReturnedIsLast
  <2>1. m = Len(frames)
    BY <1>1, LoweredReturned DEF Ends, ReturnedIsLast
  <2>. QED
    BY <1>1, <2>1, LoweredReturned
<1>. QED
  BY <1>1, <1>2, <1>3, <1>5, EndsKept

\* A construct inside a subprogram or at top level is entered.
LEMMA OpenEnds ==
    ASSUME TypeOK, TypeOK', Ends, Longer(tape, tape'), EntriesOf(tape') = EntriesOf(tape),
           \/ LowerIf \/ LowerWhile \/ LowerFor \/ LowerMatch
           \/ \E kind \in {"block", "defer"} : LowerBlock(kind)
           \/ \E region \in Regions : LowerScopedBlock(region)
           \/ \E guarded \in BOOLEAN : OpenArm(guarded)
    PROVE  Ends'
<1>0. LabelCounter \in Nat /\ LabelCounter + 1 \in Nat /\ 0 \in Nat
  BY DEF TypeOK
<1>1. part' = part /\ (frames = <<>> => part = "statements")
  BY DEF LowerIf, LowerWhile, LowerFor, OpenLoop, LowerMatch, LowerBlock, LowerScopedBlock,
         OpenArm, Statement
<1>2. PICK kind \in FrameKinds, label \in Nat, end \in Nat : Open(kind, label, end)
  <2>1. {"if", "loop", "match", "arm", "block"} \cup Regions \subseteq FrameKinds
    BY DEF FrameKinds
  <2>2. CASE LowerIf
    BY <1>0, <2>1, <2>2 DEF LowerIf
  <2>3. CASE LowerWhile \/ LowerFor
    BY <1>0, <2>1, <2>3 DEF LowerWhile, LowerFor, OpenLoop
  <2>4. CASE LowerMatch
    BY <1>0, <2>1, <2>4 DEF LowerMatch
  <2>5. CASE \E kind \in {"block", "defer"} : LowerBlock(kind)
    BY <1>0, <2>1, <2>5 DEF LowerBlock
  <2>6. CASE \E region \in Regions : LowerScopedBlock(region)
    BY <1>0, <2>1, <2>6 DEF LowerScopedBlock
  <2>7. CASE \E guarded \in BOOLEAN : OpenArm(guarded)
    <3>1. frames # <<>> /\ Open("arm", LabelCounter, Top(frames).end)
      BY <2>7 DEF OpenArm
    <3>2. Top(frames) \in Frame
      BY <3>1, PopTop DEF TypeOK
    <3>3. Top(frames).end \in Nat
      BY <3>2 DEF Frame
    <3>. QED
      BY <1>0, <2>1, <3>1, <3>3
  <2>. QED
    BY <2>2, <2>3, <2>4, <2>5, <2>6, <2>7
<1>3. ReturnedIsLast' /\ frames' # <<>> /\ (frames # <<>> => frames'[1].kind = frames[1].kind)
  BY <1>2, OpenReturned DEF Ends
<1>. QED
  BY <1>1, <1>3, EndsKept

\* One is left, or goes on with its second half.
LEMMA CloseEnds ==
    ASSUME TypeOK, TypeOK', Ends, Longer(tape, tape'), EntriesOf(tape') = EntriesOf(tape),
           \/ EndIf \/ EndLoop \/ EndBlock \/ EndArm \/ EndMatch \/ LowerElse
           \/ \E region \in Regions : EndScopedBlock(region)
    PROVE  Ends'
<1>1. ASSUME NEW kind, kind # "subprogram", Close(kind)
      PROVE  Ends'
  <2>1. part' = part /\ frames # <<>>
    BY <1>1 DEF Close
  <2>2. /\ ReturnedIsLast'
        /\ frames[1].kind = "subprogram" => frames' # <<>> /\ frames'[1].kind = "subprogram"
    BY <1>1, CloseReturned DEF Ends
  <2>. QED
    BY <2>1, <2>2, EndsKept
<1>2. CASE LowerElse
  <2>. DEFINE depth == Len(frames)
              top == Top(frames)
              else == Activation("else", top.label, top.end)
  <2>1. /\ depth \in Nat /\ depth >= 1 /\ top \in Frame
        /\ Pop(frames) \in Seq(Frame) /\ Len(Pop(frames)) = depth - 1
        /\ \A i \in 1..(depth - 1) : Pop(frames)[i] = frames[i]
        /\ top = frames[depth] /\ top.kind = "if" /\ frames # <<>> /\ part' = part
    BY <1>2, PopTop, LenProperties DEF TypeOK, LowerElse, Top
  <2>2. else \in Frame /\ ~else.returned
    BY <2>1, ActivationType DEF Frame, FrameKinds, Activation
  <2>3. frames' = Append(Pop(frames), else)
    BY <1>2 DEF LowerElse
  <2>. HIDE DEF else
  <2>4. /\ Len(frames') = depth /\ frames'[depth] = else
        /\ \A i \in 1..(depth - 1) : frames'[i] = frames[i]
    BY <2>1, <2>2, <2>3, AppendTop
  <2>5. \A i \in 1..depth : i = depth \/ i \in 1..(depth - 1)
    BY <2>1
  <2>6. \A i \in 1..(depth - 1) : i \in 1..depth /\ i # depth
    BY <2>1
  <2>7. ReturnedIsLast'
    BY <2>2, <2>4, <2>5, <2>6 DEF Ends, ReturnedIsLast
  <2>8. frames' # <<>>
    BY <2>1, <2>4
  <2>9. frames[1].kind = "subprogram" => frames'[1].kind = "subprogram"
    <3>1. frames[1].kind = "subprogram" => depth # 1
      BY <2>1
    <3>2. depth # 1 => 1 \in 1..(depth - 1)
      BY <2>1
    <3>. QED
      BY <2>4, <3>1, <3>2
  <2>. QED
    BY <2>1, <2>7, <2>8, <2>9, EndsKept
<1>3. ASSUME NEW region \in Regions, EndScopedBlock(region)
      PROVE  Ends'
  <2>1. region # "subprogram" /\ Close(region)
    BY <1>3 DEF Regions, EndScopedBlock
  <2>. QED
    BY <1>1, <2>1
<1>. QED
  BY <1>1, <1>2, <1>3 DEF EndIf, EndLoop, EndBlock, EndArm, EndMatch

\* A subprogram is left behind a RET and its SCOPE_END.
LEMMA EndSubprogramEnds ==
    ASSUME TypeOK, TypeOK', Ends, Longer(tape, tape'), EntriesOf(tape') = EntriesOf(tape),
           EndSubprogram
    PROVE  Ends'
<1>1. Close("subprogram") /\ part' = part /\ frames # <<>>
  BY DEF EndSubprogram, Close
<1>2. /\ ReturnedIsLast' /\ Len(frames) \in Nat /\ Len(frames) >= 1
      /\ Len(frames') = Len(frames) - 1
      /\ Len(frames) > 1 => frames' # <<>> /\ frames'[1] = frames[1]
  BY <1>1, CloseReturned DEF Ends
<1>. DEFINE end == I("SCOPE_END")
            ret == I("RET")
<1>3. /\ end \in Instruction /\ end.op = "SCOPE_END" /\ ret \in Instruction /\ ret.op = "RET"
      /\ tape \in Seq(Instruction) /\ Len(tape) \in Nat
  BY PlainInstruction, LenProperties DEF I, Plain, TypeOK
<1>4. IF Top(frames).returned THEN Emit(<<end>>) ELSE Emit(<<ret, end>>)
  BY DEF EndSubprogram
<1>. HIDE DEF end, ret
<1>5. EndsInReturn(tape')
  <2>1. CASE Top(frames).returned
    <3>1. Len(tape) >= 1 /\ tape[Len(tape)].op = "RET"
      BY <1>2, <2>1 DEF Ends, ReturnedIsLast, Top
    <3>2. tape' = Append(tape, end)
      BY <1>3, <1>4, <2>1, EmitIsAppend
    <3>3. /\ Len(tape') = Len(tape) + 1 /\ tape'[Len(tape) + 1] = end
          /\ Len(tape) \in 1..Len(tape) /\ tape'[Len(tape)] = tape[Len(tape)]
      BY <1>3, <3>1, <3>2, AppendTop
    <3>4. Len(tape') - 1 = Len(tape) /\ Len(tape') >= 2
      BY <1>3, <3>1, <3>3
    <3>. QED
      BY <1>3, <3>1, <3>3, <3>4 DEF EndsInReturn
  <2>2. CASE ~Top(frames).returned
    <3>1. tape' = Append(Append(tape, ret), end) /\ Append(tape, ret) \in Seq(Instruction)
      BY <1>3, <1>4, <2>2, AppendTop DEF Emit
    <3>2. Len(Append(tape, ret)) = Len(tape) + 1 /\ Append(tape, ret)[Len(tape) + 1] = ret
      BY <1>3, AppendTop
    <3>3. /\ Len(tape') = Len(tape) + 2 /\ tape'[Len(tape) + 2] = end
          /\ tape'[Len(tape) + 1] = ret
      BY <1>3, <3>1, <3>2, AppendTop
    <3>4. Len(tape') - 1 = Len(tape) + 1 /\ Len(tape') >= 2
      BY <1>3, <3>3
    <3>. QED
      BY <1>3, <3>3, <3>4 DEF EndsInReturn
  <2>. QED
    BY <2>1, <2>2
<1>6. LastSubprogram'
  <2>1. CASE Len(frames) = 1
    <3>1. frames' = <<>>
      BY <1>2, <2>1, EmptySeq DEF TypeOK
    <3>. QED
      BY <1>5, <3>1 DEF LastSubprogram
  <2>2. CASE Len(frames) > 1
    BY <1>1, <1>2, <2>2 DEF Ends, LastSubprogram
  <2>. QED
    BY <1>2, <2>1, <2>2
<1>7. PartInv'
  BY <1>1 DEF Ends, PartInv
<1>. QED
  BY <1>2, <1>6, <1>7, StartBehindKept DEF Ends

\* The next one starts there.
LEMMA SubprogramEnds ==
    ASSUME TypeOK, TypeOK', Ends, NEW name \in Names, LowerSubprogram(name),
           EntriesOf(tape') = EntriesOf(tape) \cup {Len(tape) + 1}
    PROVE  Ends'
<1>. DEFINE n == Len(tape)
            a == J("LABEL", name)
            begin == I("SCOPE_BEGIN")
<1>1. /\ a \in Instruction /\ begin \in Instruction /\ n \in Nat
      /\ Emit(<<a, begin>>) /\ Open("subprogram", 0, 0) /\ frames = <<>>
      /\ part' = "subprograms" /\ "subprogram" \in FrameKinds /\ 0 \in Nat
  BY LabelInstruction, PlainInstruction, LenProperties
     DEF Label, Plain, TypeOK, LowerSubprogram, FrameKinds
<1>. HIDE DEF a, begin
<1>2. \A i \in 1..n : tape'[i] = tape[i]
  <2>1. <<a, begin>> \in Seq(Instruction)
    BY <1>1
  <2>. QED
    BY <1>1, <2>1, EmitAdds DEF Adds
<1>3. \A e \in EntriesOf(tape) : e \in 1..n
  BY DEF EntriesOf, LabelsOf, Sites
<1>4. StartBehindReturn(tape')
  <2>. SUFFICES ASSUME NEW e \in EntriesOf(tape'), NEW f \in EntriesOf(tape'), f < e
                PROVE  e > 2 /\ tape'[e - 1].op = "SCOPE_END" /\ tape'[e - 2].op = "RET"
    BY DEF StartBehindReturn
  <2>1. CASE e \in EntriesOf(tape)
    <3>1. f \in EntriesOf(tape)
      BY <1>1, <1>3, <2>1
    <3>2. e > 2 /\ tape[e - 1].op = "SCOPE_END" /\ tape[e - 2].op = "RET"
      BY <2>1, <3>1 DEF Ends, StartBehindReturn
    <3>3. e - 1 \in 1..n /\ e - 2 \in 1..n
      BY <1>1, <1>3, <2>1, <3>2
    <3>. QED
      BY <1>2, <3>2, <3>3
  <2>2. CASE e = n + 1
    <3>1. f \in EntriesOf(tape)
      BY <1>1, <2>2
    <3>2. n >= 2 /\ tape[n].op = "SCOPE_END" /\ tape[n - 1].op = "RET"
      BY <1>1, <3>1 DEF Ends, LastSubprogram, EndsInReturn
    <3>3. e - 1 = n /\ e - 2 = n - 1 /\ n \in 1..n /\ n - 1 \in 1..n /\ e > 2
      BY <1>1, <2>2, <3>2
    <3>. QED
      BY <1>2, <3>2, <3>3
  <2>. QED
    BY <2>1, <2>2
<1>5. ReturnedIsLast' /\ frames' # <<>> /\ frames'[1].kind = "subprogram"
  BY <1>1, OpenReturned DEF Ends
<1>. QED
  BY <1>1, <1>4, <1>5 DEF Ends, LastSubprogram, PartInv

\* Every step keeps the ends.
LEMMA EndsStep ==
    ASSUME Known, TypeOK', Names \cap Nat = {}, Ends, [Next]_vars
    PROVE  Ends'
<1>. TypeOK
  BY DEF Known
<1>1. CASE UNCHANGED vars
  BY <1>1 DEF vars, Ends, LastSubprogram, ReturnedIsLast, PartInv
<1>2. CASE Finish
  BY <1>2 DEF Finish, Ends, LastSubprogram, ReturnedIsLast, PartInv
<1>3. ASSUME NEW name \in Names, LowerSubprogram(name)
      PROVE  Ends'
  BY <1>3, SubprogramFlow, SubprogramEnds
<1>4. CASE ~\E name \in Names : LowerSubprogram(name)
  <2>1. Longer(tape, tape') /\ EntriesOf(tape') = EntriesOf(tape)
    BY <1>4, FlowStep
  <2>. QED
    BY <1>1, <1>2, <1>4, <2>1, SimpleEnds, OpenEnds, CloseEnds, EndSubprogramEnds
       DEF Next, Returned
<1>. QED
  BY <1>3, <1>4

\* The empty tape satisfies the invariant of the ends.
LEMMA EndsInit == Init => Ends
<1>1. ASSUME tape = <<>>, frames = <<>>
      PROVE  EntriesOf(tape) = {} /\ Len(frames) = 0
  BY <1>1 DEF EntriesOf, LabelsOf, Sites
<1>. QED
  BY <1>1 DEF Init, Ends, StartBehindReturn, LastSubprogram, ReturnedIsLast, PartInv

(***************************************************************************)
(* The finished tape.                                                      *)
(***************************************************************************)
\* The sites and entries of the tape are those of the properties.
LEMMA SameSites ==
    LabelsOf(tape) = LabelSites /\ JumpsOf(tape) = JumpSites /\ EntriesOf(tape) = Entries
BY DEF LabelsOf, JumpsOf, EntriesOf, Sites, LabelSites, JumpSites, Entries

\* Where a jump of the finished tape goes.
LEMMA TargetGoes ==
    ASSUME TypeOK, JumpInv, Ends, part = "done", NEW j \in JumpSites
    PROVE  Target(j) \in LabelSites /\ Goes(tape, j, Target(j))
<1>1. Owed = {}
  <2>1. Len(frames) = 0
    BY DEF Ends, PartInv
  <2>. QED
    BY <2>1 DEF Owed
<1>2. tape[j].arg \in Labelled
  BY <1>1, SameSites, OnTape DEF JumpInv
<1>3. \E i \in LabelSites : tape[i].arg = tape[j].arg
  BY <1>2, SameSites, OnTape
<1>4. Target(j) \in LabelSites /\ tape[Target(j)].arg = tape[j].arg
  BY <1>3 DEF Target
<1>. QED
  BY <1>4, SameSites DEF Goes

\* Where control goes from an instruction of the finished tape.
LEMMA SuccessorKinds ==
    ASSUME TypeOK, JumpInv, Ends, part = "done", NEW i \in 1..Len(tape), NEW k \in Successors(i)
    PROVE  \/ k = i + 1 /\ tape[i].op \notin {"RET", "TRAP", "JMP"}
           \/ i \in JumpSites /\ k = Target(i) /\ k \in LabelSites /\ Goes(tape, i, k)
<1>1. CASE tape[i].op = "JMP"
  <2>1. i \in JumpSites /\ k = Target(i)
    BY <1>1 DEF Successors, JumpSites
  <2>. QED
    BY <2>1, TargetGoes
<1>2. CASE tape[i].op = "JMP_IF_NOT"
  <2>1. i \in JumpSites /\ (k = Target(i) \/ k = i + 1)
    BY <1>2 DEF Successors, JumpSites
  <2>. QED
    BY <1>2, <2>1, TargetGoes
<1>3. CASE tape[i].op \notin {"JMP", "JMP_IF_NOT"}
  BY <1>3 DEF Successors
<1>. QED
  BY <1>1, <1>2, <1>3

\* No jump and no fall enters a loop other than at its start.
LEMMA SingleEntry ==
    ASSUME TypeOK, JumpInv, FlowInv, Ends
    PROVE  SingleEntryLoops
<1>. SUFFICES ASSUME part = "done", NEW s \in LabelSites, NEW i \in 1..Len(tape),
                     NEW k \in Successors(i), k \in LoopBody(s)
              PROVE  i \in LoopBody(s) \cup {s}
  BY DEF SingleEntryLoops
<1>0. s \in Nat /\ i \in Nat
  BY LenProperties DEF LabelSites, TypeOK
<1>1. PICK j \in JumpSites : Target(j) = s /\ k \in (s + 1)..j
  BY DEF LoopBody
<1>2. j \in Nat /\ k \in Nat /\ s < k /\ k <= j /\ s < j
  BY <1>0, <1>1 DEF JumpSites
<1>3. ASSUME k = i + 1
      PROVE  i \in LoopBody(s) \cup {s}
  <2>1. i = s \/ i \in (s + 1)..j
    BY <1>0, <1>2, <1>3
  <2>. QED
    BY <1>1, <2>1 DEF LoopBody
<1>4. ASSUME Goes(tape, i, k)
      PROVE  i \in LoopBody(s)
  <2>1. Goes(tape, j, s)
    BY <1>1, TargetGoes
  <2>2. ~StillOpen(tape, frames, s)
    <3>1. Len(frames) = 0
      BY DEF Ends, PartInv
    <3>. QED
      BY <3>1 DEF StillOpen
  <2>3. PICK e \in JumpSites : j <= e /\ EndsAt(tape, frames, s, e)
    BY <1>2, <2>1, <2>2, SameSites DEF FlowInv, Flow, BackToStarts, Finished, Goes
  <2>4. e \in Nat /\ k <= e
    BY <1>2, <2>3 DEF JumpSites
  <2>5. s < i /\ i <= e
    BY <1>2, <1>4, <2>3, <2>4 DEF EndsAt, Goes
  <2>6. Target(e) = s
    <3>1. tape[e].arg = tape[j].arg
      BY <2>1, <2>3 DEF EndsAt, Goes
    <3>. QED
      BY <1>1, <3>1 DEF Target
  <2>. QED
    BY <1>0, <2>4, <2>5, <2>6 DEF LoopBody
<1>. QED
  BY <1>3, <1>4, SuccessorKinds

\* Control stays in its subprogram.
LEMMA NoneFallsThrough ==
    ASSUME TypeOK, JumpInv, FlowInv, Ends
    PROVE  NoFallThrough
<1>. SUFFICES ASSUME part = "done", NEW i \in 1..Len(tape), Unit(i) > 0, ~UnitEnd(i),
                     NEW k \in Successors(i)
              PROVE  Unit(k) = Unit(i) /\ k <= Len(tape) /\ ~UnitEnd(k)
  BY DEF NoFallThrough
<1>. DEFINE n == Len(tape)
<1>0. n \in Nat /\ i \in Nat /\ \A e \in Entries : e \in 1..n
  BY LenProperties DEF Entries, LabelSites, TypeOK
<1>1. PICK f \in Entries : f <= i
  <2>1. ASSUME {e \in Entries : e <= i} = {}
        PROVE  FALSE
    <3>1. Unit(i) = 0
      BY <2>1, FS_EmptySet DEF Unit
    <3>. QED
      BY <3>1
  <2>. QED
    BY <2>1
<1>2. EndsInReturn(tape)
  BY <1>1, SameSites DEF Ends, PartInv, LastSubprogram
<1>3. \A e \in Entries : f < e => e > 2 /\ tape[e - 1].op = "SCOPE_END" /\ tape[e - 2].op = "RET"
  BY SameSites DEF Ends, StartBehindReturn
<1>4. i < n /\ i + 1 \notin Entries
  BY <1>0 DEF UnitEnd
<1>5. ASSUME NEW j, \A e \in Entries : e <= i <=> e <= j
      PROVE  Unit(j) = Unit(i)
  <2>1. {e \in Entries : e <= j} = {e \in Entries : e <= i}
    BY <1>5
  <2>. QED
    BY <2>1 DEF Unit
<1>6. CASE k = i + 1 /\ tape[i].op \notin {"RET", "TRAP", "JMP"}
  <2>1. Unit(k) = Unit(i)
    <3>1. \A e \in Entries : e <= i <=> e <= k
      BY <1>0, <1>4, <1>6
    <3>. QED
      BY <1>5, <3>1
  <2>2. k # n
    <3>1. k = n => i = n - 1
      BY <1>0, <1>6
    <3>. QED
      BY <1>2, <1>6, <3>1 DEF EndsInReturn
  <2>3. k + 1 \notin Entries
    <3>. SUFFICES ASSUME k + 1 \in Entries
                  PROVE  FALSE
      OBVIOUS
    <3>1. f < k + 1 /\ (k + 1) - 2 = i
      BY <1>0, <1>1, <1>6
    <3>2. tape[(k + 1) - 2].op = "RET"
      BY <1>3, <3>1
    <3>. QED
      BY <1>6, <3>1, <3>2
  <2>4. k <= n
    BY <1>0, <1>4, <1>6
  <2>. QED
    BY <2>1, <2>2, <2>3, <2>4 DEF UnitEnd
<1>7. CASE i \in JumpSites /\ k \in LabelSites /\ Goes(tape, i, k)
  <2>0. k \in 1..n /\ k \in Nat /\ tape[k].op = "LABEL"
    BY <1>0, <1>7 DEF LabelSites
  <2>1. \A e \in Entries : e <= i <=> e <= k
    BY <1>7, SameSites DEF FlowInv, Flow, WithinUnit
  <2>2. Unit(k) = Unit(i)
    BY <1>5, <2>1
  <2>3. k # n
    BY <1>2, <2>0 DEF EndsInReturn
  <2>4. k + 1 \notin Entries
    <3>. SUFFICES ASSUME k + 1 \in Entries
                  PROVE  FALSE
      OBVIOUS
    <3>1. f < k + 1 /\ (k + 1) - 1 = k
      BY <1>0, <1>1, <2>0, <2>1
    <3>2. tape[(k + 1) - 1].op = "SCOPE_END"
      BY <1>3, <3>1
    <3>. QED
      BY <2>0, <3>1, <3>2
  <2>. QED
    BY <1>0, <2>0, <2>2, <2>3, <2>4 DEF UnitEnd
<1>. QED
  BY <1>6, <1>7, SuccessorKinds

\* At every point of the lowering the jumps on the tape keep to their subprogram and
\* their loops, and every subprogram but the one being lowered ends with a RET, if no
\* subprogram is called like a generated label.
THEOREM FlowInvariant ==
    ASSUME Names \cap Nat = {}
    PROVE  Spec => [](FlowInv /\ Ends)
<1>1. Spec => []TypeOK /\ []LoopInv /\ [](LabelInv /\ JumpInv)
  BY TypeCorrect, LoopInvariant, LabelInvariant, PTL
<1>2. Init => FlowInv /\ Ends
  BY FlowInit, EndsInit
<1>3. /\ TypeOK /\ LoopInv /\ LabelInv /\ JumpInv /\ FlowInv /\ Ends /\ TypeOK' /\ [Next]_vars
      => FlowInv' /\ Ends'
  BY FlowStep, EndsStep DEF Known
<1>. QED
  BY <1>1, <1>2, <1>3, PTL DEF Spec

\* On a finished tape control that entered a subprogram leaves it by RET or TRAP only.
THEOREM SubprogramsSealed ==
    ASSUME Names \cap Nat = {}
    PROVE  Spec => []NoFallThrough
<1>1. Spec => []TypeOK /\ [](LabelInv /\ JumpInv)
  BY TypeCorrect, LabelInvariant, PTL
<1>. QED
  BY <1>1, FlowInvariant, NoneFallsThrough, PTL

\* On a finished tape a loop is entered at its start only.
THEOREM LoopsSealed ==
    ASSUME Names \cap Nat = {}
    PROVE  Spec => []SingleEntryLoops
<1>1. Spec => []TypeOK /\ [](LabelInv /\ JumpInv)
  BY TypeCorrect, LabelInvariant, PTL
<1>. QED
  BY <1>1, FlowInvariant, SingleEntry, PTL
=============================================================================
