-------------------------- MODULE Expressions_proofs -------------------------
(***************************************************************************)
(* The registers of every program, however large its expressions are and   *)
(* however they nest.                                                      *)
(*                                                                         *)
(* What an instruction reads was returned by activations that are gone, so *)
(* that the invariant has to say what every operand that waits still is:   *)
(* computed, of one owner, and not read yet; and that there are as many of *)
(* them as the open activations are going to take.                         *)
(*                                                                         *)
(* The parts of the invariant take the tape (t), the counter (n), the      *)
(* array registers (bs) and the targets (ts) as parameters, since some     *)
(* steps emit two instructions.                                            *)
(***************************************************************************)
EXTENDS Expressions, SequenceTheorems, TLAPS

ComputesAt(t, i, r) == t[i].write = r /\ t[i].op # "STORE"
Computed(t, r) == \E i \in 1..Len(t) : ComputesAt(t, i, r)
Takes(ins, r) == \E k \in DOMAIN ins.read : ins.read[k] = r
Read(t, r) == \E i \in 1..Len(t) : Takes(t[i], r)

TapeInv(t, n, bs, ts) ==
    /\ t \in Seq(Instruction) /\ n \in Nat
    /\ \A i \in 1..Len(t) :
          t[i].op # "STORE" /\ IsRegister(t[i].write) => t[i].write.of < n
    /\ \A i \in 1..Len(t), r \in Operand : Takes(t[i], r) /\ IsRegister(r) => r.of < n
    /\ \A i, j \in 1..Len(t), r \in Operand :
          IsRegister(r) /\ ComputesAt(t, i, r) /\ ComputesAt(t, j, r) => i = j
    /\ \A i \in 1..Len(t), r \in Operand :
          Takes(t[i], r) /\ IsRegister(r) /\ r \notin bs
              => \E j \in 1..(i - 1) : ComputesAt(t, j, r)
    /\ \A i, j \in 1..Len(t), r \in Operand :
          i < j /\ Takes(t[i], r) /\ Takes(t[j], r) /\ IsRegister(r) /\ r \notin bs \cup ts
              => t[i].op = "MOVE" /\ j = i + 1

\* The registers an instruction may read: of an array, or computed.
Available(r, t, n, bs) == IsRegister(r) => r.of < n /\ (r \in bs \/ Computed(t, r))

\* An operand that was returned and not used yet.
Ready(r, t, n, bs, ts) ==
    /\ r \in Operand \ {None}
    /\ Available(r, t, n, bs)
    /\ IsRegister(r) /\ r \notin bs \cup ts => ~Read(t, r)

OperandsInv(os, t, n, bs, ts) ==
    /\ os \in Seq(Operand \ {None})
    /\ \A i \in 1..Len(os) : Ready(os[i], t, n, bs, ts)
    /\ \A i, j \in 1..Len(os) :
          os[i] = os[j] /\ IsRegister(os[i]) /\ os[i] \notin bs => i = j

\* How many operands an item of work takes, and how many it returns in the end.
Needs(what) ==
    CASE what = "assign_index" -> 3
      [] what \in {"binary", "index", "assign", "assign_member"} -> 2
      [] what \in {"unary", "member", "MOVE", "COPY", "call", "argument", "element",
                   "declare", "test", "drop", "match", "arm"} -> 1
      [] OTHER -> 0
Gives(what) ==
    IF what \in {"expression", "target", "binary", "unary", "member", "index", "MOVE",
                 "COPY", "call", "arguments", "elements"} THEN 1 ELSE 0

\* h has the number of operands there will be before each item of the work.
Fits(w, n) ==
    \E h \in [1..(Len(w) + 1) -> Nat] :
        /\ h[1] = n
        /\ \A i \in 1..Len(w) :
              /\ h[i] >= Needs(w[i].do)
              /\ h[i + 1] = h[i] - Needs(w[i].do) + Gives(w[i].do)

ItemInv(item, t, n, bs, ts) ==
    /\ item \in WorkItem
    /\ item.do \in {"elements", "element"} => item.at \in bs
    /\ item.do \in {"arms", "arm"} => item.at \in ts /\ Available(item.at, t, n, bs)

WorkInv(w, t, n, bs, ts) ==
    w \in Seq(WorkItem) /\ \A i \in 1..Len(w) : ItemInv(w[i], t, n, bs, ts)

HistoryInv(n, bs, ts) ==
    /\ \A b \in bs : b \in Operand /\ IsRegister(b) /\ b.of < n
    /\ ts \subseteq Operand \ {None}

IInv ==
    /\ TapeInv(tape, TemporaryCounter, bases, targets)
    /\ OperandsInv(operands, tape, TemporaryCounter, bases, targets)
    /\ WorkInv(work, tape, TemporaryCounter, bases, targets)
    /\ HistoryInv(TemporaryCounter, bases, targets)
    /\ Fits(work, Len(operands))

-----------------------------------------------------------------------------
(* The tape *)

\* What an instruction may compute and read when it is emitted.
Emits(ins, t, n, m, bs, ts) ==
    /\ ins \in Instruction
    /\ m \in Nat /\ n <= m
    /\ ins.op # "STORE" /\ IsRegister(ins.write) => ins.write = Register(n) /\ m > n
    /\ \A r \in Operand : Takes(ins, r) /\ IsRegister(r) =>
          /\ r.of < n /\ (r \in bs \/ Computed(t, r))
          /\ r \notin bs \cup ts =>
                \A i \in 1..Len(t) : Takes(t[i], r) => t[i].op = "MOVE" /\ i = Len(t)

\* The fields of an instruction and of a register.
LEMMA RegisterOf ==
    ASSUME NEW r \in Operand, IsRegister(r)
    PROVE  r.of \in Nat /\ r = Register(r.of)
  BY DEF Operand, IsRegister, Register, Variable, Constant, None

LEMMA AppendTape ==
    ASSUME NEW t \in Seq(Instruction), NEW ins \in Instruction
    PROVE  /\ Append(t, ins) \in Seq(Instruction)
           /\ Len(Append(t, ins)) = Len(t) + 1
           /\ \A i \in 1..Len(t) : Append(t, ins)[i] = t[i]
           /\ Append(t, ins)[Len(t) + 1] = ins
           /\ \A i \in 1..(Len(t) + 1) : i \in 1..Len(t) \/ i = Len(t) + 1
           /\ Len(t) \in Nat
  OBVIOUS

\* What was computed and read stays so, and only the instruction adds to it.
LEMMA AppendReads ==
    ASSUME NEW t \in Seq(Instruction), NEW ins \in Instruction, NEW r
    PROVE  /\ Computed(t, r) => Computed(Append(t, ins), r)
           /\ ins.op # "STORE" /\ ins.write = r => Computed(Append(t, ins), r)
           /\ Read(Append(t, ins), r) <=> Read(t, r) \/ Takes(ins, r)
<1> DEFINE u == Append(t, ins)
<1>1. /\ Len(u) = Len(t) + 1 /\ Len(t) \in Nat
      /\ \A i \in 1..Len(t) : u[i] = t[i]
      /\ u[Len(t) + 1] = ins
      /\ \A i \in 1..(Len(t) + 1) : i \in 1..Len(t) \/ i = Len(t) + 1
  BY AppendTape
<1>2. Len(t) + 1 \in 1..Len(u) /\ \A i \in 1..Len(t) : i \in 1..Len(u)
  BY <1>1
<1> HIDE DEF u
<1>3. Computed(t, r) => Computed(u, r)
  BY <1>1, <1>2 DEF Computed, ComputesAt
<1>4. ins.op # "STORE" /\ ins.write = r => Computed(u, r)
  BY <1>1, <1>2 DEF Computed, ComputesAt
<1>5. Read(u, r) <=> Read(t, r) \/ Takes(ins, r)
  BY <1>1, <1>2 DEF Read
<1> QED BY <1>3, <1>4, <1>5 DEF u

LEMMA AppendInv ==
    ASSUME NEW t, NEW n, NEW m, NEW bs, NEW ts, NEW ins,
           TapeInv(t, n, bs, ts), Emits(ins, t, n, m, bs, ts)
    PROVE  TapeInv(Append(t, ins), m, bs, ts)
<1> DEFINE u == Append(t, ins)
<1>1. t \in Seq(Instruction) /\ ins \in Instruction /\ n \in Nat /\ m \in Nat /\ n <= m
  BY DEF TapeInv, Emits
<1>2. /\ u \in Seq(Instruction)
      /\ Len(u) = Len(t) + 1 /\ Len(t) \in Nat
      /\ \A i \in 1..Len(t) : u[i] = t[i]
      /\ u[Len(t) + 1] = ins
      /\ \A i \in 1..Len(u) : i \in 1..Len(t) \/ i = Len(t) + 1
  BY <1>1, AppendTape
<1> HIDE DEF u
<1>a. ASSUME NEW i \in 1..Len(u) PROVE u[i].write \in Operand
  <2>1. u[i] \in Instruction
    BY <1>2
  <2> QED BY <2>1 DEF Instruction
<1>3. ASSUME NEW i \in 1..Len(u), u[i].op # "STORE", IsRegister(u[i].write)
      PROVE  u[i].write.of < m
  <2>0. u[i].write.of \in Nat
    BY <1>3, <1>a, RegisterOf
  <2>1. CASE i \in 1..Len(t)
    <3>1. u[i].write.of < n
      BY <1>2, <1>3, <2>1 DEF TapeInv
    <3> QED BY <1>1, <2>0, <3>1
  <2>2. CASE i = Len(t) + 1
    <3>1. u[i].write = Register(n) /\ m > n
      BY <1>2, <1>3, <2>2 DEF Emits
    <3> QED BY <1>1, <3>1 DEF Register
  <2> QED BY <1>2, <2>1, <2>2
<1>4. ASSUME NEW i \in 1..Len(u), NEW r \in Operand, Takes(u[i], r), IsRegister(r)
      PROVE  r.of < m
  <2>0. r.of \in Nat
    BY <1>4, RegisterOf
  <2>1. r.of < n
    BY <1>2, <1>4 DEF TapeInv, Emits
  <2> QED BY <1>1, <2>0, <2>1
<1>5. ASSUME NEW i \in 1..Len(u), NEW j \in 1..Len(u), NEW r \in Operand, IsRegister(r),
             ComputesAt(u, i, r), ComputesAt(u, j, r)
      PROVE  i = j
  <2>1. ASSUME NEW k \in 1..Len(t), ComputesAt(u, k, r) PROVE r # Register(n)
    <3>1. r.of < n
      BY <1>2, <1>5, <2>1 DEF TapeInv, ComputesAt
    <3> QED BY <1>1, <3>1 DEF Register
  <2>2. ASSUME NEW k \in 1..Len(u), k = Len(t) + 1, ComputesAt(u, k, r)
        PROVE r = Register(n)
    BY <1>2, <1>5, <2>2 DEF Emits, ComputesAt
  <2>3. CASE i \in 1..Len(t) /\ j \in 1..Len(t)
    BY <1>2, <1>5, <2>3 DEF TapeInv, ComputesAt
  <2> QED BY <1>2, <1>5, <2>1, <2>2, <2>3
<1>6. ASSUME NEW i \in 1..Len(u), NEW r \in Operand, Takes(u[i], r), IsRegister(r),
             r \notin bs
      PROVE  \E j \in 1..(i - 1) : ComputesAt(u, j, r)
  <2>1. CASE i \in 1..Len(t)
    <3>1. PICK j \in 1..(i - 1) : ComputesAt(t, j, r)
      BY <1>2, <1>6, <2>1 DEF TapeInv
    <3>2. j \in 1..Len(t)
      BY <1>2, <2>1
    <3> QED BY <1>2, <3>1, <3>2 DEF ComputesAt
  <2>2. CASE i = Len(t) + 1
    <3>1. PICK j \in 1..Len(t) : ComputesAt(t, j, r)
      BY <1>2, <1>6, <2>2 DEF Emits, Computed
    <3>2. j \in 1..(i - 1)
      BY <1>2, <2>2
    <3> QED BY <1>2, <3>1, <3>2 DEF ComputesAt
  <2> QED BY <1>2, <2>1, <2>2
<1>7. ASSUME NEW i \in 1..Len(u), NEW j \in 1..Len(u), NEW r \in Operand, i < j,
             Takes(u[i], r), Takes(u[j], r), IsRegister(r), r \notin bs \cup ts
      PROVE  u[i].op = "MOVE" /\ j = i + 1
  <2>1. i \in 1..Len(t)
    BY <1>2, <1>7
  <2>2. CASE j \in 1..Len(t)
    BY <1>2, <1>7, <2>1, <2>2 DEF TapeInv
  <2>3. CASE j = Len(t) + 1
    <3>1. t[i].op = "MOVE" /\ i = Len(t)
      BY <1>2, <1>7, <2>1, <2>3 DEF Emits
    <3> QED BY <1>2, <2>1, <2>3, <3>1
  <2> QED BY <1>2, <2>2, <2>3
<1> QED BY <1>1, <1>2, <1>3, <1>4, <1>5, <1>6, <1>7 DEF TapeInv, u

\* An array register and a target that are added only weaken what the tape promises.
LEMMA TapeStays ==
    ASSUME NEW t, NEW n, NEW m \in Nat, NEW bs, NEW ts, NEW bs2, NEW ts2,
           TapeInv(t, n, bs, ts), n <= m, bs \subseteq bs2, ts \subseteq ts2
    PROVE  TapeInv(t, m, bs2, ts2)
<1>1. t \in Seq(Instruction) /\ n \in Nat
  BY DEF TapeInv
<1>2. ASSUME NEW i \in 1..Len(t), t[i].op # "STORE", IsRegister(t[i].write)
      PROVE  t[i].write.of < m
  <2>1. t[i] \in Instruction
    BY <1>1
  <2>2. t[i].write \in Operand
    BY <2>1 DEF Instruction
  <2>3. t[i].write.of \in Nat
    BY <1>2, <2>2, RegisterOf
  <2>4. t[i].write.of < n
    BY <1>2 DEF TapeInv
  <2> QED BY <1>1, <2>3, <2>4
<1>3. ASSUME NEW i \in 1..Len(t), NEW r \in Operand, Takes(t[i], r), IsRegister(r)
      PROVE  r.of < m
  <2>1. r.of \in Nat /\ r.of < n
    BY <1>3, RegisterOf DEF TapeInv
  <2> QED BY <1>1, <2>1
<1>4. \A i, j \in 1..Len(t), r \in Operand :
        IsRegister(r) /\ ComputesAt(t, i, r) /\ ComputesAt(t, j, r) => i = j
  BY DEF TapeInv
<1>5. \A i \in 1..Len(t), r \in Operand :
        Takes(t[i], r) /\ IsRegister(r) /\ r \notin bs2
            => \E j \in 1..(i - 1) : ComputesAt(t, j, r)
  BY DEF TapeInv
<1>6. \A i, j \in 1..Len(t), r \in Operand :
        i < j /\ Takes(t[i], r) /\ Takes(t[j], r) /\ IsRegister(r) /\ r \notin bs2 \cup ts2
            => t[i].op = "MOVE" /\ j = i + 1
  BY DEF TapeInv
<1> QED BY <1>1, <1>2, <1>3, <1>4, <1>5, <1>6 DEF TapeInv

\* Nobody has read the register that is computed next.
LEMMA NextUnread ==
    ASSUME NEW t, NEW n, NEW bs, NEW ts, TapeInv(t, n, bs, ts)
    PROVE  Register(n) \in Operand /\ ~Read(t, Register(n)) /\ ~Computed(t, Register(n))
<1>1. n \in Nat
  BY DEF TapeInv
<1>2. Register(n) \in Operand /\ IsRegister(Register(n)) /\ Register(n).of = n
  BY <1>1 DEF Register, Operand, IsRegister
<1>3. ~Read(t, Register(n))
  BY <1>1, <1>2 DEF TapeInv, Read
<1>4. ~Computed(t, Register(n))
  BY <1>1, <1>2 DEF TapeInv, Computed, ComputesAt
<1> QED BY <1>2, <1>3, <1>4

-----------------------------------------------------------------------------
(* Operands and work *)

\* Of a sequence without its first q elements.
LEMMA Rest ==
    ASSUME NEW S, NEW os \in Seq(S), NEW q \in 0..Len(os)
    PROVE  /\ SubSeq(os, q + 1, Len(os)) \in Seq(S)
           /\ Len(SubSeq(os, q + 1, Len(os))) = Len(os) - q
           /\ \A i \in 1..(Len(os) - q) :
                 SubSeq(os, q + 1, Len(os))[i] = os[i + q] /\ i + q \in 1..Len(os)
<1>1. q \in Nat /\ Len(os) \in Nat /\ q + 1 \in Int /\ q <= Len(os)
  OBVIOUS
<1>2. \A i \in (q + 1)..Len(os) : os[i] \in S
  BY <1>1
<1>3. /\ SubSeq(os, q + 1, Len(os)) \in Seq(S)
      /\ Len(SubSeq(os, q + 1, Len(os)))
           = IF q + 1 <= Len(os) THEN Len(os) - (q + 1) + 1 ELSE 0
      /\ \A i \in 1..(Len(os) - (q + 1) + 1) :
            SubSeq(os, q + 1, Len(os))[i] = os[q + 1 + i - 1]
  BY <1>1, <1>2, SubSeqProperties
<1>4. ASSUME NEW i \in 1..(Len(os) - q)
      PROVE  SubSeq(os, q + 1, Len(os))[i] = os[i + q] /\ i + q \in 1..Len(os)
  <2>1. i \in 1..(Len(os) - (q + 1) + 1) /\ q + 1 + i - 1 = i + q
    BY <1>1
  <2> QED BY <1>1, <1>3, <2>1
<1>5. (IF q + 1 <= Len(os) THEN Len(os) - (q + 1) + 1 ELSE 0) = Len(os) - q
  BY <1>1
<1> QED BY <1>3, <1>4, <1>5

LEMMA Cons ==
    ASSUME NEW S, NEW s \in Seq(S), NEW e \in S
    PROVE  /\ <<e>> \o s \in Seq(S)
           /\ Len(<<e>> \o s) = Len(s) + 1
           /\ (<<e>> \o s)[1] = e
           /\ \A i \in 1..Len(s) : (<<e>> \o s)[i + 1] = s[i]
           /\ \A i \in 1..(Len(s) + 1) : i = 1 \/ (i - 1 \in 1..Len(s) /\ i = (i - 1) + 1)
  OBVIOUS

\* What is computed stays computed, what is an array's or a target stays so.
LEMMA AvailableStays ==
    ASSUME NEW t, NEW n \in Nat, NEW m \in Nat, NEW bs, NEW u, NEW bs2, NEW r \in Operand,
           Available(r, t, n, bs), n <= m, bs \subseteq bs2,
           Computed(t, r) => Computed(u, r)
    PROVE  Available(r, u, m, bs2)
<1> SUFFICES ASSUME IsRegister(r) PROVE r.of < m /\ (r \in bs2 \/ Computed(u, r))
  BY DEF Available
<1>1. r.of \in Nat
  BY RegisterOf
<1> QED BY <1>1 DEF Available

LEMMA HistoryStays ==
    ASSUME NEW n \in Nat, NEW m \in Nat, NEW bs, NEW ts, HistoryInv(n, bs, ts), n <= m
    PROVE  HistoryInv(m, bs, ts)
<1>1. ASSUME NEW b \in bs PROVE b \in Operand /\ IsRegister(b) /\ b.of < m
  <2>1. b \in Operand /\ IsRegister(b) /\ b.of < n
    BY DEF HistoryInv
  <2>2. b.of \in Nat
    BY <2>1, RegisterOf
  <2> QED BY <2>1, <2>2
<1> QED BY <1>1 DEF HistoryInv

\* The operands that an activation leaves to the others are as ready as before, when
\* it read none but its own.
LEMMA OperandsStay ==
    ASSUME NEW t, NEW n \in Nat, NEW m \in Nat, NEW bs, NEW ts, NEW u, NEW bs2, NEW ts2,
           NEW os, OperandsInv(os, t, n, bs, ts), NEW q \in 0..Len(os),
           n <= m, bs \subseteq bs2, ts \subseteq ts2,
           \A r : Computed(t, r) => Computed(u, r),
           \A r : Read(u, r) => \/ Read(t, r) \/ r \in bs \cup ts \/ r = Register(n)
                                \/ \E i \in 1..q : os[i] = r
    PROVE  OperandsInv(SubSeq(os, q + 1, Len(os)), u, m, bs2, ts2)
<1> DEFINE rest == SubSeq(os, q + 1, Len(os))
<1>1. os \in Seq(Operand \ {None}) /\ Len(os) \in Nat /\ q \in Nat /\ q <= Len(os)
  BY DEF OperandsInv
<1>2. /\ rest \in Seq(Operand \ {None})
      /\ Len(rest) = Len(os) - q
      /\ \A i \in 1..Len(rest) : rest[i] = os[i + q] /\ i + q \in 1..Len(os)
  BY <1>1, Rest
<1> HIDE DEF rest
<1>3. ASSUME NEW i \in 1..Len(rest) PROVE Ready(rest[i], u, m, bs2, ts2)
  <2> DEFINE r == os[i + q]
  <2>1. rest[i] = r /\ i + q \in 1..Len(os)
    BY <1>2
  <2>2. Ready(r, t, n, bs, ts)
    BY <2>1 DEF OperandsInv
  <2>3. \A k \in 1..q : os[k] = r /\ IsRegister(r) => r \in bs
    <3> SUFFICES ASSUME NEW k \in 1..q, os[k] = r, IsRegister(r), r \notin bs PROVE FALSE
      OBVIOUS
    <3>1. k \in 1..Len(os) /\ k # i + q
      BY <1>1, <1>2
    <3> QED BY <2>1, <3>1 DEF OperandsInv
  <2> HIDE DEF r
  <2>4. r \in Operand \ {None} /\ Available(r, u, m, bs2)
    BY <2>2, AvailableStays DEF Ready
  <2>5. ASSUME IsRegister(r), r \notin bs2 \cup ts2, Read(u, r) PROVE FALSE
    <3>1. ~Read(t, r) /\ r \notin bs \cup ts
      BY <2>2, <2>5 DEF Ready
    <3>2. r # Register(n)
      <4>1. r.of < n
        BY <2>2, <2>5 DEF Ready, Available
      <4> QED BY <4>1 DEF Register
    <3>3. ~ \E k \in 1..q : os[k] = r
      BY <2>3, <2>5
    <3> QED BY <2>5, <3>1, <3>2, <3>3
  <2> QED BY <2>1, <2>4, <2>5 DEF Ready
<1>4. ASSUME NEW i \in 1..Len(rest), NEW j \in 1..Len(rest), rest[i] = rest[j],
             IsRegister(rest[i]), rest[i] \notin bs2
      PROVE  i = j
  <2>1. i + q \in 1..Len(os) /\ j + q \in 1..Len(os) /\ os[i + q] = os[j + q]
          /\ IsRegister(os[i + q]) /\ os[i + q] \notin bs
    BY <1>2, <1>4
  <2>2. i + q = j + q
    BY <2>1 DEF OperandsInv
  <2> QED BY <1>1, <1>2, <2>2
<1> QED BY <1>2, <1>3, <1>4 DEF OperandsInv, rest

\* An operand is returned to an activation.
LEMMA OperandsCons ==
    ASSUME NEW t, NEW n, NEW bs, NEW ts, NEW os, NEW o,
           OperandsInv(os, t, n, bs, ts), Ready(o, t, n, bs, ts),
           IsRegister(o) /\ o \notin bs => \A i \in 1..Len(os) : os[i] # o
    PROVE  OperandsInv(<<o>> \o os, t, n, bs, ts)
<1> DEFINE new == <<o>> \o os
<1>1. os \in Seq(Operand \ {None}) /\ o \in Operand \ {None}
  BY DEF OperandsInv, Ready
<1>2. /\ new \in Seq(Operand \ {None})
      /\ Len(new) = Len(os) + 1
      /\ new[1] = o
      /\ \A i \in 1..Len(os) : new[i + 1] = os[i]
      /\ \A i \in 1..Len(new) : i = 1 \/ (i - 1 \in 1..Len(os) /\ i = (i - 1) + 1)
  BY <1>1, Cons
<1> HIDE DEF new
<1>3. \A i \in 1..Len(new) : i = 1 \/ new[i] = os[i - 1]
  BY <1>2
<1>4. ASSUME NEW i \in 1..Len(new) PROVE Ready(new[i], t, n, bs, ts)
  BY <1>2, <1>3 DEF OperandsInv
<1>5. ASSUME NEW i \in 1..Len(new), NEW j \in 1..Len(new), new[i] = new[j],
             IsRegister(new[i]), new[i] \notin bs
      PROVE  i = j
  <2>1. CASE i = 1 /\ j = 1
    BY <2>1
  <2>2. CASE i = 1 /\ j # 1
    BY <1>2, <1>3, <1>5, <2>2
  <2>3. CASE i # 1 /\ j = 1
    BY <1>2, <1>3, <1>5, <2>3
  <2>4. CASE i # 1 /\ j # 1
    <3>1. i - 1 \in 1..Len(os) /\ j - 1 \in 1..Len(os) /\ os[i - 1] = os[j - 1]
            /\ IsRegister(os[i - 1]) /\ os[i - 1] \notin bs
      BY <1>2, <1>3, <1>5, <2>4
    <3>2. i - 1 = j - 1
      BY <3>1 DEF OperandsInv
    <3> QED BY <3>1, <3>2
  <2> QED BY <2>1, <2>2, <2>3, <2>4
<1> QED BY <1>2, <1>4, <1>5 DEF OperandsInv, new

\* Every kind of item needs and returns a few operands.
LEMMA NeedsType ==
    ASSUME NEW what PROVE Needs(what) \in 0..3 /\ Gives(what) \in 0..1
  BY DEF Needs, Gives

\* What is to be done, when k operands wait.
Work(w, k, t, n, bs, ts) == WorkInv(w, t, n, bs, ts) /\ k \in Nat /\ Fits(w, k)

LEMMA WorkTail ==
    ASSUME NEW w, NEW k, NEW t, NEW n, NEW bs, NEW ts, Work(w, k, t, n, bs, ts), w # <<>>
    PROVE  /\ ItemInv(Head(w), t, n, bs, ts)
           /\ k >= Needs(Head(w).do)
           /\ Work(Tail(w), k - Needs(Head(w).do) + Gives(Head(w).do), t, n, bs, ts)
<1> DEFINE l == k - Needs(Head(w).do) + Gives(Head(w).do)
<1>1. w \in Seq(WorkItem) /\ Len(w) \in Nat /\ Len(w) >= 1
  BY DEF Work, WorkInv
<1>2. /\ Tail(w) \in Seq(WorkItem) /\ Len(Tail(w)) = Len(w) - 1
      /\ \A i \in 1..Len(Tail(w)) : Tail(w)[i] = w[i + 1] /\ i + 1 \in 1..Len(w)
      /\ Head(w) = w[1] /\ 1 \in 1..Len(w)
  BY <1>1, HeadTailProperties DEF Work
<1>3. PICK h \in [1..(Len(w) + 1) -> Nat] :
        /\ h[1] = k
        /\ \A i \in 1..Len(w) :
              /\ h[i] >= Needs(w[i].do)
              /\ h[i + 1] = h[i] - Needs(w[i].do) + Gives(w[i].do)
  BY DEF Work, Fits
<1>4. k >= Needs(Head(w).do) /\ h[2] = l
  BY <1>2, <1>3
<1>5. l \in Nat
  BY <1>1, <1>3, <1>4
<1> DEFINE g == [i \in 1..(Len(Tail(w)) + 1) |-> h[i + 1]]
<1>6. g \in [1..(Len(Tail(w)) + 1) -> Nat] /\ g[1] = h[2]
  BY <1>1, <1>2, <1>3
<1>7. ASSUME NEW i \in 1..Len(Tail(w))
      PROVE  /\ g[i] >= Needs(Tail(w)[i].do)
             /\ g[i + 1] = g[i] - Needs(Tail(w)[i].do) + Gives(Tail(w)[i].do)
  <2>1. Tail(w)[i] = w[i + 1] /\ i + 1 \in 1..Len(w)
    BY <1>2
  <2>2. g[i] = h[i + 1] /\ g[i + 1] = h[i + 2] /\ (i + 1) + 1 = i + 2
    BY <1>1, <1>2
  <2> HIDE DEF g
  <2>3. /\ h[i + 1] >= Needs(w[i + 1].do)
        /\ h[(i + 1) + 1] = h[i + 1] - Needs(w[i + 1].do) + Gives(w[i + 1].do)
    BY <1>3, <2>1
  <2> QED BY <2>1, <2>2, <2>3
<1> HIDE DEF g
<1> HIDE DEF l
<1>8. Fits(Tail(w), l)
  BY <1>4, <1>6, <1>7 DEF Fits
<1>9. WorkInv(Tail(w), t, n, bs, ts) /\ ItemInv(Head(w), t, n, bs, ts)
  BY <1>2 DEF Work, WorkInv
<1> QED BY <1>4, <1>5, <1>8, <1>9 DEF Work, l

LEMMA WorkCons ==
    ASSUME NEW w, NEW k \in Nat, NEW t, NEW n, NEW bs, NEW ts, NEW item,
           ItemInv(item, t, n, bs, ts), k >= Needs(item.do),
           Work(w, k - Needs(item.do) + Gives(item.do), t, n, bs, ts)
    PROVE  Work(<<item>> \o w, k, t, n, bs, ts)
<1> DEFINE l == k - Needs(item.do) + Gives(item.do)
           new == <<item>> \o w
<1>1. w \in Seq(WorkItem) /\ item \in WorkItem /\ Len(w) \in Nat
  BY DEF Work, WorkInv, ItemInv
<1>2. /\ new \in Seq(WorkItem) /\ Len(new) = Len(w) + 1 /\ new[1] = item
      /\ \A i \in 1..Len(w) : new[i + 1] = w[i]
      /\ \A i \in 1..Len(new) : i = 1 \/ (i - 1 \in 1..Len(w) /\ i = (i - 1) + 1)
  BY <1>1, Cons
<1>3. PICK h \in [1..(Len(w) + 1) -> Nat] :
        /\ h[1] = l
        /\ \A i \in 1..Len(w) :
              /\ h[i] >= Needs(w[i].do)
              /\ h[i + 1] = h[i] - Needs(w[i].do) + Gives(w[i].do)
  BY DEF Work, Fits
<1> DEFINE g == [i \in 1..(Len(new) + 1) |-> IF i = 1 THEN k ELSE h[i - 1]]
<1> HIDE DEF new
<1>4. g \in [1..(Len(new) + 1) -> Nat] /\ g[1] = k
  BY <1>1, <1>2, <1>3
<1>5. ASSUME NEW i \in 1..Len(new)
      PROVE  /\ g[i] >= Needs(new[i].do)
             /\ g[i + 1] = g[i] - Needs(new[i].do) + Gives(new[i].do)
  <2>1. CASE i = 1
    <3>1. g[1] = k /\ g[2] = h[1] /\ h[1] = l
      BY <1>1, <1>2, <1>3
    <3> HIDE DEF g
    <3> QED BY <1>2, <2>1, <3>1
  <2>2. CASE i # 1
    <3>1. i - 1 \in 1..Len(w) /\ new[i] = w[i - 1] /\ (i - 1) + 1 = i
      BY <1>2, <2>2
    <3>2. g[i] = h[i - 1] /\ g[i + 1] = h[i]
      BY <1>1, <1>2, <2>2, <3>1
    <3> HIDE DEF g
    <3>3. /\ h[i - 1] >= Needs(w[i - 1].do)
          /\ h[(i - 1) + 1] = h[i - 1] - Needs(w[i - 1].do) + Gives(w[i - 1].do)
      BY <1>3, <3>1
    <3> QED BY <3>1, <3>2, <3>3
  <2> QED BY <2>1, <2>2
<1> HIDE DEF g
<1>6. Fits(new, k)
  BY <1>4, <1>5 DEF Fits
<1>7. ASSUME NEW i \in 1..Len(new) PROVE ItemInv(new[i], t, n, bs, ts)
  BY <1>2 DEF Work, WorkInv
<1> QED BY <1>2, <1>6, <1>7 DEF Work, WorkInv, new

\* Work that waits is not disturbed by what is emitted meanwhile.
LEMMA WorkStays ==
    ASSUME NEW w, NEW k, NEW t, NEW n \in Nat, NEW m \in Nat, NEW bs, NEW ts, NEW u,
           NEW bs2, NEW ts2, Work(w, k, t, n, bs, ts),
           n <= m, bs \subseteq bs2, ts \subseteq ts2,
           \A r : Computed(t, r) => Computed(u, r)
    PROVE  Work(w, k, u, m, bs2, ts2)
<1>1. ASSUME NEW i \in 1..Len(w) PROVE ItemInv(w[i], u, m, bs2, ts2)
  <2>1. ItemInv(w[i], t, n, bs, ts)
    BY DEF Work, WorkInv
  <2>2. w[i].at \in Operand
    BY <2>1 DEF ItemInv, WorkItem
  <2>3. Available(w[i].at, t, n, bs) => Available(w[i].at, u, m, bs2)
    BY <2>2, AvailableStays
  <2> QED BY <2>1, <2>3 DEF ItemInv
<1> QED BY <1>1 DEF Work, WorkInv

LEMMA ConsIs ==
    ASSUME NEW s \in Seq(WorkItem), NEW u \in Seq(WorkItem), NEW a \in WorkItem,
           Len(u) = Len(s) + 1, u[1] = a, \A i \in 1..Len(s) : u[i + 1] = s[i]
    PROVE  <<a>> \o s = u
<1> DEFINE v == <<a>> \o s
<1>1. /\ v \in Seq(WorkItem) /\ Len(v) = Len(s) + 1 /\ v[1] = a
      /\ \A i \in 1..Len(s) : v[i + 1] = s[i]
      /\ \A i \in 1..Len(v) : i = 1 \/ (i - 1 \in 1..Len(s) /\ i = (i - 1) + 1)
  BY Cons
<1> HIDE DEF v
<1>2. \A i \in 1..Len(v) : v[i] = u[i]
  BY <1>1
<1>3. v = u
  BY <1>1, <1>2, SeqEqual
<1> QED BY <1>3 DEF v

\* Work is added item by item.
LEMMA Prepend2 ==
    ASSUME NEW w \in Seq(WorkItem), NEW a \in WorkItem, NEW b \in WorkItem
    PROVE  <<a, b>> \o w = <<a>> \o (<<b>> \o w)
<1> DEFINE u == <<a, b>> \o w
           v == <<b>> \o w
<1>1. v \in Seq(WorkItem) /\ Len(v) = Len(w) + 1 /\ Len(w) \in Nat
  OBVIOUS
<1>2. v[1] = b /\ \A i \in 1..Len(w) : v[i + 1] = w[i]
  OBVIOUS
<1>3. u \in Seq(WorkItem) /\ Len(u) = Len(w) + 2
  OBVIOUS
<1>4. u[1] = a /\ u[2] = b /\ \A i \in 1..Len(w) : u[i + 2] = w[i]
  OBVIOUS
<1> HIDE DEF u, v
<1>5. ASSUME NEW i \in 1..Len(v) PROVE u[i + 1] = v[i]
  <2>1. CASE i \in 1..1
    BY <1>2, <1>4, <2>1
  <2>2. CASE i \notin 1..1
    <3>1. i - 1 \in 1..Len(w) /\ (i - 1) + 1 = i /\ (i - 1) + 2 = i + 1
      BY <1>1, <2>2
    <3>2. u[(i - 1) + 2] = w[i - 1] /\ v[(i - 1) + 1] = w[i - 1]
      BY <1>2, <1>4, <3>1
    <3> QED BY <3>1, <3>2
  <2> QED BY <2>1, <2>2
<1>6. <<a>> \o v = u
  <2>1. Len(u) = Len(v) + 1 /\ u[1] = a /\ \A i \in 1..Len(v) : u[i + 1] = v[i]
    BY <1>1, <1>3, <1>4, <1>5
  <2> QED BY <1>1, <1>3, <2>1, ConsIs
<1> QED BY <1>6 DEF u, v

LEMMA Prepend3 ==
    ASSUME NEW w \in Seq(WorkItem), NEW a \in WorkItem, NEW b \in WorkItem, NEW c \in WorkItem
    PROVE  <<a, b, c>> \o w = <<a>> \o (<<b, c>> \o w)
<1> DEFINE u == <<a, b, c>> \o w
           v == <<b, c>> \o w
<1>1. v \in Seq(WorkItem) /\ Len(v) = Len(w) + 2 /\ Len(w) \in Nat
  OBVIOUS
<1>2. v[1] = b /\ v[2] = c /\ \A i \in 1..Len(w) : v[i + 2] = w[i]
  OBVIOUS
<1>3. u \in Seq(WorkItem) /\ Len(u) = Len(w) + 3
  OBVIOUS
<1>4. u[1] = a /\ u[2] = b /\ u[3] = c /\ \A i \in 1..Len(w) : u[i + 3] = w[i]
  OBVIOUS
<1> HIDE DEF u, v
<1>5. ASSUME NEW i \in 1..Len(v) PROVE u[i + 1] = v[i]
  <2>1. CASE i \in 1..2
    BY <1>2, <1>4, <2>1
  <2>2. CASE i \notin 1..2
    <3>1. i - 2 \in 1..Len(w) /\ (i - 2) + 2 = i /\ (i - 2) + 3 = i + 1
      BY <1>1, <2>2
    <3>2. u[(i - 2) + 3] = w[i - 2] /\ v[(i - 2) + 2] = w[i - 2]
      BY <1>2, <1>4, <3>1
    <3> QED BY <3>1, <3>2
  <2> QED BY <2>1, <2>2
<1>6. <<a>> \o v = u
  <2>1. Len(u) = Len(v) + 1 /\ u[1] = a /\ \A i \in 1..Len(v) : u[i + 1] = v[i]
    BY <1>1, <1>3, <1>4, <1>5
  <2> QED BY <1>1, <1>3, <2>1, ConsIs
<1> QED BY <1>6 DEF u, v

LEMMA Prepend4 ==
    ASSUME NEW w \in Seq(WorkItem), NEW a \in WorkItem, NEW b \in WorkItem, NEW c \in WorkItem, NEW d \in WorkItem
    PROVE  <<a, b, c, d>> \o w = <<a>> \o (<<b, c, d>> \o w)
<1> DEFINE u == <<a, b, c, d>> \o w
           v == <<b, c, d>> \o w
<1>1. v \in Seq(WorkItem) /\ Len(v) = Len(w) + 3 /\ Len(w) \in Nat
  OBVIOUS
<1>2. v[1] = b /\ v[2] = c /\ v[3] = d /\ \A i \in 1..Len(w) : v[i + 3] = w[i]
  OBVIOUS
<1>3. u \in Seq(WorkItem) /\ Len(u) = Len(w) + 4
  OBVIOUS
<1>4. u[1] = a /\ u[2] = b /\ u[3] = c /\ u[4] = d /\ \A i \in 1..Len(w) : u[i + 4] = w[i]
  OBVIOUS
<1> HIDE DEF u, v
<1>5. ASSUME NEW i \in 1..Len(v) PROVE u[i + 1] = v[i]
  <2>1. CASE i \in 1..3
    BY <1>2, <1>4, <2>1
  <2>2. CASE i \notin 1..3
    <3>1. i - 3 \in 1..Len(w) /\ (i - 3) + 3 = i /\ (i - 3) + 4 = i + 1
      BY <1>1, <2>2
    <3>2. u[(i - 3) + 4] = w[i - 3] /\ v[(i - 3) + 3] = w[i - 3]
      BY <1>2, <1>4, <3>1
    <3> QED BY <3>1, <3>2
  <2> QED BY <2>1, <2>2
<1>6. <<a>> \o v = u
  <2>1. Len(u) = Len(v) + 1 /\ u[1] = a /\ \A i \in 1..Len(v) : u[i + 1] = v[i]
    BY <1>1, <1>3, <1>4, <1>5
  <2> QED BY <1>1, <1>3, <2>1, ConsIs
<1> QED BY <1>6 DEF u, v

-----------------------------------------------------------------------------
(* Work *)

\* Items that need no base and no target.
LEMMA Plain ==
    ASSUME NEW t, NEW n, NEW bs, NEW ts, NEW what \in Tasks,
           what \notin {"elements", "element", "arms", "arm"}, NEW at \in Operand
    PROVE  ItemInv(Item(what, at), t, n, bs, ts)
  BY DEF ItemInv, WorkItem, Item

LEMMA DoPlain ==
    ASSUME NEW t, NEW n, NEW bs, NEW ts, NEW what \in Tasks,
           what \notin {"elements", "element", "arms", "arm"}
    PROVE  ItemInv(Do(what), t, n, bs, ts)
<1>1. None \in Operand
  BY DEF Operand
<1>2. ItemInv(Item(what, None), t, n, bs, ts)
  BY <1>1, Plain
<1> QED BY <1>2 DEF Do

\* One more operand will wait when the expression is lowered.
LEMMA ExpressionCons ==
    ASSUME NEW w, NEW k \in Nat, NEW t, NEW n, NEW bs, NEW ts,
           Work(w, k + 1, t, n, bs, ts)
    PROVE  Work(<<Expression>> \o w, k, t, n, bs, ts) /\ Work(<<Target>> \o w, k, t, n, bs, ts)
<1>1. ItemInv(Expression, t, n, bs, ts) /\ ItemInv(Target, t, n, bs, ts)
  <2>1. Expression = Do("expression") /\ Target = Do("target")
    BY DEF Expression, Target
  <2>2. ItemInv(Do("expression"), t, n, bs, ts)
    <3>1. "expression" \in Tasks
      BY DEF Tasks
    <3>2. "expression" \notin {"elements", "element", "arms", "arm"}
      OBVIOUS
    <3> QED BY <3>1, <3>2, DoPlain
  <2>3. ItemInv(Do("target"), t, n, bs, ts)
    <3>1. "target" \in Tasks
      BY DEF Tasks
    <3>2. "target" \notin {"elements", "element", "arms", "arm"}
      OBVIOUS
    <3> QED BY <3>1, <3>2, DoPlain
  <2> QED BY <2>1, <2>2, <2>3
<1>2. /\ Needs(Expression.do) = 0 /\ Gives(Expression.do) = 1
      /\ Needs(Target.do) = 0 /\ Gives(Target.do) = 1
  BY DEF Expression, Target, Do, Item, Needs, Gives
<1>3. k - 0 + 1 = k + 1 /\ k >= 0
  OBVIOUS
<1>4. Work(<<Expression>> \o w, k, t, n, bs, ts)
  BY <1>1, <1>2, <1>3, WorkCons
<1>5. Work(<<Target>> \o w, k, t, n, bs, ts)
  BY <1>1, <1>2, <1>3, WorkCons
<1> QED BY <1>4, <1>5

-----------------------------------------------------------------------------
(* Emission *)

\* A state in which the invariant holds.
Good(t, n, bs, ts, os, w) ==
    /\ TapeInv(t, n, bs, ts)
    /\ OperandsInv(os, t, n, bs, ts)
    /\ HistoryInv(n, bs, ts)
    /\ Work(w, Len(os), t, n, bs, ts)

\* What an instruction may read: what waits, an array's register, a target.
Readable(r, t, n, bs, ts) ==
    /\ r \in Operand
    /\ Available(r, t, n, bs)
    /\ IsRegister(r) /\ r \notin bs \cup ts => ~Read(t, r)

LEMMA EmitsReads ==
    ASSUME NEW t, NEW n \in Nat, NEW m \in Nat, NEW bs, NEW ts, NEW ins \in Instruction,
           n <= m,
           ins.op # "STORE" /\ IsRegister(ins.write) => ins.write = Register(n) /\ m > n,
           \A r : Takes(ins, r) => Readable(r, t, n, bs, ts)
    PROVE  Emits(ins, t, n, m, bs, ts)
<1>1. ASSUME NEW r \in Operand, Takes(ins, r), IsRegister(r)
      PROVE  /\ r.of < n /\ (r \in bs \/ Computed(t, r))
             /\ r \notin bs \cup ts =>
                  \A i \in 1..Len(t) : Takes(t[i], r) => t[i].op = "MOVE" /\ i = Len(t)
  BY <1>1 DEF Readable, Available, Read
<1> QED BY <1>1 DEF Emits

LEMMA InstructionType ==
    ASSUME NEW op \in SSOp, NEW write \in Operand, NEW read \in Seq(Operand)
    PROVE  /\ I(op, write, read) \in Instruction
           /\ I(op, write, read).op = op /\ I(op, write, read).write = write
           /\ I(op, write, read).read = read
  BY DEF I, Instruction

LEMMA ReadyReadable ==
    ASSUME NEW r, NEW t, NEW n, NEW bs, NEW ts, Ready(r, t, n, bs, ts)
    PROVE  /\ Readable(r, t, n, bs, ts)
           /\ n \in Nat => r # Register(n)
  BY DEF Ready, Readable, Available, IsRegister, Register

\* The parts of the invariant that do not depend on what was emitted.
LEMMA AfterEmit ==
    ASSUME NEW t, NEW n, NEW m \in Nat, NEW bs, NEW ts, NEW os, NEW w, NEW v, NEW u,
           NEW k, Good(t, n, bs, ts, os, w), NEW q \in 0..Len(os), Work(v, k, t, n, bs, ts),
           n <= m, TapeInv(u, m, bs, ts),
           \A r : Computed(t, r) => Computed(u, r),
           \A r : Read(u, r) => \/ Read(t, r) \/ r \in bs \cup ts \/ r = Register(n)
                                \/ \E i \in 1..q : os[i] = r
    PROVE  /\ OperandsInv(SubSeq(os, q + 1, Len(os)), u, m, bs, ts)
           /\ Len(SubSeq(os, q + 1, Len(os))) = Len(os) - q
           /\ HistoryInv(m, bs, ts)
           /\ Work(v, k, u, m, bs, ts)
<1>1. n \in Nat /\ OperandsInv(os, t, n, bs, ts) /\ HistoryInv(n, bs, ts)
  BY DEF Good, TapeInv
<1>2. OperandsInv(SubSeq(os, q + 1, Len(os)), u, m, bs, ts)
  BY <1>1, OperandsStay
<1>3. Len(SubSeq(os, q + 1, Len(os))) = Len(os) - q
  BY <1>1, Rest DEF OperandsInv
<1>4. HistoryInv(m, bs, ts)
  BY <1>1, HistoryStays
<1>5. Work(v, k, u, m, bs, ts)
  BY <1>1, WorkStays
<1> QED BY <1>2, <1>3, <1>4, <1>5

\* An instruction that computes no register takes q operands.
LEMMA Consume ==
    ASSUME NEW t, NEW n, NEW bs, NEW ts, NEW os, NEW w, NEW v, NEW ins \in Instruction,
           Good(t, n, bs, ts, os, w), NEW q \in 0..Len(os),
           Work(v, Len(os) - q, t, n, bs, ts),
           ins.op = "STORE" \/ ~IsRegister(ins.write),
           \A r : Takes(ins, r) => \/ \E i \in 1..q : os[i] = r
                                   \/ r \in bs \cup ts /\ Readable(r, t, n, bs, ts)
    PROVE  Good(Append(t, ins), n, bs, ts, SubSeq(os, q + 1, Len(os)), v)
<1> DEFINE u == Append(t, ins)
<1>1. n \in Nat /\ t \in Seq(Instruction) /\ TapeInv(t, n, bs, ts) /\ Len(os) \in Nat
  BY DEF Good, TapeInv, OperandsInv
<1>2. ASSUME NEW r, Takes(ins, r) PROVE Readable(r, t, n, bs, ts)
  <2>1. CASE \E i \in 1..q : os[i] = r
    <3>1. PICK i \in 1..q : os[i] = r
      BY <2>1
    <3>2. i \in 1..Len(os)
      BY <1>1
    <3>3. Ready(r, t, n, bs, ts)
      BY <3>1, <3>2 DEF Good, OperandsInv
    <3> QED BY <3>3, ReadyReadable
  <2> QED BY <1>2, <2>1
<1>3. Emits(ins, t, n, n, bs, ts)
  <2>1. n <= n
    BY <1>1
  <2> QED BY <1>1, <1>2, <2>1, EmitsReads
<1>4. TapeInv(u, n, bs, ts)
  BY <1>1, <1>3, AppendInv
<1>5. \A r : Computed(t, r) => Computed(u, r)
  BY <1>1, AppendReads
<1>6. ASSUME NEW r, Read(u, r)
      PROVE  Read(t, r) \/ r \in bs \cup ts \/ \E i \in 1..q : os[i] = r
  <2>1. Read(t, r) \/ Takes(ins, r)
    BY <1>1, <1>6, AppendReads
  <2> QED BY <2>1
<1> HIDE DEF u
<1>7. n <= n
  BY <1>1
<1>8. /\ OperandsInv(SubSeq(os, q + 1, Len(os)), u, n, bs, ts)
      /\ Len(SubSeq(os, q + 1, Len(os))) = Len(os) - q
      /\ HistoryInv(n, bs, ts)
      /\ Work(v, Len(os) - q, u, n, bs, ts)
  <2>1. \A r : Read(u, r) => \/ Read(t, r) \/ r \in bs \cup ts \/ r = Register(n)
                             \/ \E i \in 1..q : os[i] = r
    BY <1>6
  <2>2. TapeInv(u, n, bs, ts)
    BY <1>4
  <2> QED BY <1>1, <1>5, <1>7, <2>1, <2>2, AfterEmit
<1> QED BY <1>4, <1>8 DEF Good, u

\* An operand that is no register of its own is returned.
LEMMA Leaf ==
    ASSUME NEW t, NEW n, NEW bs, NEW ts, NEW os, NEW w, NEW v,
           Good(t, n, bs, ts, os, w), Work(v, Len(os) + 1, t, n, bs, ts),
           NEW o \in Operand \ {None}, IsRegister(o) => o \in bs
    PROVE  Good(t, n, bs, ts, <<o>> \o os, v)
<1>1. Ready(o, t, n, bs, ts)
  BY DEF Ready, Available, Good, HistoryInv
<1>2. OperandsInv(<<o>> \o os, t, n, bs, ts)
  BY <1>1, OperandsCons DEF Good
<1>3. os \in Seq(Operand \ {None})
  BY DEF Good, OperandsInv
<1>4. Len(<<o>> \o os) = Len(os) + 1
  BY <1>3, Cons
<1> QED BY <1>2, <1>4 DEF Good

\* An instruction takes q operands, and its register is returned.
LEMMA Compute1 ==
    ASSUME NEW t, NEW n, NEW bs, NEW ts, NEW os, NEW w, NEW v, NEW ins \in Instruction,
           Good(t, n, bs, ts, os, w), NEW q \in 0..Len(os),
           Work(v, Len(os) - q + 1, t, n, bs, ts),
           ins.op # "STORE", ins.write = Register(n),
           \A r : Takes(ins, r) => \E i \in 1..q : os[i] = r
    PROVE  Good(Append(t, ins), n + 1, bs, ts,
                <<Register(n)>> \o SubSeq(os, q + 1, Len(os)), v)
<1> DEFINE u == Append(t, ins)
           rest == SubSeq(os, q + 1, Len(os))
           R == Register(n)
<1>1. n \in Nat /\ n + 1 \in Nat /\ n <= n + 1 /\ n + 1 > n /\ t \in Seq(Instruction)
      /\ TapeInv(t, n, bs, ts) /\ Len(os) \in Nat
  BY DEF Good, TapeInv, OperandsInv
<1>2. ASSUME NEW i \in 1..Len(os) PROVE Ready(os[i], t, n, bs, ts)
  BY DEF Good, OperandsInv
<1>3. ASSUME NEW r, Takes(ins, r) PROVE Readable(r, t, n, bs, ts) /\ r # R
  <2>1. PICK i \in 1..q : os[i] = r
    BY <1>3
  <2>2. i \in 1..Len(os)
    BY <1>1
  <2>3. Ready(r, t, n, bs, ts)
    BY <1>2, <2>1, <2>2
  <2> QED BY <1>1, <2>3, ReadyReadable
<1>4. Emits(ins, t, n, n + 1, bs, ts)
  BY <1>1, <1>3, EmitsReads
<1>5. TapeInv(u, n + 1, bs, ts)
  BY <1>1, <1>4, AppendInv
<1>6. \A r : Computed(t, r) => Computed(u, r)
  BY <1>1, AppendReads
<1>7. ASSUME NEW r, Read(u, r)
      PROVE  Read(t, r) \/ \E i \in 1..q : os[i] = r
  <2>1. Read(t, r) \/ Takes(ins, r)
    BY <1>1, <1>7, AppendReads
  <2> QED BY <2>1
<1>8. R \in Operand /\ Computed(u, R) /\ ~Read(u, R)
  <2>1. R \in Operand /\ ~Read(t, R)
    BY <1>1, NextUnread
  <2>2. Computed(u, R)
    BY <1>1, AppendReads
  <2>3. ~Read(u, R)
    BY <1>1, <1>3, <2>1, AppendReads
  <2> QED BY <2>1, <2>2, <2>3
<1> HIDE DEF u
<1>9. /\ OperandsInv(rest, u, n + 1, bs, ts)
      /\ Len(rest) = Len(os) - q
      /\ HistoryInv(n + 1, bs, ts)
      /\ Work(v, Len(os) - q + 1, u, n + 1, bs, ts)
  <2>1. \A r : Read(u, r) => \/ Read(t, r) \/ r \in bs \cup ts \/ r = Register(n)
                             \/ \E i \in 1..q : os[i] = r
    BY <1>7
  <2>2. TapeInv(u, n + 1, bs, ts)
    BY <1>5
  <2> QED BY <1>1, <1>6, <2>1, <2>2, AfterEmit
<1>10. Ready(R, u, n + 1, bs, ts)
  <2>1. R # None /\ R.of = n
    BY DEF Register, None
  <2> HIDE DEF R
  <2> QED BY <1>1, <1>8, <2>1 DEF Ready, Available
<1>11. ASSUME NEW i \in 1..Len(rest) PROVE rest[i] # R
  <2>1. rest[i] = os[i + q] /\ i + q \in 1..Len(os)
    BY <1>9, Rest DEF Good, OperandsInv
  <2>2. Ready(rest[i], t, n, bs, ts)
    BY <1>2, <2>1
  <2> QED BY <1>1, <2>2, ReadyReadable
<1> HIDE DEF rest, R
<1>12. OperandsInv(<<R>> \o rest, u, n + 1, bs, ts)
  BY <1>9, <1>10, <1>11, OperandsCons
<1>13. Len(<<R>> \o rest) = Len(os) - q + 1
  <2>1. rest \in Seq(Operand \ {None}) /\ R \in Operand \ {None}
    BY <1>9, <1>10 DEF OperandsInv, Ready
  <2> QED BY <1>9, <2>1, Cons
<1>14. Good(u, n + 1, bs, ts, <<R>> \o rest, v)
  BY <1>5, <1>9, <1>12, <1>13 DEF Good
<1> QED BY <1>14 DEF u, rest, R
-----------------------------------------------------------------------------
(* Steps *)

Now(os, w) == Good(tape, TemporaryCounter, bases, targets, os, w)

LEMMA InvGood == IInv <=> Now(operands, work)
  BY DEF IInv, Now, Good, Work, OperandsInv

\* What an activation may rely on when it goes on with its first task.
LEMMA Resumed ==
    ASSUME IInv, NEW what, Doing(what)
    PROVE  /\ Now(operands, work)
           /\ work \in Seq(WorkItem) /\ Tail(work) \in Seq(WorkItem)
           /\ TemporaryCounter \in Nat /\ tape \in Seq(Instruction) /\ Len(operands) \in Nat
           /\ Head(work).do = what
           /\ ItemInv(Head(work), tape, TemporaryCounter, bases, targets)
           /\ Len(operands) >= Needs(what)
           /\ Work(Tail(work), Len(operands) - Needs(what) + Gives(what),
                   tape, TemporaryCounter, bases, targets)
           /\ \A i \in 1..Len(operands) : operands[i] \in Operand
<1>1. Now(operands, work) /\ Work(work, Len(operands), tape, TemporaryCounter, bases, targets)
  BY InvGood DEF Now, Good
<1>2. work # <<>> /\ Head(work).do = what
  BY DEF Doing
<1>3. /\ ItemInv(Head(work), tape, TemporaryCounter, bases, targets)
      /\ Len(operands) >= Needs(Head(work).do)
      /\ Work(Tail(work), Len(operands) - Needs(Head(work).do) + Gives(Head(work).do),
              tape, TemporaryCounter, bases, targets)
  BY <1>1, <1>2, WorkTail
<1>4. work \in Seq(WorkItem) /\ Tail(work) \in Seq(WorkItem)
  BY <1>1, <1>3 DEF Work, WorkInv
<1>5. TemporaryCounter \in Nat /\ tape \in Seq(Instruction) /\ Len(operands) \in Nat
      /\ \A i \in 1..Len(operands) : operands[i] \in Operand
  BY <1>1 DEF Now, Good, TapeInv, OperandsInv
<1> QED BY <1>1, <1>2, <1>3, <1>4, <1>5

\* Emit and Then in the terms of the lemmas above.
LEMMA EmitOne ==
    ASSUME NEW t \in Seq(Instruction), NEW a \in Instruction, NEW b \in Instruction
    PROVE  t \o <<a>> = Append(t, a) /\ t \o <<a, b>> = Append(Append(t, a), b)
           /\ t \o <<>> = t
  OBVIOUS

LEMMA NothingThen == ASSUME NEW w \in Seq(WorkItem) PROVE <<>> \o w = w
  OBVIOUS

LEMMA WithoutNone ==
    ASSUME NEW S, NEW os \in Seq(S) PROVE SubSeq(os, 0 + 1, Len(os)) = os
<1>1. 0 \in 0..Len(os)
  OBVIOUS
<1>2. /\ SubSeq(os, 0 + 1, Len(os)) \in Seq(S)
      /\ Len(SubSeq(os, 0 + 1, Len(os))) = Len(os) - 0
      /\ \A i \in 1..(Len(os) - 0) : SubSeq(os, 0 + 1, Len(os))[i] = os[i + 0]
  BY <1>1, Rest
<1> DEFINE v == SubSeq(os, 0 + 1, Len(os))
<1> HIDE DEF v
<1>3. v \in Seq(S) /\ Len(v) = Len(os) /\ \A i \in 1..Len(v) : v[i] = os[i]
  BY <1>2 DEF v
<1>4. v = os
  BY <1>3, SeqEqual
<1> QED BY <1>4 DEF v

LEMMA ComputeStep ==
    ASSUME IInv, NEW what, Doing(what), NEW q, Needs(what) = q, Gives(what) = 1,
           NEW op \in SSOp \ {"STORE"}, NEW read \in Seq(Operand), Compute(q, op, read),
           \A r : Takes(I(op, Result, read), r) => \E i \in 1..q : operands[i] = r
    PROVE  IInv'
<1> DEFINE ins == I(op, Result, read)
<1>1. /\ Now(operands, work) /\ Tail(work) \in Seq(WorkItem)
      /\ TemporaryCounter \in Nat /\ tape \in Seq(Instruction)
      /\ Len(operands) \in Nat /\ Len(operands) >= q
      /\ Work(Tail(work), Len(operands) - q + 1, tape, TemporaryCounter, bases, targets)
  BY Resumed
<1>2. Result \in Operand /\ Result = Register(TemporaryCounter)
  BY <1>1 DEF Result, Register, Operand
<1>3. ins \in Instruction /\ ins.op # "STORE" /\ ins.write = Register(TemporaryCounter)
  BY <1>2, InstructionType
<1>4. q \in 0..Len(operands)
  BY <1>1, NeedsType
<1>5. \A r : Takes(ins, r) => \E i \in 1..q : operands[i] = r
  OBVIOUS
<1>6. /\ tape' = tape \o <<ins>>
      /\ operands' = <<Result>> \o SubSeq(operands, q + 1, Len(operands))
      /\ work' = <<>> \o Tail(work)
      /\ TemporaryCounter' = TemporaryCounter + 1 /\ UNCHANGED <<bases, targets>>
  BY DEF Compute, Return, Emit, Then, Without, NewTemporary
<1> HIDE DEF ins
<1>7. tape' = Append(tape, ins) /\ work' = Tail(work)
  BY <1>1, <1>3, <1>6, EmitOne, NothingThen
<1>8. Good(Append(tape, ins), TemporaryCounter + 1, bases, targets,
           <<Register(TemporaryCounter)>> \o SubSeq(operands, q + 1, Len(operands)), Tail(work))
  BY <1>1, <1>3, <1>4, <1>5, Compute1 DEF Now
<1>9. Now(operands, work)'
  BY <1>2, <1>6, <1>7, <1>8 DEF Now
<1> QED BY <1>9, InvGood, PTL

LEMMA FinishStep ==
    ASSUME IInv, NEW what, Doing(what), NEW q, Needs(what) = q, Gives(what) = 0,
           NEW ins \in Instruction, Finish(q, <<ins>>),
           ins.op = "STORE" \/ ~IsRegister(ins.write),
           \A r : Takes(ins, r) =>
               \/ \E i \in 1..q : operands[i] = r
               \/ /\ r \in bases \cup targets
                  /\ Readable(r, tape, TemporaryCounter, bases, targets)
    PROVE  IInv'
<1>1. /\ Now(operands, work) /\ Tail(work) \in Seq(WorkItem)
      /\ TemporaryCounter \in Nat /\ tape \in Seq(Instruction)
      /\ Len(operands) \in Nat /\ Len(operands) >= q
      /\ Work(Tail(work), Len(operands) - q + 0, tape, TemporaryCounter, bases, targets)
  BY Resumed
<1>2. q \in 0..Len(operands) /\ Len(operands) - q + 0 = Len(operands) - q
  BY <1>1, NeedsType
<1>3. /\ tape' = tape \o <<ins>>
      /\ operands' = SubSeq(operands, q + 1, Len(operands))
      /\ work' = <<>> \o Tail(work)
      /\ UNCHANGED <<TemporaryCounter, bases, targets>>
  BY DEF Finish, Emit, Then, Without, kept
<1>4. tape' = Append(tape, ins) /\ work' = Tail(work)
  BY <1>1, <1>3, EmitOne, NothingThen
<1>5. Good(Append(tape, ins), TemporaryCounter, bases, targets,
           SubSeq(operands, q + 1, Len(operands)), Tail(work))
  <2>1. Work(Tail(work), Len(operands) - q, tape, TemporaryCounter, bases, targets)
    BY <1>1, <1>2
  <2> QED BY <1>1, <1>2, <2>1, Consume DEF Now
<1>6. Now(operands, work)'
  BY <1>3, <1>4, <1>5 DEF Now
<1> QED BY <1>6, InvGood, PTL

LEMMA InitIInv == Init => IInv
<1> SUFFICES ASSUME Init PROVE IInv
  OBVIOUS
<1>1. tape = <<>> /\ TemporaryCounter = 0 /\ work = <<>> /\ operands = <<>>
        /\ bases = {} /\ targets = {}
  BY DEF Init
<1>2. TapeInv(tape, TemporaryCounter, bases, targets)
  BY <1>1 DEF TapeInv
<1>3. OperandsInv(operands, tape, TemporaryCounter, bases, targets)
  BY <1>1 DEF OperandsInv
<1>4. WorkInv(work, tape, TemporaryCounter, bases, targets)
  BY <1>1 DEF WorkInv
<1>5. HistoryInv(TemporaryCounter, bases, targets)
  BY <1>1 DEF HistoryInv
<1>6. Fits(work, Len(operands))
  <2>1. Len(work) = 0 /\ Len(operands) = 0
    BY <1>1
  <2> DEFINE h == [i \in 1..(Len(work) + 1) |-> 0]
  <2>2. h \in [1..(Len(work) + 1) -> Nat] /\ h[1] = Len(operands)
    BY <2>1
  <2> HIDE DEF h
  <2> QED BY <2>1, <2>2 DEF Fits
<1> QED BY <1>2, <1>3, <1>4, <1>5, <1>6 DEF IInv

\* Which kinds of work take how many operands.
LEMMA NeedsOf ==
    /\ \A what \in {"expression", "target", "arguments", "elements"} :
          Needs(what) = 0 /\ Gives(what) = 1
    /\ \A what \in {"unary", "member", "MOVE", "COPY", "call"} :
          Needs(what) = 1 /\ Gives(what) = 1
    /\ \A what \in {"binary", "index"} : Needs(what) = 2 /\ Gives(what) = 1
    /\ \A what \in {"argument", "element", "declare", "test", "drop", "match", "arm"} :
          Needs(what) = 1 /\ Gives(what) = 0
    /\ \A what \in {"assign", "assign_member"} : Needs(what) = 2 /\ Gives(what) = 0
    /\ Needs("assign_index") = 3 /\ Gives("assign_index") = 0
    /\ \A what \in {"arms", "body"} : Needs(what) = 0 /\ Gives(what) = 0
  BY DEF Needs, Gives

LEMMA Reading ==
    ASSUME IInv, NEW what, Doing(what)
    PROVE  /\ Needs(what) >= 1 =>
                /\ 1 \in 1..Len(operands) /\ operands[1] \in Operand
                /\ <<operands[1]>> \in Seq(Operand)
           /\ Needs(what) >= 2 =>
                /\ 2 \in 1..Len(operands) /\ operands[2] \in Operand
                /\ <<operands[2], operands[1]>> \in Seq(Operand)
           /\ Needs(what) >= 3 =>
                /\ 3 \in 1..Len(operands) /\ operands[3] \in Operand
                /\ <<operands[3], operands[1], operands[2]>> \in Seq(Operand)
<1>1. Len(operands) \in Nat /\ Len(operands) >= Needs(what)
        /\ \A i \in 1..Len(operands) : operands[i] \in Operand
  BY Resumed
<1>2. Needs(what) \in 0..3
  BY NeedsType
<1>3. /\ Needs(what) >= 1 => 1 \in 1..Len(operands)
      /\ Needs(what) >= 2 => 2 \in 1..Len(operands) /\ 1 \in 1..Len(operands)
      /\ Needs(what) >= 3 => 3 \in 1..Len(operands) /\ 2 \in 1..Len(operands)
                             /\ 1 \in 1..Len(operands)
  BY <1>1, <1>2
<1> QED BY <1>1, <1>3

LEMMA Compute1Step ==
    ASSUME IInv, NEW what, Doing(what), Needs(what) = 1, Gives(what) = 1,
           NEW op \in SSOp \ {"STORE"}, Compute(1, op, <<operands[1]>>)
    PROVE  IInv'
<1>1. <<operands[1]>> \in Seq(Operand)
  BY Reading
<1>2. ASSUME NEW r, Takes(I(op, Result, <<operands[1]>>), r)
      PROVE  \E i \in 1..1 : operands[i] = r
  BY <1>2 DEF Takes, I
<1> QED BY <1>1, <1>2, ComputeStep

LEMMA Compute2Step ==
    ASSUME IInv, NEW what, Doing(what), Needs(what) = 2, Gives(what) = 1,
           NEW op \in SSOp \ {"STORE"}, Compute(2, op, <<operands[2], operands[1]>>)
    PROVE  IInv'
<1>1. <<operands[2], operands[1]>> \in Seq(Operand)
  BY Reading
<1>2. ASSUME NEW r, Takes(I(op, Result, <<operands[2], operands[1]>>), r)
      PROVE  \E i \in 1..2 : operands[i] = r
  <2>1. r \in {operands[2], operands[1]}
    BY <1>2 DEF Takes, I
  <2> QED BY <2>1
<1> QED BY <1>1, <1>2, ComputeStep

LEMMA BinaryStep == ASSUME IInv, LowerBinary PROVE IInv'
<1>1. "BINARY" \in SSOp \ {"STORE"}
  BY DEF SSOp
<1> QED BY <1>1, NeedsOf, Compute2Step DEF LowerBinary

LEMMA MemberStep == ASSUME IInv, LowerMember PROVE IInv'
<1>1. "LOAD_MEM" \in SSOp \ {"STORE"}
  BY DEF SSOp
<1> QED BY <1>1, NeedsOf, Compute1Step DEF LowerMember

LEMMA UnaryStep == ASSUME IInv, LowerUnary PROVE IInv'
<1>1. "UNARY" \in SSOp \ {"STORE"}
  BY DEF SSOp
<1> QED BY <1>1, NeedsOf, Compute1Step DEF LowerUnary

LEMMA IndexStep == ASSUME IInv, LowerIndex PROVE IInv'
<1>1. "LOAD_MEM" \in SSOp \ {"STORE"}
  BY DEF SSOp
<1> QED BY <1>1, NeedsOf, Compute2Step DEF LowerIndex

\* An activation returns without an instruction.
LEMMA ReturnStep ==
    ASSUME IInv, NEW what, Doing(what), Needs(what) = 0, Gives(what) = 1,
           NEW o \in Operand \ {None}, IsRegister(o) => o \in bases,
           Return(0, <<>>, o), UNCHANGED <<TemporaryCounter, bases>>
    PROVE  IInv'
<1>1. /\ Now(operands, work) /\ Tail(work) \in Seq(WorkItem) /\ tape \in Seq(Instruction)
      /\ Len(operands) \in Nat
      /\ Work(Tail(work), Len(operands) - 0 + 1, tape, TemporaryCounter, bases, targets)
  BY Resumed
<1>2. operands \in Seq(Operand \ {None})
  BY <1>1 DEF Now, Good, OperandsInv
<1>3. Len(operands) - 0 + 1 = Len(operands) + 1
  BY <1>1
<1>4. /\ tape' = tape \o <<>>
      /\ operands' = <<o>> \o SubSeq(operands, 0 + 1, Len(operands))
      /\ work' = <<>> \o Tail(work)
      /\ UNCHANGED <<TemporaryCounter, bases, targets>>
  BY DEF Return, Emit, Then, Without
<1>5. tape' = tape /\ work' = Tail(work) /\ operands' = <<o>> \o operands
  <2>1. tape \o <<>> = tape
    BY <1>1
  <2>2. <<>> \o Tail(work) = Tail(work)
    BY <1>1, NothingThen
  <2>3. SubSeq(operands, 0 + 1, Len(operands)) = operands
    BY <1>2, WithoutNone
  <2> QED BY <1>4, <2>1, <2>2, <2>3
<1>6. Good(tape, TemporaryCounter, bases, targets, <<o>> \o operands, Tail(work))
  <2>1. Work(Tail(work), Len(operands) + 1, tape, TemporaryCounter, bases, targets)
    BY <1>1, <1>3
  <2> QED BY <1>1, <2>1, Leaf DEF Now
<1>7. Now(operands, work)'
  BY <1>4, <1>5, <1>6 DEF Now
<1> QED BY <1>7, InvGood, PTL

\* An activation opens others.
LEMMA OpenStep ==
    ASSUME IInv, NEW w, Work(w, Len(operands), tape, TemporaryCounter, bases, targets),
           work' = w, UNCHANGED <<tape, TemporaryCounter, operands, bases, targets>>
    PROVE  IInv'
<1>1. Now(operands, w)
  BY InvGood DEF Now, Good
<1>2. Now(operands, work)'
  BY <1>1 DEF Now
<1> QED BY <1>2, InvGood, PTL

LEMMA ItemCons ==
    ASSUME NEW w, NEW k \in Nat, NEW l, NEW t, NEW n, NEW bs, NEW ts, NEW item,
           ItemInv(item, t, n, bs, ts), Work(w, l, t, n, bs, ts),
           k >= Needs(item.do), l = k - Needs(item.do) + Gives(item.do)
    PROVE  Work(<<item>> \o w, k, t, n, bs, ts)
  BY WorkCons

\* The same for a task that needs no array and no target.
LEMMA TaskCons ==
    ASSUME NEW w, NEW k \in Nat, NEW l, NEW t, NEW n, NEW bs, NEW ts,
           NEW what \in Tasks \ {"elements", "element", "arms", "arm"},
           Work(w, l, t, n, bs, ts),
           k >= Needs(what), l = k - Needs(what) + Gives(what)
    PROVE  Work(<<Do(what)>> \o w, k, t, n, bs, ts)
<1>1. ItemInv(Do(what), t, n, bs, ts)
  BY DoPlain
<1>2. Do(what).do = what
  BY DEF Do, Item
<1> QED BY <1>1, <1>2, ItemCons

LEMMA DoItems ==
    /\ Expression \in WorkItem /\ Target \in WorkItem
    /\ \A what \in Tasks : Do(what) \in WorkItem
<1>1. ASSUME NEW what \in Tasks PROVE Do(what) \in WorkItem
  BY DEF Do, Item, WorkItem, Operand
<1>2. "expression" \in Tasks /\ "target" \in Tasks
  BY DEF Tasks
<1> QED BY <1>1, <1>2 DEF Expression, Target

\* An expression, and a task for its operand.
LEMMA ExpressionTask ==
    ASSUME NEW w, NEW k \in Nat, NEW l, NEW t, NEW n, NEW bs, NEW ts,
           NEW what \in Tasks \ {"elements", "element", "arms", "arm"},
           Needs(what) = 1, l = k + Gives(what), Work(w, l, t, n, bs, ts)
    PROVE  Work(<<Expression, Do(what)>> \o w, k, t, n, bs, ts)
<1>1. k + 1 \in Nat /\ k + 1 >= 1 /\ l = (k + 1) - 1 + Gives(what)
  BY NeedsType
<1>2. Work(<<Do(what)>> \o w, k + 1, t, n, bs, ts)
  BY <1>1, TaskCons
<1>3. Work(<<Expression>> \o (<<Do(what)>> \o w), k, t, n, bs, ts)
  BY <1>2, ExpressionCons
<1>4. w \in Seq(WorkItem)
  BY DEF Work, WorkInv
<1>5. <<Expression, Do(what)>> \o w = <<Expression>> \o (<<Do(what)>> \o w)
  BY <1>4, DoItems, Prepend2
<1> QED BY <1>3, <1>5

\* Two expressions or a target and an expression, and a task for both.
LEMMA ExpressionsTask ==
    ASSUME NEW w, NEW k \in Nat, NEW l, NEW t, NEW n, NEW bs, NEW ts,
           NEW what \in Tasks \ {"elements", "element", "arms", "arm"},
           Needs(what) = 2, l = k + Gives(what), Work(w, l, t, n, bs, ts)
    PROVE  /\ Work(<<Expression, Expression, Do(what)>> \o w, k, t, n, bs, ts)
           /\ Work(<<Target, Expression, Do(what)>> \o w, k, t, n, bs, ts)
<1>1. k + 1 \in Nat /\ k + 2 \in Nat /\ k + 2 >= 2 /\ l = (k + 2) - 2 + Gives(what)
        /\ (k + 1) + 1 = k + 2
  BY NeedsType
<1>2. Work(<<Do(what)>> \o w, k + 2, t, n, bs, ts)
  BY <1>1, TaskCons
<1>3. Work(<<Expression>> \o (<<Do(what)>> \o w), k + 1, t, n, bs, ts)
  BY <1>1, <1>2, ExpressionCons
<1>4. w \in Seq(WorkItem)
  BY DEF Work, WorkInv
<1>5. <<Expression, Do(what)>> \o w = <<Expression>> \o (<<Do(what)>> \o w)
  BY <1>4, DoItems, Prepend2
<1>6. /\ Work(<<Expression>> \o (<<Expression, Do(what)>> \o w), k, t, n, bs, ts)
      /\ Work(<<Target>> \o (<<Expression, Do(what)>> \o w), k, t, n, bs, ts)
  BY <1>3, <1>5, ExpressionCons
<1>7. <<Expression, Expression, Do(what)>> \o w
        = <<Expression>> \o (<<Expression, Do(what)>> \o w)
  BY <1>4, DoItems, Prepend3, SMTT(60)
<1>8. <<Target, Expression, Do(what)>> \o w
        = <<Target>> \o (<<Expression, Do(what)>> \o w)
  BY <1>4, DoItems, Prepend3, SMTT(60)
<1> QED BY <1>6, <1>7, <1>8

LEMMA LeafStep == ASSUME IInv, LowerLeaf PROVE IInv'
<1>1. PICK what \in {"expression", "target"} : Doing(what)
  BY DEF LowerLeaf, Opening
<1>2. PICK o \in {Constant} \cup {Variable(v) : v \in Names} : Return(0, <<>>, o)
  BY DEF LowerLeaf
<1>3. o \in Operand \ {None} /\ ~IsRegister(o)
  BY DEF Operand, Constant, Variable, None, IsRegister
<1>4. UNCHANGED <<TemporaryCounter, bases>>
  BY DEF LowerLeaf
<1> QED BY <1>1, <1>2, <1>3, <1>4, NeedsOf, ReturnStep

LEMMA OpenExpressionStep == ASSUME IInv, OpenExpression PROVE IInv'
<1>1. PICK what \in {"expression", "target"} : Doing(what)
  BY DEF OpenExpression, Opening
<1>2. /\ Len(operands) \in Nat /\ Tail(work) \in Seq(WorkItem)
      /\ Work(Tail(work), Len(operands) - 0 + 1, tape, TemporaryCounter, bases, targets)
  BY <1>1, NeedsOf, Resumed
<1>3. Work(Tail(work), Len(operands) + 1, tape, TemporaryCounter, bases, targets)
  BY <1>2
<1>4. UNCHANGED <<TemporaryCounter, bases, targets>>
  BY DEF OpenExpression, kept
<1>5. ASSUME NEW items, Open(items),
             Work(items \o Tail(work), Len(operands), tape, TemporaryCounter, bases, targets)
      PROVE  IInv'
  BY <1>4, <1>5, OpenStep DEF Open, Then
<1>6. \A k \in {"unary", "member", "MOVE", "COPY"} :
        Work(<<Expression, Do(k)>> \o Tail(work), Len(operands),
             tape, TemporaryCounter, bases, targets)
  <2> SUFFICES ASSUME NEW k \in {"unary", "member", "MOVE", "COPY"}
               PROVE  Work(<<Expression, Do(k)>> \o Tail(work), Len(operands),
                           tape, TemporaryCounter, bases, targets)
    OBVIOUS
  <2>1. k \in Tasks \ {"elements", "element", "arms", "arm"}
    BY DEF Tasks, OwnershipKinds
  <2>2. Needs(k) = 1 /\ Gives(k) = 1
    BY NeedsOf
  <2> QED BY <1>2, <1>3, <2>1, <2>2, ExpressionTask
<1>7. \A k \in {"binary", "index"} :
        Work(<<Expression, Expression, Do(k)>> \o Tail(work), Len(operands),
             tape, TemporaryCounter, bases, targets)
  <2> SUFFICES ASSUME NEW k \in {"binary", "index"}
               PROVE  Work(<<Expression, Expression, Do(k)>> \o Tail(work), Len(operands),
                           tape, TemporaryCounter, bases, targets)
    OBVIOUS
  <2>1. k \in Tasks \ {"elements", "element", "arms", "arm"}
    BY DEF Tasks
  <2>2. Needs(k) = 2 /\ Gives(k) = 1
    BY NeedsOf
  <2> QED BY <1>2, <1>3, <2>1, <2>2, ExpressionsTask
<1>8. Work(<<Do("arguments")>> \o Tail(work), Len(operands),
           tape, TemporaryCounter, bases, targets)
  <2>1. "arguments" \in Tasks \ {"elements", "element", "arms", "arm"}
    BY DEF Tasks
  <2>2. Needs("arguments") = 0 /\ Gives("arguments") = 1
    BY NeedsOf
  <2>3. Len(operands) >= 0 /\ Len(operands) + 1 = Len(operands) - 0 + 1
    BY <1>2
  <2> QED BY <1>2, <1>3, <2>1, <2>2, <2>3, TaskCons
<1>9. \E items \in {<<Expression, Expression, Do("binary")>>, <<Expression, Do("unary")>>,
                    <<Do("arguments")>>, <<Expression, Do("MOVE")>>, <<Expression, Do("COPY")>>,
                    <<Expression, Expression, Do("index")>>, <<Expression, Do("member")>>} :
        Open(items)
  BY DEF OpenExpression, OwnershipKinds
<1> QED BY <1>5, <1>6, <1>7, <1>8, <1>9

\* A second instruction that may read what the first has read or computed.
LEMMA TwoReads ==
    ASSUME NEW t \in Seq(Instruction), NEW a \in Instruction, NEW b \in Instruction, NEW r
    PROVE  /\ Computed(t, r) => Computed(Append(Append(t, a), b), r)
           /\ a.op # "STORE" /\ a.write = r => Computed(Append(Append(t, a), b), r)
           /\ Read(Append(Append(t, a), b), r) <=> Read(t, r) \/ Takes(a, r) \/ Takes(b, r)
<1>1. Append(t, a) \in Seq(Instruction)
  OBVIOUS
<1> QED BY <1>1, AppendReads

LEMMA ThreeItems ==
    ASSUME NEW w \in Seq(WorkItem), NEW a \in WorkItem, NEW b \in WorkItem, NEW c \in WorkItem
    PROVE  <<a, b, c>> \o w = <<a, b>> \o (<<c>> \o w)
<1>1. <<c>> \o w \in Seq(WorkItem)
  BY Cons
<1>2. <<a, b, c>> \o w = <<a>> \o (<<b, c>> \o w)
  BY Prepend3, SMTT(60)
<1>3. <<b, c>> \o w = <<b>> \o (<<c>> \o w)
  BY Prepend2
<1>4. <<a, b>> \o (<<c>> \o w) = <<a>> \o (<<b>> \o (<<c>> \o w))
  BY <1>1, Prepend2
<1> QED BY <1>2, <1>3, <1>4, Zenon

LEMMA MoveStep ==
    ASSUME IInv, Doing("MOVE"),
           Return(1, <<I("MOVE", Result, <<operands[1]>>),
                       I("FREE", None, <<operands[1]>>)>>, Result),
           NewTemporary, UNCHANGED bases
    PROVE  IInv'
<1> DEFINE n == TemporaryCounter
           o == operands[1]
           a == I("MOVE", Register(n), <<o>>)
           b == I("FREE", None, <<o>>)
           u == Append(tape, a)
           v == Append(u, b)
           rest == SubSeq(operands, 1 + 1, Len(operands))
           R == Register(n)
<1>1. /\ Now(operands, work) /\ Tail(work) \in Seq(WorkItem)
      /\ n \in Nat /\ n + 1 \in Nat /\ n <= n + 1 /\ n + 1 > n /\ n + 1 <= n + 1
      /\ tape \in Seq(Instruction) /\ Len(operands) \in Nat /\ Len(operands) >= 1
      /\ Work(Tail(work), Len(operands) - 1 + 1, tape, n, bases, targets)
  <2>1. Needs("MOVE") = 1 /\ Gives("MOVE") = 1
    BY NeedsOf
  <2>2. /\ Now(operands, work) /\ Tail(work) \in Seq(WorkItem)
        /\ n \in Nat /\ tape \in Seq(Instruction) /\ Len(operands) \in Nat
        /\ Len(operands) >= Needs("MOVE")
        /\ Work(Tail(work), Len(operands) - Needs("MOVE") + Gives("MOVE"),
                tape, n, bases, targets)
    BY Resumed
  <2> QED BY <2>1, <2>2
<1>2. 1 \in 0..Len(operands) /\ 1 \in 1..Len(operands)
  BY <1>1
<1>3. TapeInv(tape, n, bases, targets) /\ Ready(o, tape, n, bases, targets)
  BY <1>1, <1>2 DEF Now, Good, OperandsInv
<1>4. o \in Operand /\ Readable(o, tape, n, bases, targets) /\ o # R
  BY <1>1, <1>3, ReadyReadable DEF Ready
<1>5. R \in Operand /\ R # None /\ R.of = n /\ ~Read(tape, R)
  <2>1. R \in Operand /\ ~Read(tape, R)
    BY <1>3, NextUnread
  <2> QED BY <2>1 DEF Register, None
<1>6. /\ a \in Instruction /\ a.op = "MOVE" /\ a.write = R
      /\ b \in Instruction /\ b.op = "FREE" /\ b.write = None
  <2>1. "MOVE" \in SSOp /\ "FREE" \in SSOp
    BY DEF SSOp
  <2>2. <<o>> \in Seq(Operand) /\ None \in Operand
    BY <1>4 DEF Operand
  <2> DEFINE x == <<o>>
  <2>3. a = I("MOVE", R, x) /\ b = I("FREE", None, x)
    OBVIOUS
  <2>4. x \in Seq(Operand)
    BY <2>2
  <2> HIDE DEF a, b, R, x
  <2>5. a \in Instruction /\ a.op = "MOVE" /\ a.write = R
    BY <1>5, <2>1, <2>3, <2>4, InstructionType
  <2>6. b \in Instruction /\ b.op = "FREE" /\ b.write = None
    BY <2>1, <2>2, <2>3, <2>4, InstructionType
  <2> QED BY <2>5, <2>6
<1>7. \A r : (Takes(a, r) => r = o) /\ (Takes(b, r) => r = o)
  BY DEF Takes, I
<1> HIDE DEF a, b, o, R
<1>8. Emits(a, tape, n, n + 1, bases, targets)
  <2>1. \A r : Takes(a, r) => Readable(r, tape, n, bases, targets)
    BY <1>4, <1>7
  <2>2. a.write = Register(n)
    BY <1>6 DEF R
  <2> QED BY <1>1, <1>6, <2>1, <2>2, EmitsReads
<1>9. TapeInv(u, n + 1, bases, targets)
  BY <1>3, <1>8, AppendInv
<1>10. /\ u \in Seq(Instruction) /\ Len(u) = Len(tape) + 1 /\ Len(tape) \in Nat
       /\ \A i \in 1..Len(tape) : u[i] = tape[i]
       /\ u[Len(tape) + 1] = a
       /\ \A i \in 1..Len(u) : i \in 1..Len(tape) \/ i = Len(tape) + 1
  BY <1>1, <1>6, AppendTape
<1>11. Computed(tape, o) => Computed(u, o)
  BY <1>1, <1>6, AppendReads
<1> HIDE DEF u
<1>12. Emits(b, u, n + 1, n + 1, bases, targets)
  <2>1. ASSUME NEW r \in Operand, Takes(b, r), IsRegister(r)
        PROVE  /\ r.of < n + 1 /\ (r \in bases \/ Computed(u, r))
               /\ r \notin bases \cup targets =>
                    \A i \in 1..Len(u) : Takes(u[i], r) => u[i].op = "MOVE" /\ i = Len(u)
    <3>1. r = o
      BY <1>7, <2>1
    <3>2. Available(o, u, n + 1, bases)
      BY <1>1, <1>4, <1>11, AvailableStays DEF Readable
    <3>3. ASSUME r \notin bases \cup targets, NEW i \in 1..Len(u), Takes(u[i], r)
          PROVE  u[i].op = "MOVE" /\ i = Len(u)
      <4>1. ~Read(tape, r)
        BY <1>4, <2>1, <3>1, <3>3 DEF Readable
      <4>2. i \notin 1..Len(tape)
        BY <1>10, <3>3, <4>1 DEF Read
      <4> QED BY <1>6, <1>10, <4>2
    <3> QED BY <2>1, <3>1, <3>2, <3>3 DEF Available
  <2>2. ~IsRegister(b.write)
    BY <1>6 DEF None, IsRegister
  <2> QED BY <1>1, <1>6, <2>1, <2>2 DEF Emits
<1>13. TapeInv(v, n + 1, bases, targets)
  BY <1>9, <1>12, AppendInv
<1>14. /\ \A r : Computed(tape, r) => Computed(v, r)
       /\ Computed(v, R) /\ ~Read(v, R)
       /\ \A r : Read(v, r) => Read(tape, r) \/ r = o
  <2>1. v = Append(Append(tape, a), b)
    BY DEF u
  <2> HIDE DEF v
  <2>2. \A r : Read(v, r) <=> Read(tape, r) \/ Takes(a, r) \/ Takes(b, r)
    BY <1>1, <1>6, <2>1, TwoReads
  <2>3. \A r : Computed(tape, r) => Computed(v, r)
    BY <1>1, <1>6, <2>1, TwoReads
  <2>4. Computed(v, R)
    <3>1. a.op # "STORE"
      BY <1>6
    <3> QED BY <1>1, <1>6, <2>1, <3>1, TwoReads
  <2> QED BY <1>4, <1>5, <1>7, <2>2, <2>3, <2>4
<1> HIDE DEF v
<1>15. /\ OperandsInv(rest, v, n + 1, bases, targets)
       /\ Len(rest) = Len(operands) - 1
       /\ HistoryInv(n + 1, bases, targets)
       /\ Work(Tail(work), Len(operands) - 1 + 1, v, n + 1, bases, targets)
  <2>1. \A r : Read(v, r) => \/ Read(tape, r) \/ r \in bases \cup targets \/ r = Register(n)
                             \/ \E i \in 1..1 : operands[i] = r
    BY <1>14 DEF o
  <2>2. \A r : Computed(tape, r) => Computed(v, r)
    BY <1>14
  <2> QED BY <1>1, <1>2, <1>13, <2>1, <2>2, AfterEmit DEF Now
<1>16. Ready(R, v, n + 1, bases, targets)
  BY <1>1, <1>5, <1>14 DEF Ready, Available
<1>17. ASSUME NEW i \in 1..Len(rest) PROVE rest[i] # R
  <2>1. rest[i] = operands[i + 1] /\ i + 1 \in 1..Len(operands)
    BY <1>1, <1>2, <1>15, Rest DEF Now, Good, OperandsInv
  <2>2. Ready(rest[i], tape, n, bases, targets)
    BY <1>1, <2>1 DEF Now, Good, OperandsInv
  <2> QED BY <1>1, <2>2, ReadyReadable DEF R
<1>18. /\ tape' = v /\ work' = Tail(work) /\ operands' = <<R>> \o rest
       /\ TemporaryCounter' = n + 1 /\ UNCHANGED <<bases, targets>>
  <2>1. tape' = tape \o <<a, b>> /\ work' = <<>> \o Tail(work)
    BY DEF Return, Emit, Then, a, b, o, Result
  <2>2. tape \o <<a, b>> = v
    BY <1>1, <1>6, EmitOne DEF v, u
  <2>3. <<>> \o Tail(work) = Tail(work)
    BY <1>1, NothingThen
  <2> QED BY <2>1, <2>2, <2>3 DEF Return, Without, NewTemporary, R, Result
<1> HIDE DEF rest
<1>19. OperandsInv(<<R>> \o rest, v, n + 1, bases, targets)
  BY <1>15, <1>16, <1>17, OperandsCons
<1>20. Len(<<R>> \o rest) = Len(operands) - 1 + 1
  <2>1. rest \in Seq(Operand \ {None}) /\ R \in Operand \ {None}
    BY <1>15, <1>16 DEF OperandsInv, Ready
  <2> QED BY <1>15, <2>1, Cons
<1>21. Good(v, n + 1, bases, targets, <<R>> \o rest, Tail(work))
  BY <1>13, <1>15, <1>19, <1>20 DEF Good
<1>22. Now(operands, work)'
  BY <1>18, <1>21 DEF Now
<1> QED BY <1>22, InvGood, PTL

LEMMA OwnershipStep == ASSUME IInv, LowerOwnership PROVE IInv'
<1>1. CASE Doing("COPY") /\ Compute(1, "COPY", <<operands[1]>>)
  <2>1. "COPY" \in SSOp \ {"STORE"}
    BY DEF SSOp
  <2>2. Needs("COPY") = 1 /\ Gives("COPY") = 1
    BY NeedsOf
  <2> QED BY <1>1, <2>1, <2>2, Compute1Step
<1> QED BY <1>1, MoveStep DEF LowerOwnership

LEMMA FinishOneStep ==
    ASSUME IInv, NEW what, Doing(what), Needs(what) = 1, Gives(what) = 0,
           NEW op \in SSOp, NEW write \in Operand, op = "STORE" \/ ~IsRegister(write),
           Finish(1, <<I(op, write, <<operands[1]>>)>>)
    PROVE  IInv'
<1> DEFINE read == <<operands[1]>>
           ins == I(op, write, read)
<1>1. read \in Seq(Operand)
  BY Reading
<1>2. ASSUME NEW r, Takes(ins, r) PROVE \E i \in 1..1 : operands[i] = r
  BY <1>2 DEF Takes, I
<1>3. Finish(1, <<ins>>)
  OBVIOUS
<1> HIDE DEF read
<1>4. ins \in Instruction /\ ins.op = op /\ ins.write = write
  BY <1>1, InstructionType
<1> HIDE DEF ins
<1> QED BY <1>2, <1>3, <1>4, FinishStep

LEMMA NoneWritten == None \in Operand /\ ~IsRegister(None)
  BY DEF None, Operand, IsRegister

LEMMA CallStep == ASSUME IInv, LowerCall PROVE IInv'
<1>1. CASE /\ Doing("arguments")
           /\ \/ Open(<<Expression, Do("argument"), Do("arguments")>>)
              \/ Then(<<Expression, Do("call")>>) /\ UNCHANGED <<tape, operands, nodes>>
           /\ UNCHANGED <<TemporaryCounter, kept>>
  <2>1. Needs("arguments") = 0 /\ Gives("arguments") = 1
    BY NeedsOf
  <2>2. /\ Len(operands) \in Nat /\ Tail(work) \in Seq(WorkItem)
        /\ Work(Tail(work), Len(operands) - 0 + 1, tape, TemporaryCounter, bases, targets)
    BY <1>1, <2>1, Resumed
  <2>3. Work(Tail(work), Len(operands) + 1, tape, TemporaryCounter, bases, targets)
    BY <2>2
  <2>4. {"arguments", "argument", "call"} \subseteq Tasks \ {"elements", "element", "arms", "arm"}
    BY DEF Tasks
  <2>5. Needs("argument") = 1 /\ Gives("argument") = 0 /\ Needs("call") = 1 /\ Gives("call") = 1
    BY NeedsOf
  <2>6. Work(<<Do("arguments")>> \o Tail(work), Len(operands),
             tape, TemporaryCounter, bases, targets)
    <3>1. Len(operands) >= 0 /\ Len(operands) + 1 = Len(operands) - 0 + 1
      BY <2>2
    <3> QED BY <2>1, <2>2, <2>3, <2>4, <3>1, TaskCons
  <2>7. Work(<<Expression, Do("argument")>> \o (<<Do("arguments")>> \o Tail(work)),
             Len(operands), tape, TemporaryCounter, bases, targets)
    <3>1. Len(operands) = Len(operands) + 0
      BY <2>2
    <3> QED BY <2>2, <2>4, <2>5, <2>6, <3>1, ExpressionTask
  <2>8. <<Expression, Do("argument"), Do("arguments")>> \o Tail(work)
          = <<Expression, Do("argument")>> \o (<<Do("arguments")>> \o Tail(work))
    <3>1. /\ Do("argument") \in WorkItem /\ Do("arguments") \in WorkItem
          /\ Expression \in WorkItem
      BY <2>4, DoItems
    <3> QED BY <2>2, <3>1, ThreeItems, SMTT(60)
  <2>9. Work(<<Expression, Do("call")>> \o Tail(work), Len(operands),
             tape, TemporaryCounter, bases, targets)
    BY <2>2, <2>3, <2>4, <2>5, ExpressionTask
  <2>10. CASE Open(<<Expression, Do("argument"), Do("arguments")>>)
    BY <1>1, <2>7, <2>8, <2>10, OpenStep DEF Open, Then, kept
  <2>11. CASE Then(<<Expression, Do("call")>>) /\ UNCHANGED <<tape, operands, nodes>>
    BY <1>1, <2>9, <2>11, OpenStep DEF Then, kept
  <2> QED BY <1>1, <2>10, <2>11
<1>2. CASE Doing("argument") /\ Finish(1, <<I("ARG", None, <<operands[1]>>)>>)
  <2>1. "ARG" \in SSOp
    BY DEF SSOp
  <2>2. Needs("argument") = 1 /\ Gives("argument") = 0
    BY NeedsOf
  <2> QED BY <1>2, <2>1, <2>2, NoneWritten, FinishOneStep
<1>3. CASE /\ Doing("call")
           /\ Compute(1, IF operands[1].type = "variable" THEN "CALL" ELSE "CALL_INDIRECT",
                      <<operands[1]>>)
  <2>1. (IF operands[1].type = "variable" THEN "CALL" ELSE "CALL_INDIRECT")
          \in SSOp \ {"STORE"}
    BY DEF SSOp
  <2>2. Needs("call") = 1 /\ Gives("call") = 1
    BY NeedsOf
  <2> QED BY <1>3, <2>1, <2>2, Compute1Step
<1> QED BY <1>1, <1>2, <1>3 DEF LowerCall

\* The same with a task of its own behind the expression.
LEMMA ExpressionItem ==
    ASSUME NEW w, NEW k \in Nat, NEW t, NEW n, NEW bs, NEW ts, NEW item,
           ItemInv(item, t, n, bs, ts), Needs(item.do) = 1, Gives(item.do) = 0,
           Work(w, k, t, n, bs, ts)
    PROVE  Work(<<Expression, item>> \o w, k, t, n, bs, ts)
<1>1. k + 1 \in Nat /\ k + 1 >= 1 /\ k = (k + 1) - 1 + 0
  OBVIOUS
<1>2. Work(<<item>> \o w, k + 1, t, n, bs, ts)
  BY <1>1, ItemCons
<1>3. Work(<<Expression>> \o (<<item>> \o w), k, t, n, bs, ts)
  BY <1>2, ExpressionCons
<1>4. w \in Seq(WorkItem) /\ item \in WorkItem
  BY DEF Work, WorkInv, ItemInv
<1>5. <<Expression, item>> \o w = <<Expression>> \o (<<item>> \o w)
  BY <1>4, DoItems, Prepend2
<1> QED BY <1>3, <1>5

\* An array takes its register before anything writes it.
LEMMA ArrayStep ==
    ASSUME IInv, NEW what \in {"expression", "target"}, Doing(what),
           Open(<<Item("elements", Result)>>), NewTemporary,
           bases' = bases \cup {Result}, UNCHANGED targets
    PROVE  IInv'
<1> DEFINE n == TemporaryCounter
           R == Register(n)
           bs == bases \cup {R}
           item == Item("elements", R)
           w == <<item>> \o Tail(work)
<1>1. /\ Now(operands, work) /\ Tail(work) \in Seq(WorkItem) /\ n \in Nat
      /\ Len(operands) \in Nat
      /\ Work(Tail(work), Len(operands) - 0 + 1, tape, n, bases, targets)
  <2>1. Needs(what) = 0 /\ Gives(what) = 1
    BY NeedsOf
  <2> QED BY <2>1, Resumed
<1>2. n + 1 \in Nat /\ n <= n + 1 /\ Len(operands) - 0 + 1 = Len(operands) + 1
  BY <1>1
<1>3. R \in Operand /\ R # None /\ IsRegister(R) /\ R.of = n
  BY <1>1 DEF Register, Operand, None, IsRegister
<1>4. /\ operands' = operands /\ tape' = tape /\ targets' = targets
      /\ TemporaryCounter' = n + 1 /\ bases' = bs /\ work' = w
  BY DEF Open, Then, NewTemporary, Result
<1>5. item \in WorkItem /\ item.do = "elements" /\ item.at = R
  BY <1>3 DEF item, Item, WorkItem, Tasks
<1> HIDE DEF R, item
<1>6. TapeInv(tape, n + 1, bs, targets)
  BY <1>1, <1>2, TapeStays DEF Now, Good
<1>7. OperandsInv(operands, tape, n + 1, bs, targets)
  <2>1. operands \in Seq(Operand \ {None}) /\ 0 \in 0..Len(operands)
    BY <1>1 DEF Now, Good, OperandsInv
  <2>2. OperandsInv(SubSeq(operands, 0 + 1, Len(operands)), tape, n + 1, bs, targets)
    BY <1>1, <1>2, <2>1, OperandsStay DEF Now, Good
  <2>3. SubSeq(operands, 0 + 1, Len(operands)) = operands
    BY <2>1, WithoutNone
  <2> QED BY <2>2, <2>3
<1>8. HistoryInv(n + 1, bs, targets)
  <2>1. HistoryInv(n + 1, bases, targets)
    BY <1>1, <1>2, HistoryStays DEF Now, Good
  <2> QED BY <1>1, <1>2, <1>3, <2>1 DEF HistoryInv
<1>9. Work(w, Len(operands), tape, n + 1, bs, targets)
  <2>1. Work(Tail(work), Len(operands) + 1, tape, n, bases, targets)
    BY <1>1, <1>2
  <2>2. Work(Tail(work), Len(operands) + 1, tape, n + 1, bs, targets)
    BY <1>1, <1>2, <2>1, WorkStays
  <2>3. ItemInv(item, tape, n + 1, bs, targets)
    BY <1>5 DEF ItemInv
  <2>4. Needs(item.do) = 0 /\ Gives(item.do) = 1
    BY <1>5, NeedsOf
  <2>5. Len(operands) >= 0
    BY <1>1
  <2> QED BY <1>1, <1>2, <2>2, <2>3, <2>4, <2>5, ItemCons
<1> HIDE DEF w, bs
<1>10. Good(tape, n + 1, bs, targets, operands, w)
  BY <1>6, <1>7, <1>8, <1>9 DEF Good
<1>11. Now(operands, work)'
  BY <1>4, <1>10 DEF Now
<1> QED BY <1>11, InvGood, PTL

LEMMA ArrayExpressionStep == ASSUME IInv, LowerArrayExpression PROVE IInv'
<1>1. CASE /\ Opening
           /\ Open(<<Item("elements", Result)>>)
           /\ NewTemporary
           /\ bases' = bases \cup {Result} /\ UNCHANGED targets
  <2>1. PICK what \in {"expression", "target"} : Doing(what)
    BY <1>1 DEF Opening
  <2> QED BY <1>1, <2>1, ArrayStep
<1>2. ASSUME Doing("elements")
      PROVE  /\ Len(operands) \in Nat /\ Tail(work) \in Seq(WorkItem)
             /\ Head(work).do = "elements" /\ Head(work) \in WorkItem
             /\ ItemInv(Head(work), tape, TemporaryCounter, bases, targets)
             /\ Head(work).at \in bases /\ Head(work).at \in Operand \ {None}
             /\ Work(Tail(work), Len(operands) + 1, tape, TemporaryCounter, bases, targets)
  <2>1. Needs("elements") = 0 /\ Gives("elements") = 1
    BY NeedsOf
  <2>2. /\ Len(operands) \in Nat /\ Tail(work) \in Seq(WorkItem) /\ Now(operands, work)
        /\ Head(work).do = "elements"
        /\ ItemInv(Head(work), tape, TemporaryCounter, bases, targets)
        /\ Work(Tail(work), Len(operands) - 0 + 1, tape, TemporaryCounter, bases, targets)
    BY <1>2, <2>1, Resumed
  <2>3. Len(operands) - 0 + 1 = Len(operands) + 1
    BY <2>2
  <2>4. Head(work).at \in bases /\ Head(work) \in WorkItem
    BY <2>2 DEF ItemInv
  <2>5. Head(work).at \in Operand \ {None}
    BY <2>2, <2>4 DEF Now, Good, HistoryInv, IsRegister, None
  <2> QED BY <2>2, <2>3, <2>4, <2>5
<1>3. CASE /\ Doing("elements")
           /\ Open(<<Expression, Item("element", Head(work).at), Head(work)>>)
           /\ UNCHANGED <<TemporaryCounter, kept>>
  <2> DEFINE item == Item("element", Head(work).at)
             head == Head(work)
             tail == Tail(work)
  <2>1. item \in WorkItem /\ item.do = "element" /\ item.at \in bases
    BY <1>2, <1>3 DEF Item, WorkItem, Tasks
  <2>2. ItemInv(item, tape, TemporaryCounter, bases, targets)
    BY <2>1 DEF ItemInv
  <2>3. Needs(item.do) = 1 /\ Gives(item.do) = 0
    BY <2>1, NeedsOf
  <2>4. Needs(head.do) = 0 /\ Gives(head.do) = 1
    BY <1>2, <1>3, NeedsOf
  <2>5. /\ Len(operands) \in Nat /\ head \in WorkItem /\ tail \in Seq(WorkItem)
        /\ ItemInv(head, tape, TemporaryCounter, bases, targets)
        /\ Work(tail, Len(operands) + 1, tape, TemporaryCounter, bases, targets)
    BY <1>2, <1>3
  <2>6. work' = <<Expression, item, head>> \o tail
          /\ UNCHANGED <<tape, TemporaryCounter, operands, bases, targets>>
    BY <1>3 DEF Open, Then, kept
  <2> HIDE DEF item, head, tail
  <2>7. Work(<<head>> \o tail, Len(operands), tape, TemporaryCounter, bases, targets)
    <3>1. Len(operands) >= 0 /\ Len(operands) + 1 = Len(operands) - 0 + 1
      BY <2>5
    <3> QED BY <2>4, <2>5, <3>1, ItemCons
  <2>8. Work(<<Expression, item>> \o (<<head>> \o tail), Len(operands),
             tape, TemporaryCounter, bases, targets)
    BY <2>2, <2>3, <2>5, <2>7, ExpressionItem
  <2>9. <<Expression, item, head>> \o tail = <<Expression, item>> \o (<<head>> \o tail)
    BY <2>1, <2>5, DoItems, ThreeItems, SMTT(60)
  <2> QED BY <2>6, <2>8, <2>9, OpenStep
<1>4. CASE /\ Doing("elements") /\ Return(0, <<>>, Head(work).at)
           /\ UNCHANGED <<TemporaryCounter, bases>>
  <2>1. Needs("elements") = 0 /\ Gives("elements") = 1
    BY NeedsOf
  <2> QED BY <1>2, <1>4, <2>1, ReturnStep
<1>5. CASE /\ Doing("element")
           /\ Finish(1, <<I("STORE_MEM", None, <<Head(work).at, operands[1]>>)>>)
  <2> DEFINE base == Head(work).at
             ins == I("STORE_MEM", None, <<base, operands[1]>>)
  <2>1. Needs("element") = 1 /\ Gives("element") = 0
    BY NeedsOf
  <2>2. base \in bases /\ base \in Operand
        /\ Available(base, tape, TemporaryCounter, bases)
    <3>1. Now(operands, work) /\ Head(work).do = "element"
            /\ ItemInv(Head(work), tape, TemporaryCounter, bases, targets)
      BY <1>5, Resumed
    <3>2. Head(work).at \in bases
      BY <3>1 DEF ItemInv
    <3> QED BY <3>1, <3>2 DEF Now, Good, HistoryInv, Available
  <2>3. operands[1] \in Operand
    BY <1>5, <2>1, Reading
  <2> HIDE DEF base
  <2>4. ins \in Instruction /\ ins.write = None
    <3> DEFINE read == <<base, operands[1]>>
    <3>1. "STORE_MEM" \in SSOp /\ read \in Seq(Operand) /\ ins = I("STORE_MEM", None, read)
      BY <2>2, <2>3 DEF SSOp
    <3> HIDE DEF read, ins
    <3> QED BY <3>1, NoneWritten, InstructionType
  <2>5. ASSUME NEW r, Takes(ins, r) PROVE r = base \/ r = operands[1]
    BY <2>5 DEF Takes, I
  <2>6. Readable(base, tape, TemporaryCounter, bases, targets)
    BY <2>2 DEF Readable
  <2>7. Finish(1, <<ins>>)
    BY <1>5 DEF base
  <2> HIDE DEF ins
  <2>8. ASSUME NEW r, Takes(ins, r)
        PROVE  \/ \E i \in 1..1 : operands[i] = r
               \/ /\ r \in bases \cup targets
                  /\ Readable(r, tape, TemporaryCounter, bases, targets)
    BY <2>2, <2>5, <2>6, <2>8
  <2> QED BY <1>5, <2>1, <2>4, <2>7, <2>8, NoneWritten, FinishStep
<1> QED BY <1>1, <1>3, <1>4, <1>5 DEF LowerArrayExpression

-----------------------------------------------------------------------------
(* The statements *)

LEMMA OpenStatementStep == ASSUME IInv, OpenStatement PROVE IInv'
<1> DEFINE Waits(w) == Work(w, Len(operands), tape, TemporaryCounter, bases, targets)
           k == Len(operands)
<1>1. k \in Nat /\ Waits(work) /\ work \in Seq(WorkItem)
  BY InvGood DEF Now, Good, Work, WorkInv, OperandsInv
<1>2. UNCHANGED <<tape, TemporaryCounter, operands, bases, targets>>
  BY DEF OpenStatement, kept
<1>3. {"test", "drop", "match", "assign", "assign_member", "assign_index"}
        \subseteq Tasks \ {"elements", "element", "arms", "arm"}
  BY DEF Tasks
<1>4. k + 0 = k /\ k = k + 0
  BY <1>1
<1>5. ASSUME NEW what \in {"test", "drop", "match"}
      PROVE  Waits(<<Expression, Do(what)>> \o work)
  <2>1. Needs(what) = 1 /\ Gives(what) = 0
    BY NeedsOf
  <2>2. what \in Tasks \ {"elements", "element", "arms", "arm"}
    BY <1>3
  <2> QED BY <1>1, <1>4, <2>1, <2>2, ExpressionTask
<1>6. Waits(<<Target, Expression, Do("assign")>> \o work)
  <2>1. Needs("assign") = 2 /\ Gives("assign") = 0
    BY NeedsOf
  <2> QED BY <1>1, <1>3, <1>4, <2>1, ExpressionsTask
<1>7. Waits(<<Expression, Expression, Do("assign_member")>> \o work)
  <2>1. Needs("assign_member") = 2 /\ Gives("assign_member") = 0
    BY NeedsOf
  <2> QED BY <1>1, <1>3, <1>4, <2>1, ExpressionsTask
<1>8. Waits(<<Expression, Expression, Expression, Do("assign_index")>> \o work)
  <2> DEFINE task == Do("assign_index")
  <2>1. /\ k + 1 \in Nat /\ k + 2 \in Nat /\ k + 3 \in Nat /\ k + 3 >= 3
        /\ (k + 2) + 1 = k + 3 /\ (k + 1) + 1 = k + 2 /\ k = (k + 3) - 3 + 0
    BY <1>1
  <2>2. Needs("assign_index") = 3 /\ Gives("assign_index") = 0
    BY NeedsOf
  <2>3. Work(<<task>> \o work, k + 3, tape, TemporaryCounter, bases, targets)
    BY <1>1, <1>3, <2>1, <2>2, TaskCons
  <2>4. task \in WorkItem /\ Expression \in WorkItem
    BY <1>3, DoItems
  <2> HIDE DEF task
  <2>5. Work(<<Expression>> \o (<<task>> \o work), k + 2,
             tape, TemporaryCounter, bases, targets)
    BY <2>1, <2>3, ExpressionCons
  <2>6. <<Expression, task>> \o work = <<Expression>> \o (<<task>> \o work)
    BY <1>1, <2>4, Prepend2
  <2>7. Work(<<Expression>> \o (<<Expression, task>> \o work), k + 1,
             tape, TemporaryCounter, bases, targets)
    BY <2>1, <2>5, <2>6, ExpressionCons
  <2>8. <<Expression, Expression, task>> \o work
          = <<Expression>> \o (<<Expression, task>> \o work)
    BY <1>1, <2>4, Prepend3, SMTT(60)
  <2>9. Work(<<Expression>> \o (<<Expression, Expression, task>> \o work), k,
             tape, TemporaryCounter, bases, targets)
    BY <1>1, <2>1, <2>7, <2>8, ExpressionCons
  <2>10. <<Expression, Expression, Expression, task>> \o work
           = <<Expression>> \o (<<Expression, Expression, task>> \o work)
    BY <1>1, <2>4, Prepend4, SMTT(60)
  <2> QED BY <2>9, <2>10 DEF task
<1>9. ASSUME NEW v \in Names
      PROVE  Waits(<<Expression, Item("declare", Variable(v))>> \o work)
  <2> DEFINE item == Item("declare", Variable(v))
  <2>1. "declare" \in Tasks \ {"elements", "element", "arms", "arm"} /\ Variable(v) \in Operand
    BY DEF Tasks, Operand, Variable
  <2>2. ItemInv(item, tape, TemporaryCounter, bases, targets)
    BY <2>1, Plain
  <2>3. Needs(item.do) = 1 /\ Gives(item.do) = 0
    BY NeedsOf DEF Item
  <2> HIDE DEF item
  <2>4. Work(<<Expression, item>> \o work, k, tape, TemporaryCounter, bases, targets)
    BY <1>1, <2>2, <2>3, ExpressionItem
  <2> QED BY <2>4 DEF item
<1> HIDE DEF Waits
<1>10. PICK items \in {<<Expression, Do(what)>> : what \in {"test", "drop", "match"}}
            \cup {<<Target, Expression, Do("assign")>>,
                  <<Expression, Expression, Do("assign_member")>>,
                  <<Expression, Expression, Expression, Do("assign_index")>>}
            \cup {<<Expression, Item("declare", Variable(v))>> : v \in Names} :
          work' = items \o work
  BY DEF OpenStatement
<1>11. Waits(items \o work)
  BY <1>5, <1>6, <1>7, <1>8, <1>9
<1> QED BY <1>2, <1>10, <1>11, OpenStep DEF Waits

LEMMA DeclarationStep == ASSUME IInv, LowerVariableDeclaration PROVE IInv'
<1>1. Needs("declare") = 1 /\ Gives("declare") = 0
  BY NeedsOf
<1>2. Doing("declare") /\ Finish(1, <<I("STORE", Head(work).at, <<operands[1]>>)>>)
  BY DEF LowerVariableDeclaration
<1>3. Head(work).at \in Operand
  <2>1. ItemInv(Head(work), tape, TemporaryCounter, bases, targets)
    BY <1>2, Resumed
  <2> QED BY <2>1 DEF ItemInv, WorkItem
<1>4. "STORE" \in SSOp
  BY DEF SSOp
<1> QED BY <1>1, <1>2, <1>3, <1>4, FinishOneStep

LEMMA AssignStep == ASSUME IInv, LowerAssign PROVE IInv'
<1>1. CASE Doing("assign") /\ Finish(2, <<I("STORE", operands[2], <<operands[1]>>)>>)
  <2> DEFINE read == <<operands[1]>>
             ins == I("STORE", operands[2], read)
  <2>1. Needs("assign") = 2 /\ Gives("assign") = 0
    BY NeedsOf
  <2>2. operands[1] \in Operand /\ operands[2] \in Operand
    BY <1>1, <2>1, Reading
  <2>3. read \in Seq(Operand) /\ "STORE" \in SSOp
    BY <2>2 DEF SSOp
  <2>4. \A r : Takes(ins, r) => \E i \in 1..2 : operands[i] = r
    BY DEF Takes, I
  <2>5. Finish(2, <<ins>>)
    BY <1>1
  <2> HIDE DEF read
  <2>6. ins \in Instruction /\ ins.op = "STORE"
    BY <2>2, <2>3, InstructionType
  <2> HIDE DEF ins
  <2> QED BY <1>1, <2>1, <2>4, <2>5, <2>6, FinishStep
<1>2. CASE /\ Doing("assign_member")
           /\ Finish(2, <<I("STORE_MEM", None, <<operands[2], operands[1]>>)>>)
  <2> DEFINE read == <<operands[2], operands[1]>>
             ins == I("STORE_MEM", None, read)
  <2>1. Needs("assign_member") = 2 /\ Gives("assign_member") = 0
    BY NeedsOf
  <2>2. operands[1] \in Operand /\ operands[2] \in Operand
    BY <1>2, <2>1, Reading
  <2>3. read \in Seq(Operand) /\ "STORE_MEM" \in SSOp
    BY <2>2 DEF SSOp
  <2>4. \A r : Takes(ins, r) => \E i \in 1..2 : operands[i] = r
    BY DEF Takes, I
  <2>5. Finish(2, <<ins>>)
    BY <1>2
  <2> HIDE DEF read
  <2>6. ins \in Instruction /\ ins.write = None
    BY <2>3, NoneWritten, InstructionType
  <2> HIDE DEF ins
  <2> QED BY <1>2, <2>1, <2>4, <2>5, <2>6, NoneWritten, FinishStep
<1>3. CASE /\ Doing("assign_index")
           /\ Finish(3, <<I("STORE_MEM", None, <<operands[3], operands[1], operands[2]>>)>>)
  <2> DEFINE read == <<operands[3], operands[1], operands[2]>>
             ins == I("STORE_MEM", None, read)
  <2>1. Needs("assign_index") = 3 /\ Gives("assign_index") = 0
    BY NeedsOf
  <2>2. operands[1] \in Operand /\ operands[2] \in Operand /\ operands[3] \in Operand
    BY <1>3, <2>1, Reading
  <2>3. read \in Seq(Operand) /\ "STORE_MEM" \in SSOp
    BY <2>2 DEF SSOp
  <2>4. \A r : Takes(ins, r) => \E i \in 1..3 : operands[i] = r
    BY DEF Takes, I
  <2>5. Finish(3, <<ins>>)
    BY <1>3
  <2> HIDE DEF read
  <2>6. ins \in Instruction /\ ins.write = None
    BY <2>3, NoneWritten, InstructionType
  <2> HIDE DEF ins
  <2> QED BY <1>3, <2>1, <2>4, <2>5, <2>6, NoneWritten, FinishStep
<1> QED BY <1>1, <1>2, <1>3 DEF LowerAssign

\* An activation ends without an instruction, and its operands are dropped.
LEMMA DropStep ==
    ASSUME IInv, NEW what, Doing(what), NEW q, Needs(what) = q, Gives(what) = 0,
           Finish(q, <<>>)
    PROVE  IInv'
<1> DEFINE n == TemporaryCounter
           rest == SubSeq(operands, q + 1, Len(operands))
<1>1. /\ Now(operands, work) /\ Tail(work) \in Seq(WorkItem)
      /\ n \in Nat /\ tape \in Seq(Instruction)
      /\ Len(operands) \in Nat /\ Len(operands) >= q
      /\ Work(Tail(work), Len(operands) - q + 0, tape, n, bases, targets)
  BY Resumed
<1>2. q \in 0..Len(operands) /\ Len(operands) - q + 0 = Len(operands) - q /\ n <= n
  BY <1>1, NeedsType
<1>3. TapeInv(tape, n, bases, targets)
  BY <1>1 DEF Now, Good
<1>4. /\ OperandsInv(rest, tape, n, bases, targets) /\ Len(rest) = Len(operands) - q
      /\ HistoryInv(n, bases, targets)
      /\ Work(Tail(work), Len(operands) - q, tape, n, bases, targets)
  <2>1. Work(Tail(work), Len(operands) - q, tape, n, bases, targets)
    BY <1>1, <1>2
  <2>2. OperandsInv(rest, tape, n, bases, targets)
    BY <1>1, <1>2, OperandsStay DEF Now, Good
  <2>3. Len(rest) = Len(operands) - q
    BY <1>1, <1>2, Rest DEF Now, Good, OperandsInv
  <2>4. HistoryInv(n, bases, targets)
    BY <1>1 DEF Now, Good
  <2> QED BY <2>1, <2>2, <2>3, <2>4
<1>5. /\ tape' = tape \o <<>> /\ work' = <<>> \o Tail(work) /\ operands' = rest
      /\ UNCHANGED <<TemporaryCounter, bases, targets>>
  BY DEF Finish, Emit, Then, Without, kept
<1>6. tape \o <<>> = tape /\ <<>> \o Tail(work) = Tail(work)
  BY <1>1, NothingThen
<1> HIDE DEF rest
<1>7. Good(tape, n, bases, targets, rest, Tail(work))
  BY <1>3, <1>4 DEF Good
<1>8. Now(operands, work)'
  BY <1>5, <1>6, <1>7 DEF Now
<1> QED BY <1>8, InvGood, PTL

LEMMA ConditionStep == ASSUME IInv, LowerCondition PROVE IInv'
<1>1. CASE Doing("test") /\ Finish(1, <<I("TEST", None, <<operands[1]>>)>>)
  <2>1. "TEST" \in SSOp
    BY DEF SSOp
  <2>2. Needs("test") = 1 /\ Gives("test") = 0
    BY NeedsOf
  <2> QED BY <1>1, <2>1, <2>2, NoneWritten, FinishOneStep
<1>2. CASE Doing("drop") /\ Finish(1, <<>>)
  <2>1. Needs("drop") = 1 /\ Gives("drop") = 0
    BY NeedsOf
  <2> QED BY <1>2, <2>1, DropStep
<1> QED BY <1>1, <1>2 DEF LowerCondition

\* The target waits in the arms, and is read again and again.
LEMMA TargetStep ==
    ASSUME IInv, Doing("match"), Then(<<Item("arms", operands[1])>>),
           operands' = Without(1), targets' = targets \cup {operands[1]},
           UNCHANGED <<tape, TemporaryCounter, bases, nodes>>
    PROVE  IInv'
<1> DEFINE n == TemporaryCounter
           o == operands[1]
           ts == targets \cup {o}
           item == Item("arms", o)
           rest == SubSeq(operands, 1 + 1, Len(operands))
           w == <<item>> \o Tail(work)
           k == Len(operands) - 1
<1>1. /\ Now(operands, work) /\ Tail(work) \in Seq(WorkItem) /\ n \in Nat
      /\ Len(operands) \in Nat /\ Len(operands) >= 1
      /\ Work(Tail(work), Len(operands) - 1 + 0, tape, n, bases, targets)
  <2>1. Needs("match") = 1 /\ Gives("match") = 0
    BY NeedsOf
  <2>2. /\ Now(operands, work) /\ Tail(work) \in Seq(WorkItem) /\ n \in Nat
        /\ Len(operands) \in Nat /\ Len(operands) >= Needs("match")
        /\ Work(Tail(work), Len(operands) - Needs("match") + Gives("match"),
                tape, n, bases, targets)
    BY Resumed
  <2> QED BY <2>1, <2>2
<1>2. 1 \in 0..Len(operands) /\ 1 \in 1..Len(operands) /\ k + 0 = k /\ n <= n
        /\ k \in Nat /\ k >= 0 /\ k = k - 0 + 0
  BY <1>1
<1>3. Ready(o, tape, n, bases, targets)
  BY <1>1, <1>2 DEF Now, Good, OperandsInv
<1>4. o \in Operand \ {None} /\ Available(o, tape, n, bases)
  BY <1>3 DEF Ready
<1>5. item \in WorkItem /\ item.do = "arms" /\ item.at = o
  BY <1>4 DEF Item, WorkItem, Tasks
<1>6. /\ operands' = rest /\ tape' = tape /\ targets' = ts
      /\ TemporaryCounter' = n /\ bases' = bases /\ work' = w
  BY DEF Then, Without
<1> HIDE DEF o, item
<1>7. TapeInv(tape, n, bases, ts)
  BY <1>1, <1>2, TapeStays DEF Now, Good
<1>8. OperandsInv(rest, tape, n, bases, ts) /\ Len(rest) = k
  <2>1. OperandsInv(rest, tape, n, bases, ts)
    BY <1>1, <1>2, OperandsStay DEF Now, Good
  <2>2. Len(rest) = k
    BY <1>1, <1>2, Rest DEF Now, Good, OperandsInv
  <2> QED BY <2>1, <2>2
<1>9. HistoryInv(n, bases, ts)
  BY <1>1, <1>4 DEF Now, Good, HistoryInv
<1>10. Work(w, k, tape, n, bases, ts)
  <2>1. Work(Tail(work), k, tape, n, bases, targets)
    BY <1>1, <1>2
  <2>2. Work(Tail(work), k, tape, n, bases, ts)
    BY <1>1, <1>2, <2>1, WorkStays
  <2>3. ItemInv(item, tape, n, bases, ts)
    BY <1>4, <1>5 DEF ItemInv
  <2>4. Needs(item.do) = 0 /\ Gives(item.do) = 0
    BY <1>5, NeedsOf
  <2> HIDE DEF k
  <2> QED BY <1>2, <2>2, <2>3, <2>4, ItemCons
<1> HIDE DEF w, ts, rest, k
<1>11. Good(tape, n, bases, ts, rest, w)
  BY <1>7, <1>8, <1>9, <1>10 DEF Good
<1>12. Now(operands, work)'
  BY <1>6, <1>11 DEF Now
<1> QED BY <1>12, InvGood, PTL

\* An arm compares its pattern with the target, and tests what it has computed.
LEMMA ArmStep ==
    ASSUME IInv, Doing("arm"),
           Emit(<<I("EQ", Result, <<Head(work).at, operands[1]>>),
                  I("TEST", None, <<Result>>)>>),
           NewTemporary, operands' = Without(1), Then(<<>>), UNCHANGED <<kept, nodes>>
    PROVE  IInv'
<1> DEFINE n == TemporaryCounter
           o == operands[1]
           target == Head(work).at
           R == Register(n)
           both == <<target, o>>
           one == <<R>>
           a == I("EQ", R, both)
           b == I("TEST", None, one)
           u == Append(tape, a)
           v == Append(u, b)
           rest == SubSeq(operands, 1 + 1, Len(operands))
<1>1. /\ Now(operands, work) /\ Tail(work) \in Seq(WorkItem)
      /\ n \in Nat /\ n + 1 \in Nat /\ n <= n + 1 /\ n + 1 > n /\ n + 1 <= n + 1
      /\ tape \in Seq(Instruction) /\ Len(operands) \in Nat /\ Len(operands) >= 1
      /\ Work(Tail(work), Len(operands) - 1, tape, n, bases, targets)
      /\ Head(work).do = "arm" /\ ItemInv(Head(work), tape, n, bases, targets)
  <2>1. Needs("arm") = 1 /\ Gives("arm") = 0
    BY NeedsOf
  <2>2. /\ Now(operands, work) /\ Tail(work) \in Seq(WorkItem)
        /\ n \in Nat /\ tape \in Seq(Instruction) /\ Len(operands) \in Nat
        /\ Len(operands) >= Needs("arm")
        /\ Work(Tail(work), Len(operands) - Needs("arm") + Gives("arm"),
                tape, n, bases, targets)
        /\ Head(work).do = "arm" /\ ItemInv(Head(work), tape, n, bases, targets)
    BY Resumed
  <2>3. Len(operands) - 1 + 0 = Len(operands) - 1
    BY <2>2
  <2> QED BY <2>1, <2>2, <2>3
<1>2. 1 \in 0..Len(operands) /\ 1 \in 1..Len(operands)
  BY <1>1
<1>3. TapeInv(tape, n, bases, targets) /\ Ready(o, tape, n, bases, targets)
  BY <1>1, <1>2 DEF Now, Good, OperandsInv
<1>4. o \in Operand /\ Readable(o, tape, n, bases, targets) /\ o # R
  BY <1>1, <1>3, ReadyReadable DEF Ready
<1>5. R \in Operand /\ IsRegister(R) /\ R.of = n /\ ~Read(tape, R)
  <2>1. R \in Operand /\ ~Read(tape, R)
    BY <1>3, NextUnread
  <2> QED BY <2>1 DEF Register, IsRegister
<1>6. /\ target \in Operand /\ target \in targets /\ target # R
      /\ Readable(target, tape, n, bases, targets)
  <2>1. target \in Operand /\ target \in targets /\ Available(target, tape, n, bases)
    BY <1>1 DEF ItemInv, WorkItem
  <2>2. target # R
    BY <1>1, <1>5, <2>1 DEF Available
  <2> QED BY <2>1, <2>2 DEF Readable
<1>7. \A r : (Takes(a, r) => r = target \/ r = o) /\ (Takes(b, r) => r = R)
  BY DEF Takes, I
<1>8. both \in Seq(Operand) /\ one \in Seq(Operand)
  BY <1>4, <1>5, <1>6
<1>9. tape' = tape \o <<a, b>> /\ work' = <<>> \o Tail(work)
        /\ operands' = rest /\ TemporaryCounter' = n + 1 /\ UNCHANGED <<bases, targets>>
  BY DEF Emit, Then, Without, NewTemporary, Result, kept
<1> HIDE DEF both, one, o, target
<1>10. /\ a \in Instruction /\ a.op = "EQ" /\ a.write = Register(n)
       /\ b \in Instruction /\ b.op = "TEST" /\ b.write = None
  <2>1. "EQ" \in SSOp /\ "TEST" \in SSOp
    BY DEF SSOp
  <2> HIDE DEF R
  <2>2. a \in Instruction /\ a.op = "EQ" /\ a.write = R
    BY <1>5, <1>8, <2>1, InstructionType
  <2>3. b \in Instruction /\ b.op = "TEST" /\ b.write = None
    BY <1>8, <2>1, NoneWritten, InstructionType
  <2> QED BY <2>2, <2>3 DEF R
<1> HIDE DEF a, b
<1>11. Emits(a, tape, n, n + 1, bases, targets)
  <2>1. \A r : Takes(a, r) => Readable(r, tape, n, bases, targets)
    BY <1>4, <1>6, <1>7
  <2> QED BY <1>1, <1>10, <2>1, EmitsReads
<1>12. TapeInv(u, n + 1, bases, targets) /\ u \in Seq(Instruction)
  <2>1. TapeInv(u, n + 1, bases, targets)
    BY <1>3, <1>11, AppendInv
  <2> QED BY <1>1, <1>10, <2>1
<1>13. Computed(u, R) /\ ~Read(u, R)
  <2>1. a.op # "STORE" /\ a.write = R
    BY <1>10
  <2>2. Computed(u, R)
    BY <1>1, <1>10, <2>1, AppendReads
  <2>3. Read(u, R) <=> Read(tape, R) \/ Takes(a, R)
    BY <1>1, <1>10, AppendReads
  <2> QED BY <1>4, <1>5, <1>6, <1>7, <2>2, <2>3
<1>14. v = Append(Append(tape, a), b)
  OBVIOUS
<1> HIDE DEF u, R
<1>15. Emits(b, u, n + 1, n + 1, bases, targets)
  <2>1. Readable(R, u, n + 1, bases, targets)
    BY <1>1, <1>5, <1>13 DEF Readable, Available
  <2>2. \A r : Takes(b, r) => Readable(r, u, n + 1, bases, targets)
    BY <1>7, <2>1
  <2>3. ~IsRegister(b.write)
    BY <1>10, NoneWritten
  <2> QED BY <1>1, <1>10, <2>2, <2>3, EmitsReads
<1>16. TapeInv(v, n + 1, bases, targets)
  BY <1>12, <1>15, AppendInv
<1> HIDE DEF v
<1>17. /\ \A r : Computed(tape, r) => Computed(v, r)
       /\ \A r : Read(v, r) => Read(tape, r) \/ r = target \/ r = o \/ r = R
  <2>1. \A r : Read(v, r) <=> Read(tape, r) \/ Takes(a, r) \/ Takes(b, r)
    BY <1>1, <1>10, <1>14, TwoReads
  <2>2. \A r : Computed(tape, r) => Computed(v, r)
    BY <1>1, <1>10, <1>14, TwoReads
  <2> QED BY <1>7, <2>1, <2>2
<1>18. /\ OperandsInv(rest, v, n + 1, bases, targets)
       /\ Len(rest) = Len(operands) - 1
       /\ HistoryInv(n + 1, bases, targets)
       /\ Work(Tail(work), Len(operands) - 1, v, n + 1, bases, targets)
  <2>1. \A r : Read(v, r) => \/ Read(tape, r) \/ r \in bases \cup targets \/ r = Register(n)
                             \/ \E i \in 1..1 : operands[i] = r
    BY <1>6, <1>17 DEF o, R
  <2>2. \A r : Computed(tape, r) => Computed(v, r)
    BY <1>17
  <2> QED BY <1>1, <1>2, <1>16, <2>1, <2>2, AfterEmit DEF Now
<1>19. tape' = v /\ work' = Tail(work)
  BY <1>1, <1>9, <1>10, <1>14, EmitOne, NothingThen
<1> HIDE DEF rest
<1>20. Good(v, n + 1, bases, targets, rest, Tail(work))
  BY <1>16, <1>18 DEF Good
<1>21. Now(operands, work)'
  BY <1>9, <1>19, <1>20 DEF Now
<1> QED BY <1>21, InvGood, PTL

LEMMA MatchStep == ASSUME IInv, LowerMatch PROVE IInv'
<1>1. CASE /\ Doing("arms")
           /\ \/ \E pattern \in {<<>>, <<Expression, Item("arm", Head(work).at)>>} :
                    Open(pattern \o <<Do("body"), Head(work)>>)
              \/ Then(<<>>) /\ UNCHANGED <<tape, operands, nodes>>
           /\ UNCHANGED <<TemporaryCounter, kept>>
  <2> DEFINE arm == Item("arm", Head(work).at)
             body == Do("body")
             head == Head(work)
             tail == Tail(work)
             k == Len(operands)
             Waits(w) == Work(w, k, tape, TemporaryCounter, bases, targets)
  <2>1. /\ k \in Nat /\ tail \in Seq(WorkItem) /\ head.do = "arms"
        /\ ItemInv(head, tape, TemporaryCounter, bases, targets)
        /\ Work(tail, k - 0 + 0, tape, TemporaryCounter, bases, targets)
    <3>1. Needs("arms") = 0 /\ Gives("arms") = 0
      BY NeedsOf
    <3> QED BY <1>1, <3>1, Resumed
  <2>2. k - 0 + 0 = k /\ k >= 0 /\ k = k - 0 + 0
    BY <2>1
  <2>3. head \in WorkItem /\ arm \in WorkItem /\ arm.do = "arm" /\ arm.at = head.at
    BY <2>1 DEF ItemInv, Item, WorkItem, Tasks
  <2>4. ItemInv(arm, tape, TemporaryCounter, bases, targets)
    BY <2>1, <2>3 DEF ItemInv
  <2>5. /\ Needs(head.do) = 0 /\ Gives(head.do) = 0
        /\ Needs(arm.do) = 1 /\ Gives(arm.do) = 0
        /\ Needs("body") = 0 /\ Gives("body") = 0
    BY <2>1, <2>3, NeedsOf
  <2>6. "body" \in Tasks \ {"elements", "element", "arms", "arm"} /\ body \in WorkItem
    <3>1. "body" \in Tasks \ {"elements", "element", "arms", "arm"}
      BY DEF Tasks
    <3> QED BY <3>1, DoItems
  <2>7. UNCHANGED <<TemporaryCounter, bases, targets>>
    BY <1>1 DEF kept
  <2>8. \/ \E pattern \in {<<>>, <<Expression, arm>>} :
             /\ work' = (pattern \o <<body, head>>) \o tail
             /\ UNCHANGED <<tape, operands>>
        \/ work' = <<>> \o tail /\ UNCHANGED <<tape, operands>>
    BY <1>1 DEF Open, Then
  <2> HIDE DEF arm, head, tail, k
  <2>9. Waits(tail)
    BY <2>1, <2>2
  <2>10. Waits(<<head>> \o tail)
    BY <2>1, <2>2, <2>5, <2>9, ItemCons
  <2>11. Waits(<<body>> \o (<<head>> \o tail))
    BY <2>1, <2>2, <2>5, <2>6, <2>10, TaskCons
  <2> HIDE DEF body
  <2>12. <<body, head>> \o tail = <<body>> \o (<<head>> \o tail)
           /\ <<body, head>> \o tail \in Seq(WorkItem)
    <3>1. <<body, head>> \o tail = <<body>> \o (<<head>> \o tail)
      BY <2>1, <2>3, <2>6, Prepend2
    <3>2. <<head>> \o tail \in Seq(WorkItem)
      BY <2>1, <2>3, Cons
    <3>3. <<body>> \o (<<head>> \o tail) \in Seq(WorkItem)
      BY <2>6, <3>2, Cons
    <3> QED BY <3>1, <3>3
  <2>13. Waits(<<Expression, arm>> \o (<<body, head>> \o tail))
    BY <2>1, <2>4, <2>5, <2>11, <2>12, ExpressionItem
  <2>14. \A pattern \in {<<>>, <<Expression, arm>>} :
           (pattern \o <<body, head>>) \o tail = pattern \o (<<body, head>> \o tail)
    <3>1. <<>> \in Seq(WorkItem) /\ <<Expression, arm>> \in Seq(WorkItem)
            /\ <<body, head>> \in Seq(WorkItem)
      BY <2>3, <2>6, DoItems
    <3> QED BY <2>1, <3>1, ConcatAssociative
  <2>15. \A pattern \in {<<>>, <<Expression, arm>>} : Waits((pattern \o <<body, head>>) \o tail)
    <3>1. <<>> \o (<<body, head>> \o tail) = <<body, head>> \o tail
      BY <2>12, NothingThen
    <3> QED BY <2>11, <2>12, <2>13, <2>14, <3>1
  <2>16. <<>> \o tail = tail
    BY <2>1, NothingThen
  <2>17. \E w : /\ work' = w /\ Waits(w) /\ UNCHANGED <<tape, operands>>
    BY <2>8, <2>9, <2>15, <2>16
  <2> QED BY <2>7, <2>17, OpenStep DEF k
<1>2. CASE Doing("body") /\ Finish(0, <<>>)
  <2>1. Needs("body") = 0 /\ Gives("body") = 0
    BY NeedsOf
  <2> QED BY <1>2, <2>1, DropStep
<1> QED BY <1>1, <1>2, TargetStep, ArmStep DEF LowerMatch

LEMMA StepIInv == ASSUME IInv, [Next]_vars PROVE IInv'
<1>1. CASE UNCHANGED vars
  <2>1. Now(operands, work)' <=> Now(operands, work)
    BY <1>1 DEF vars, kept, Now
  <2> QED BY <2>1, InvGood, PTL
<1> QED BY <1>1, LeafStep, OpenExpressionStep, BinaryStep, MemberStep, UnaryStep, IndexStep,
           OwnershipStep, CallStep, ArrayExpressionStep, OpenStatementStep, DeclarationStep,
           AssignStep, ConditionStep, MatchStep
       DEF Next

LEMMA Invariance == Spec => []IInv
  BY InitIInv, StepIInv, PTL DEF Spec

-----------------------------------------------------------------------------
(* The properties *)

LEMMA ReadsOperands ==
    ASSUME IInv, NEW i \in DOMAIN tape, NEW k \in DOMAIN tape[i].read
    PROVE  /\ i \in 1..Len(tape) /\ tape[i].read[k] \in Operand
           /\ Takes(tape[i], tape[i].read[k])
<1>1. tape \in Seq(Instruction)
  BY DEF IInv, TapeInv
<1>2. i \in 1..Len(tape) /\ tape[i] \in Instruction
  BY <1>1
<1>3. tape[i].read \in Seq(Operand)
  BY <1>2 DEF Instruction
<1> QED BY <1>2, <1>3 DEF Takes

\* The types of the lowering's state; the operand that LowerExpression returns is
\* never the empty one of its default case, for every program.
THEOREM TypeCorrect == Spec => []TypeOK
<1>1. IInv => TypeOK
  BY DEF IInv, TapeInv, OperandsInv, WorkInv, HistoryInv, TypeOK
<1> QED BY <1>1, Invariance, PTL

\* NewTemporary: for every program, no register is computed twice.
THEOREM RegistersUnique == Spec => []ComputedOnce
<1>1. ASSUME IInv PROVE ComputedOnce
  <2> SUFFICES ASSUME NEW i \in DOMAIN tape, NEW j \in DOMAIN tape,
                      IsRegister(tape[i].write), Computes(i, tape[i].write),
                      Computes(j, tape[i].write)
               PROVE  i = j
    BY DEF ComputedOnce
  <2>1. tape \in Seq(Instruction)
    BY <1>1 DEF IInv, TapeInv
  <2>2. i \in 1..Len(tape) /\ j \in 1..Len(tape) /\ tape[i].write \in Operand
    <3>1. i \in 1..Len(tape) /\ j \in 1..Len(tape) /\ tape[i] \in Instruction
      BY <2>1
    <3> QED BY <3>1 DEF Instruction
  <2>3. /\ ComputesAt(tape, i, tape[i].write) /\ ComputesAt(tape, j, tape[i].write)
    BY DEF Computes, ComputesAt
  <2> QED BY <1>1, <2>2, <2>3 DEF IInv, TapeInv
<1> QED BY <1>1, Invariance, PTL

\* LowerExpression: for every program, an instruction reads what an earlier one has
\* computed, however deep the expressions nest.
THEOREM Defined == Spec => []DefinedBeforeUse
<1>1. ASSUME IInv PROVE DefinedBeforeUse
  <2> SUFFICES ASSUME NEW i \in DOMAIN tape, NEW k \in DOMAIN tape[i].read,
                      IsRegister(tape[i].read[k]), tape[i].read[k] \notin bases
               PROVE  \E j \in 1..(i - 1) : Computes(j, tape[i].read[k])
    BY DEF DefinedBeforeUse
  <2>1. /\ i \in 1..Len(tape) /\ tape[i].read[k] \in Operand
        /\ Takes(tape[i], tape[i].read[k])
    BY <1>1, ReadsOperands
  <2>2. \E j \in 1..(i - 1) : ComputesAt(tape, j, tape[i].read[k])
    BY <1>1, <2>1 DEF IInv, TapeInv
  <2> QED BY <2>2 DEF Computes, ComputesAt
<1> QED BY <1>1, Invariance, PTL

\* LowerExpression and LowerMatch: for every program, a register is read by one
\* instruction, but for arrays, targets and the FREE behind a MOVE.
THEOREM Consumed == Spec => []ReadOnce
<1>1. ASSUME IInv PROVE ReadOnce
  <2> SUFFICES ASSUME NEW i \in DOMAIN tape, NEW j \in DOMAIN tape,
                      NEW k \in DOMAIN tape[i].read, IsRegister(tape[i].read[k]),
                      tape[i].read[k] \notin bases \cup targets, i < j,
                      Reads(j, tape[i].read[k])
               PROVE  tape[i].op = "MOVE" /\ j = i + 1
    BY DEF ReadOnce
  <2>1. /\ i \in 1..Len(tape) /\ tape[i].read[k] \in Operand
        /\ Takes(tape[i], tape[i].read[k])
    BY <1>1, ReadsOperands
  <2>2. j \in 1..Len(tape)
    BY <1>1 DEF IInv, TapeInv
  <2>3. Takes(tape[j], tape[i].read[k])
    BY DEF Reads, Takes
  <2> QED BY <1>1, <2>1, <2>2, <2>3 DEF IInv, TapeInv
<1> QED BY <1>1, Invariance, PTL
=============================================================================
