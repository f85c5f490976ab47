----------------------------- MODULE SSSS_proofs -----------------------------
(***************************************************************************)
(* Theorems about the ownership analysis, for every set of variables, any  *)
(* tape and any width of CurrentScopeDepth that its nesting fits in, and   *)
(* about the executions of the tapes that it accepts.                      *)
(***************************************************************************)
EXTENDS OwnershipPaths, SequenceTheorems, TLAPS

(***************************************************************************)
(* Tables without a name that occurs twice.                                *)
(***************************************************************************)
Unique(table) == \A i, j \in 1..Len(table) : i < j => table[i].Name # table[j].Name

Entry(x, state, depth) == [Name |-> x, State |-> state, ScopeDepth |-> depth]

\* The entry of a symbol record that SetState writes.
Restated(table, i, state) == [table EXCEPT ![i].State = state]

\* The entries of a table are symbols.
LEMMA SymbolFields ==
    ASSUME NEW table \in Seq(Symbol)
    PROVE  \A i \in 1..Len(table) :
               table[i] \in Symbol /\ table[i].Name \in Names /\ table[i].ScopeDepth \in Nat
<1>. SUFFICES ASSUME NEW i \in 1..Len(table)
              PROVE  /\ table[i] \in Symbol
                     /\ table[i].Name \in Names
                     /\ table[i].ScopeDepth \in Nat
  OBVIOUS
<1>1. table[i] \in Symbol
  OBVIOUS
<1>2. table[i].Name \in Names /\ table[i].ScopeDepth \in 0..(DepthModulus - 1)
  BY <1>1 DEF Symbol
<1>. QED
  BY <1>1, <1>2, DepthAssumption

\* FindSymbol returns the only entry of the name, or 0 when there is none.
LEMMA FindSymbolUnique ==
    ASSUME NEW table \in Seq(Symbol), Unique(table), NEW x
    PROVE  \/ /\ FindSymbol(table, x) = 0
              /\ \A i \in 1..Len(table) : table[i].Name # x
           \/ /\ FindSymbol(table, x) \in 1..Len(table)
              /\ table[FindSymbol(table, x)].Name = x
              /\ \A i \in 1..Len(table) : table[i].Name = x => i = FindSymbol(table, x)
<1>1. CASE Positions(table, x) = {}
  BY <1>1 DEF FindSymbol, Positions
<1>2. ASSUME NEW i \in Positions(table, x)
      PROVE  FindSymbol(table, x) = i /\ \A j \in Positions(table, x) : j = i
  <2>1. i \in 1..Len(table) /\ table[i].Name = x
    BY DEF Positions
  <2>2. ASSUME NEW j \in Positions(table, x) PROVE j = i
    <3>1. j \in 1..Len(table) /\ table[j].Name = x
      BY DEF Positions
    <3>2. ~(i < j) /\ ~(j < i)
      BY <2>1, <3>1 DEF Unique
    <3>. QED
      BY <2>1, <3>1, <3>2
  <2>3. \A j \in Positions(table, x) : j <= i
    BY <2>1, <2>2
  <2>4. (CHOOSE k \in Positions(table, x) : \A j \in Positions(table, x) : j <= k) = i
    BY <2>2, <2>3
  <2>. QED
    BY <2>2, <2>4 DEF FindSymbol
<1>3. CASE Positions(table, x) # {}
  <2>1. PICK i \in Positions(table, x) : TRUE
    BY <1>3
  <2>2. FindSymbol(table, x) = i /\ \A j \in Positions(table, x) : j = i
    BY <1>2
  <2>. QED
    BY <2>1, <2>2 DEF Positions
<1>. QED
  BY <1>1, <1>3

\* FindSymbol returns the position of an entry when asked for its name.
LEMMA FindSymbolOfEntry ==
    ASSUME NEW table \in Seq(Symbol), Unique(table), NEW i \in 1..Len(table)
    PROVE  FindSymbol(table, table[i].Name) = i
BY FindSymbolUnique

\* A new symbol goes to the end of the table and is owned at once.
LEMMA StoreFresh ==
    ASSUME NEW table \in Seq(Symbol), Unique(table), NEW x \in Names,
           FindSymbol(table, x) = 0, CurrentScopeDepth \in 0..(DepthModulus - 1)
    PROVE  /\ Store(table, x) = Append(table, Entry(x, "OWNED", CurrentScopeDepth))
           /\ Store(table, x) \in Seq(Symbol)
           /\ Unique(Store(table, x))
<1>. DEFINE new == Entry(x, "UNINITIALIZED", CurrentScopeDepth)
            added == Append(table, new)
            owned == Entry(x, "OWNED", CurrentScopeDepth)
<1>1. new \in Symbol /\ owned \in Symbol
  BY DEF Symbol, Entry, LifecycleStates
<1>2. added = AddSymbol(table, x)
  BY DEF AddSymbol, Entry
<1>3. \A i \in 1..Len(table) : table[i].Name # x
  BY FindSymbolUnique
<1>4. /\ added \in Seq(Symbol)
      /\ Len(added) = Len(table) + 1
      /\ added[Len(table) + 1] = new
      /\ \A i \in 1..Len(table) : added[i] = table[i]
  BY <1>1
<1>5. new.Name = x /\ owned.Name = x
  BY DEF Entry
<1>6. Unique(added)
  BY <1>3, <1>4, <1>5 DEF Unique
<1>7. FindSymbol(added, x) = Len(table) + 1
  <2>1. Len(table) + 1 \in 1..Len(added)
    BY <1>4
  <2>2. FindSymbol(added, added[Len(table) + 1].Name) = Len(table) + 1
    BY <1>4, <1>6, <2>1, FindSymbolOfEntry
  <2>. QED
    BY <1>4, <1>5, <2>2
<1>8. SetState(added, x, "OWNED") = [added EXCEPT ![Len(table) + 1].State = "OWNED"]
  <2>1. Len(table) + 1 # 0
    OBVIOUS
  <2>2. SetState(added, x, "OWNED") = [added EXCEPT ![FindSymbol(added, x)].State = "OWNED"]
    BY <1>7, <2>1 DEF SetState
  <2>. QED
    BY <1>7, <2>2
<1>9. [new EXCEPT !.State = "OWNED"] = owned
  BY DEF Entry
<1>10. [added EXCEPT ![Len(table) + 1].State = "OWNED"] = Append(table, owned)
  <2>. DEFINE restated == [added EXCEPT ![Len(table) + 1].State = "OWNED"]
              appended == Append(table, owned)
  <2>1. restated = [added EXCEPT ![Len(table) + 1] = owned]
    BY <1>4, <1>9
  <2>2. /\ restated \in Seq(Symbol) /\ Len(restated) = Len(table) + 1
        /\ \A i \in 1..(Len(table) + 1) : restated[i] = IF i = Len(table) + 1 THEN owned ELSE table[i]
    <3>. HIDE DEF added, owned, new, restated
    <3>. QED
      BY <1>1, <1>4, <2>1
  <2>3. /\ appended \in Seq(Symbol) /\ Len(appended) = Len(table) + 1
        /\ \A i \in 1..(Len(table) + 1) : appended[i] = IF i = Len(table) + 1 THEN owned ELSE table[i]
    <3>. HIDE DEF owned
    <3>. QED
      BY <1>1
  <2>. HIDE DEF restated, appended, owned
  <2>4. Len(restated) = Len(appended) /\ \A i \in 1..Len(restated) : restated[i] = appended[i]
    BY <2>2, <2>3
  <2>5. restated = appended
    BY <2>2, <2>3, <2>4, SeqEqual, Zenon
  <2>. QED
    BY <2>5 DEF restated, appended
<1>11. Store(table, x) = Append(table, owned)
  BY <1>2, <1>8, <1>10, NoneAssumption DEF Store
<1>12. /\ Append(table, owned) \in Seq(Symbol)
       /\ Unique(Append(table, owned))
  BY <1>1, <1>3, <1>5 DEF Unique
<1>. QED
  BY <1>11, <1>12

\* A change of state leaves names and depths alone.
LEMMA RestatedTable ==
    ASSUME NEW table \in Seq(Symbol), Unique(table), NEW f \in 1..Len(table),
           NEW state \in LifecycleStates
    PROVE  /\ Restated(table, f, state) \in Seq(Symbol)
           /\ Len(Restated(table, f, state)) = Len(table)
           /\ Unique(Restated(table, f, state))
           /\ \A i \in 1..Len(table) :
                 /\ Restated(table, f, state)[i].Name = table[i].Name
                 /\ Restated(table, f, state)[i].ScopeDepth = table[i].ScopeDepth
                 /\ Restated(table, f, state)[i].State =
                        IF i = f THEN state ELSE table[i].State
<1>1. table[f] \in Symbol
  OBVIOUS
<1>2. [table[f] EXCEPT !.State = state] \in Symbol
  BY <1>1 DEF Symbol
<1>3. /\ Restated(table, f, state) \in Seq(Symbol)
      /\ Len(Restated(table, f, state)) = Len(table)
      /\ \A i \in 1..Len(table) : Restated(table, f, state)[i] =
             IF i = f THEN [table[f] EXCEPT !.State = state] ELSE table[i]
  BY <1>2 DEF Restated
<1>4. \A i \in 1..Len(table) :
          /\ Restated(table, f, state)[i].Name = table[i].Name
          /\ Restated(table, f, state)[i].ScopeDepth = table[i].ScopeDepth
          /\ Restated(table, f, state)[i].State = IF i = f THEN state ELSE table[i].State
  BY <1>1, <1>3 DEF Symbol
<1>5. Unique(Restated(table, f, state))
  BY <1>3, <1>4 DEF Unique
<1>. QED
  BY <1>3, <1>4, <1>5

(***************************************************************************)
(* The table as a stack of scopes: TypeOK and SymbolTable are inductive    *)
(* together.                                                               *)
(***************************************************************************)
TableOK(table, depth) ==
    /\ Unique(table)
    /\ \A i, j \in 1..Len(table) : i < j => table[i].ScopeDepth <= table[j].ScopeDepth
    /\ \A i \in 1..Len(table) :
          table[i].State \in {"OWNED", "MOVED"} /\ table[i].ScopeDepth <= depth

\* What a depth below the modulus wraps to: itself.
LEMMA ModSmall == \A m \in Nat : \A a \in 0..(m - 1) : a % m = a
OBVIOUS

\* A STORE keeps the table a stack of scopes.
LEMMA StoreTable ==
    ASSUME NEW table \in Seq(Symbol), CurrentScopeDepth \in 0..(DepthModulus - 1),
           TableOK(table, CurrentScopeDepth), NEW x \in Operands
    PROVE  Store(table, x) \in Seq(Symbol) /\ TableOK(Store(table, x), CurrentScopeDepth)
<1>1. CASE x = None
  BY <1>1 DEF Store
<1>2. CASE x # None /\ FindSymbol(table, x) = 0
  <2>. DEFINE owned == Entry(x, "OWNED", CurrentScopeDepth)
  <2>1. /\ Store(table, x) = Append(table, owned)
        /\ Store(table, x) \in Seq(Symbol)
        /\ Unique(Store(table, x))
    BY <1>2, StoreFresh DEF TableOK, Operands
  <2>2. owned \in Symbol /\ owned.State = "OWNED" /\ owned.ScopeDepth = CurrentScopeDepth
    BY <1>2 DEF Symbol, Entry, LifecycleStates, Operands
  <2>3. /\ Len(Append(table, owned)) = Len(table) + 1
        /\ Append(table, owned)[Len(table) + 1] = owned
        /\ \A i \in 1..Len(table) : Append(table, owned)[i] = table[i]
    <3>. HIDE DEF owned
    <3>. QED
      BY <2>2
  <2>4. \A i \in 1..Len(table) : table[i].ScopeDepth \in Int
    BY SymbolFields
  <2>. HIDE DEF owned
  <2>. QED
    BY <2>1, <2>2, <2>3, <2>4 DEF TableOK
<1>3. CASE x # None /\ FindSymbol(table, x) # 0
  <2>1. FindSymbol(table, x) \in 1..Len(table)
    BY <1>3, FindSymbolUnique DEF TableOK
  <2>2. Store(table, x) = Restated(table, FindSymbol(table, x), "OWNED")
    BY <1>3 DEF Store, SetState, Restated
  <2>3. "OWNED" \in LifecycleStates /\ Unique(table)
    BY DEF LifecycleStates, TableOK
  <2>. DEFINE f == FindSymbol(table, x)
              new == Restated(table, f, "OWNED")
  <2>4. /\ new \in Seq(Symbol)
        /\ Len(new) = Len(table)
        /\ Unique(new)
        /\ \A i \in 1..Len(table) :
              /\ new[i].ScopeDepth = table[i].ScopeDepth
              /\ new[i].State = IF i = f THEN "OWNED" ELSE table[i].State
    <3>1. f \in 1..Len(table)
      BY <2>1
    <3>. HIDE DEF f
    <3>. QED
      BY <3>1, <2>3, RestatedTable
  <2>. HIDE DEF new
  <2>5. TableOK(new, CurrentScopeDepth)
    BY <2>4 DEF TableOK
  <2>. QED
    BY <2>2, <2>4, <2>5 DEF new
<1>. QED
  BY <1>1, <1>2, <1>3

\* So does a MOVE.
LEMMA MoveTable ==
    ASSUME NEW table \in Seq(Symbol), NEW depth \in Nat, TableOK(table, depth), NEW y
    PROVE  /\ SetState(table, y, "MOVED") \in Seq(Symbol)
           /\ TableOK(SetState(table, y, "MOVED"), depth)
<1>1. CASE FindSymbol(table, y) = 0
  BY <1>1 DEF SetState
<1>2. CASE FindSymbol(table, y) # 0
  <2>1. FindSymbol(table, y) \in 1..Len(table)
    BY <1>2, FindSymbolUnique DEF TableOK
  <2>2. SetState(table, y, "MOVED") = Restated(table, FindSymbol(table, y), "MOVED")
    BY <1>2 DEF SetState, Restated
  <2>3. "MOVED" \in LifecycleStates /\ Unique(table)
    BY DEF LifecycleStates, TableOK
  <2>. DEFINE f == FindSymbol(table, y)
              new == Restated(table, f, "MOVED")
  <2>4. /\ new \in Seq(Symbol)
        /\ Len(new) = Len(table)
        /\ Unique(new)
        /\ \A i \in 1..Len(table) :
              /\ new[i].ScopeDepth = table[i].ScopeDepth
              /\ new[i].State = IF i = f THEN "MOVED" ELSE table[i].State
    <3>1. f \in 1..Len(table)
      BY <2>1
    <3>. HIDE DEF f
    <3>. QED
      BY <3>1, <2>3, RestatedTable
  <2>. HIDE DEF new
  <2>5. TableOK(new, depth)
    BY <2>4 DEF TableOK
  <2>. QED
    BY <2>2, <2>4, <2>5 DEF new
<1>. QED
  BY <1>1, <1>2

\* HandleScopeEnd keeps the symbols of the outer scopes and no other.
LEMMA ScopeEndTable ==
    ASSUME NEW table \in Seq(Symbol), NEW depth \in Nat, TableOK(table, depth),
           NEW k \in 0..Len(table),
           k > 0 => table[k].ScopeDepth # depth,
           \A i \in (k + 1)..Len(table) : table[i].ScopeDepth = depth
    PROVE  /\ SubSeq(table, 1, k) \in Seq(Symbol)
           /\ Len(SubSeq(table, 1, k)) = k
           /\ \A i \in 1..k : SubSeq(table, 1, k)[i] = table[i]
           /\ \A i \in 1..k : table[i].ScopeDepth < depth
           /\ TableOK(SubSeq(table, 1, k), depth - 1)
           /\ depth = 0 => SubSeq(table, 1, k) = <<>>
<1>1. \A i \in 1..Len(table) : table[i] \in Symbol /\ table[i].ScopeDepth \in Nat
  BY SymbolFields
<1>2. /\ SubSeq(table, 1, k) \in Seq(Symbol)
      /\ Len(SubSeq(table, 1, k)) = k
      /\ \A i \in 1..k : SubSeq(table, 1, k)[i] = table[i]
  OBVIOUS
<1>3. \A i \in 1..k : table[i].ScopeDepth < depth
  <2>. SUFFICES ASSUME NEW i \in 1..k PROVE table[i].ScopeDepth < depth
    OBVIOUS
  <2>1. k \in 1..Len(table) /\ i \in 1..Len(table)
    OBVIOUS
  <2>2. table[k].ScopeDepth < depth
    BY <1>1, <2>1 DEF TableOK
  <2>3. table[i].ScopeDepth <= table[k].ScopeDepth
    BY <1>1, <2>1 DEF TableOK
  <2>. QED
    BY <1>1, <2>1, <2>2, <2>3
<1>4. TableOK(SubSeq(table, 1, k), depth - 1)
  <2>1. \A i \in 1..k : i \in 1..Len(table)
    OBVIOUS
  <2>2. \A i \in 1..k : table[i].ScopeDepth <= depth - 1
    BY <1>1, <1>3, <2>1
  <2>. QED
    BY <1>2, <2>1, <2>2 DEF TableOK, Unique
<1>5. depth = 0 => SubSeq(table, 1, k) = <<>>
  <2>1. depth = 0 => k = 0
    BY <1>1, <1>3
  <2>. QED
    BY <1>2, <2>1
<1>. QED
  BY <1>2, <1>3, <1>4, <1>5

\* The inductive invariant.
Inv ==
    /\ TypeOK
    /\ done => Symbols = <<>>
    /\ ~done => CurrentScopeDepth = open /\ TableOK(Symbols, CurrentScopeDepth)

\* The inductive invariant contains the property the runs check.
LEMMA InvImpliesSymbolTable == Inv => SymbolTable
<1>1. ASSUME Inv, done PROVE SymbolTable
  BY <1>1 DEF Inv, SymbolTable
<1>2. ASSUME Inv, ~done PROVE SymbolTable
  BY <1>2 DEF Inv, SymbolTable, TableOK, Unique
<1>. QED
  BY <1>1, <1>2

\* CreateContext starts with an empty table at depth 0.
LEMMA InvInit == Init => Inv
<1>. SUFFICES ASSUME Init PROVE Inv
  OBVIOUS
<1>1. TypeOK
  <2>1. Symbols \in Seq(Symbol)
    BY DEF Init
  <2>2. CurrentScopeDepth \in 0..(DepthModulus - 1) /\ open \in 0..MaxDepth
    BY DepthAssumption DEF Init
  <2>3. ErrorCount \in Nat /\ analysed \in Nat /\ done \in BOOLEAN
    BY DEF Init
  <2>. QED
    BY <2>1, <2>2, <2>3 DEF TypeOK
<1>2. TableOK(<<>>, 0)
  BY DEF TableOK, Unique
<1>. QED
  BY <1>1, <1>2 DEF Init, Inv

\* One call of CheckOperandRead reports at most one error.
LEMMA ReadErrors ==
    ASSUME NEW table, NEW x
    PROVE  CheckOperandRead(table, x) \in {0, 1}
BY DEF CheckOperandRead

\* No instruction breaks the inductive invariant.
LEMMA InvNext == Inv /\ [Next]_vars => Inv'
<1>. SUFFICES ASSUME Inv, [Next]_vars PROVE Inv'
  OBVIOUS
<1>. USE DEF Inv
<1>1. CASE ScopeBegin
  <2>1. /\ CurrentScopeDepth = open /\ open \in Nat /\ open < MaxDepth
        /\ CurrentScopeDepth' = (open + 1) % DepthModulus
        /\ open' = open + 1 /\ Symbols' = Symbols /\ done' = FALSE /\ ~done
    BY <1>1 DEF ScopeBegin, Instruction, TypeOK
  <2>2. open + 1 \in 0..(DepthModulus - 1) /\ DepthModulus \in Nat
    BY <2>1, DepthAssumption
  <2>3. CurrentScopeDepth' = open + 1
    BY <2>1, <2>2, ModSmall
  <2>4. TypeOK'
    BY <1>1, <2>1, <2>2, <2>3, DepthAssumption DEF ScopeBegin, Instruction, TypeOK
  <2>5. \A i \in 1..Len(Symbols) : Symbols[i].ScopeDepth \in Nat
    BY SymbolFields DEF TypeOK
  <2>6. TableOK(Symbols, CurrentScopeDepth)
    BY <2>1
  <2>7. TableOK(Symbols, open + 1)
    BY <2>1, <2>5, <2>6 DEF TableOK
  <2>. QED
    BY <2>1, <2>3, <2>4, <2>7
<1>2. CASE ScopeEnd
  <2>1. /\ ~done /\ done' = FALSE /\ open > 0 /\ open \in Nat /\ open <= MaxDepth
        /\ CurrentScopeDepth = open
        /\ open' = open - 1
        /\ CurrentScopeDepth' = (open - 1) % DepthModulus
        /\ TableOK(Symbols, open) /\ Symbols \in Seq(Symbol)
    BY <1>2, DepthAssumption DEF ScopeEnd, HandleScopeEnd, TypeOK
  <2>2. open - 1 \in 0..(DepthModulus - 1) /\ DepthModulus \in Nat
    BY <2>1, DepthAssumption
  <2>3. CurrentScopeDepth' = open - 1
    BY <2>1, <2>2, ModSmall
  <2>4. PICK k \in 0..Len(Symbols) :
            /\ k > 0 => Symbols[k].ScopeDepth # open
            /\ \A i \in (k + 1)..Len(Symbols) : Symbols[i].ScopeDepth = open
            /\ Symbols' = SubSeq(Symbols, 1, k)
    BY <1>2, <2>1 DEF ScopeEnd, HandleScopeEnd, LoopStopsAt
  <2>5. SubSeq(Symbols, 1, k) \in Seq(Symbol) /\ TableOK(SubSeq(Symbols, 1, k), open - 1)
    BY <2>1, <2>4, ScopeEndTable
  <2>6. UNCHANGED <<ErrorCount, analysed>> /\ CurrentScopeDepth' \in 0..(DepthModulus - 1)
    BY <1>2, <2>2, <2>3 DEF ScopeEnd
  <2>7. open' \in 0..MaxDepth
    BY <2>1, DepthAssumption
  <2>8. TypeOK'
    BY <2>1, <2>4, <2>5, <2>6, <2>7 DEF TypeOK
  <2>. QED
    BY <2>1, <2>3, <2>4, <2>5, <2>8
<1>3. ASSUME NEW x \in Operands, NEW y \in Operands, AnalyzeStore(x, y)
      PROVE  Inv'
  <2>1. /\ ~done /\ done' = FALSE
        /\ Symbols' = Store(Symbols, x)
        /\ ErrorCount' = ErrorCount + CheckOperandRead(Symbols', y)
        /\ CurrentScopeDepth' = CurrentScopeDepth /\ open' = open
        /\ analysed' = analysed + 1
    BY <1>3 DEF AnalyzeStore, Instruction
  <2>2. Store(Symbols, x) \in Seq(Symbol) /\ TableOK(Store(Symbols, x), CurrentScopeDepth)
    BY <2>1, StoreTable DEF TypeOK
  <2>3. CheckOperandRead(Symbols', y) \in {0, 1}
    BY ReadErrors
  <2>4. ErrorCount' \in Nat
    BY <2>1, <2>3 DEF TypeOK
  <2>5. TypeOK'
    <3>1. Symbols' \in Seq(Symbol)
      BY <2>1, <2>2
    <3>2. analysed' \in Nat
      BY <2>1 DEF TypeOK
    <3>3. done' \in BOOLEAN
      BY <2>1, Zenon
    <3>. QED
      BY <2>1, <2>4, <3>1, <3>2, <3>3 DEF TypeOK
  <2>. QED
    BY <2>1, <2>2, <2>5
<1>4. ASSUME NEW y \in Operands, AnalyzeMove(y)
      PROVE  Inv'
  <2>1. /\ ~done /\ done' = FALSE
        /\ Symbols' = SetState(Symbols, y, "MOVED")
        /\ ErrorCount' = ErrorCount + CheckOperandRead(Symbols, y)
        /\ CurrentScopeDepth' = CurrentScopeDepth /\ open' = open
        /\ analysed' = analysed + 1
    BY <1>4 DEF AnalyzeMove, Instruction
  <2>2. CurrentScopeDepth \in Nat
    BY DepthAssumption DEF TypeOK
  <2>3. /\ SetState(Symbols, y, "MOVED") \in Seq(Symbol)
        /\ TableOK(SetState(Symbols, y, "MOVED"), CurrentScopeDepth)
    BY <2>1, <2>2, MoveTable DEF TypeOK
  <2>4. CheckOperandRead(Symbols, y) \in {0, 1}
    BY ReadErrors
  <2>5. ErrorCount' \in Nat
    BY <2>1, <2>4 DEF TypeOK
  <2>6. TypeOK'
    <3>1. Symbols' \in Seq(Symbol)
      BY <2>1, <2>3
    <3>2. analysed' \in Nat
      BY <2>1 DEF TypeOK
    <3>3. done' \in BOOLEAN
      BY <2>1, Zenon
    <3>. QED
      BY <2>1, <2>5, <3>1, <3>2, <3>3 DEF TypeOK
  <2>. QED
    BY <2>1, <2>3, <2>6
<1>5. ASSUME NEW y \in Operands, NEW z \in Operands, AnalyzeArithmetic(y, z)
      PROVE  Inv'
  <2>1. /\ UNCHANGED <<Symbols, CurrentScopeDepth, open, done>>
        /\ ErrorCount' = ErrorCount + CheckOperandRead(Symbols, y) + CheckOperandRead(Symbols, z)
        /\ analysed' = analysed + 1
    BY <1>5 DEF AnalyzeArithmetic, Instruction
  <2>2. CheckOperandRead(Symbols, y) \in {0, 1} /\ CheckOperandRead(Symbols, z) \in {0, 1}
    BY ReadErrors
  <2>3. ErrorCount' \in Nat
    BY <2>1, <2>2 DEF TypeOK
  <2>4. TypeOK'
    BY <2>1, <2>3 DEF TypeOK
  <2>. QED
    BY <2>1, <2>4
<1>6. ASSUME NEW op \in DefaultOps, NEW y \in Operands, AnalyzeDefault(op, y)
      PROVE  Inv'
  <2>1. UNCHANGED <<Symbols, CurrentScopeDepth, open, done, ErrorCount>> /\ analysed' = analysed + 1
    BY <1>6 DEF AnalyzeDefault, Instruction
  <2>2. TypeOK'
    BY <2>1 DEF TypeOK
  <2>. QED
    BY <2>1, <2>2
<1>7. CASE Finish
  <2>1. /\ ~done /\ done' = TRUE /\ open = 0 /\ CurrentScopeDepth = 0
        /\ TableOK(Symbols, 0) /\ Symbols \in Seq(Symbol)
        /\ UNCHANGED <<ErrorCount, open, analysed>>
    BY <1>7 DEF Finish, TypeOK
  <2>2. CASE Symbols # <<>>
    <3>1. PICK k \in 0..Len(Symbols) :
              /\ k > 0 => Symbols[k].ScopeDepth # 0
              /\ \A i \in (k + 1)..Len(Symbols) : Symbols[i].ScopeDepth = 0
              /\ Symbols' = SubSeq(Symbols, 1, k)
      BY <1>7, <2>1, <2>2 DEF Finish, HandleScopeEnd, LoopStopsAt
    <3>2. SubSeq(Symbols, 1, k) = <<>>
      BY <2>1, <3>1, ScopeEndTable
    <3>3. CurrentScopeDepth' = (0 - 1) % DepthModulus
      BY <1>7, <2>1, <2>2 DEF Finish, HandleScopeEnd
    <3>4. CurrentScopeDepth' \in 0..(DepthModulus - 1)
      BY <3>3, DepthAssumption
    <3>5. TypeOK'
      BY <2>1, <3>1, <3>2, <3>4 DEF TypeOK
    <3>. QED
      BY <2>1, <3>1, <3>2, <3>5
  <2>3. CASE Symbols = <<>>
    <3>1. UNCHANGED <<Symbols, CurrentScopeDepth>>
      BY <1>7, <2>3 DEF Finish
    <3>. QED
      BY <2>1, <2>3, <3>1 DEF TypeOK
  <2>. QED
    BY <2>2, <2>3
<1>8. CASE UNCHANGED vars
  BY <1>8 DEF vars, TypeOK
<1>. QED
  BY <1>1, <1>2, <1>3, <1>4, <1>5, <1>6, <1>7, <1>8 DEF Next, Returned

\* Along every analysis the table holds symbols of the declared shape and the depth
\* fits its width.
THEOREM TypeCorrect == Spec => []TypeOK
<1>1. Inv => TypeOK
  BY DEF Inv
<1>. QED
  BY <1>1, InvInit, InvNext, PTL DEF Spec

\* The flat table is at every instruction the stack of the scopes that are open, so
\* that HandleScopeEnd removes the symbols of the scope that ends and no others.
THEOREM TableIsStack == Spec => []SymbolTable
BY InvInit, InvNext, InvImpliesSymbolTable, PTL DEF Spec

(***************************************************************************)
(* Refinement: the table implements the stack of scopes of Scopes.tla.     *)
(***************************************************************************)
StackOf(table, depth) ==
    [d \in 1..(depth + 1) |-> [n \in Names |-> StateIn(table, d - 1, n)]]

\* Where the table says a name is bound, and how.
BoundAt(table, n, d) ==
    FindSymbol(table, n) # 0 /\ table[FindSymbol(table, n)].ScopeDepth = d
Kind(state) == IF state = "OWNED" THEN "owned" ELSE "moved"

\* A name is bound in the scope of its only entry, if it has one.
LEMMA StateInValue ==
    ASSUME NEW table \in Seq(Symbol), Unique(table), NEW d, NEW n
    PROVE  StateIn(table, d, n) =
               IF BoundAt(table, n, d) THEN Kind(table[FindSymbol(table, n)].State) ELSE "absent"
<1>. DEFINE f == FindSymbol(table, n)
            entries == {i \in Positions(table, n) : table[i].ScopeDepth = d}
<1>1. CASE f = 0
  <2>1. \A i \in 1..Len(table) : table[i].Name # n
    BY <1>1, FindSymbolUnique
  <2>2. entries = {}
    BY <2>1 DEF Positions
  <2>. QED
    BY <1>1, <2>2 DEF StateIn, BoundAt
<1>2. CASE f # 0
  <2>1. f \in 1..Len(table) /\ table[f].Name = n /\ \A i \in 1..Len(table) : table[i].Name = n => i = f
    BY <1>2, FindSymbolUnique
  <2>2. Positions(table, n) = {f}
    BY <2>1 DEF Positions
  <2>3. entries = IF table[f].ScopeDepth = d THEN {f} ELSE {}
    BY <2>2
  <2>. QED
    BY <1>2, <2>3 DEF StateIn, BoundAt, Kind
<1>. QED
  BY <1>1, <1>2

\* A change of state does not change where names are found.
LEMMA FindSymbolRestated ==
    ASSUME NEW table \in Seq(Symbol), Unique(table), NEW f \in 1..Len(table),
           NEW state \in LifecycleStates, NEW n
    PROVE  FindSymbol(Restated(table, f, state), n) = FindSymbol(table, n)
<1>. DEFINE new == Restated(table, f, state)
<1>1. /\ new \in Seq(Symbol) /\ Len(new) = Len(table) /\ Unique(new)
      /\ \A i \in 1..Len(table) : new[i].Name = table[i].Name
  BY RestatedTable
<1>. HIDE DEF new
<1>2. CASE FindSymbol(table, n) = 0
  <2>1. \A i \in 1..Len(table) : table[i].Name # n
    BY <1>2, FindSymbolUnique
  <2>2. FindSymbol(new, n) = 0
    BY <1>1, <2>1, FindSymbolUnique
  <2>. QED
    BY <1>2, <2>2 DEF new
<1>3. CASE FindSymbol(table, n) # 0
  <2>1. FindSymbol(table, n) \in 1..Len(table) /\ table[FindSymbol(table, n)].Name = n
    BY <1>3, FindSymbolUnique
  <2>2. FindSymbol(new, new[FindSymbol(table, n)].Name) = FindSymbol(table, n)
    BY <1>1, <2>1, FindSymbolOfEntry
  <2>. QED
    BY <1>1, <2>1, <2>2 DEF new
<1>. QED
  BY <1>2, <1>3

\* Appending a new name changes where that name is found and no other.
LEMMA FindSymbolAppended ==
    ASSUME NEW table \in Seq(Symbol), NEW e \in Symbol, Unique(Append(table, e)), NEW n
    PROVE  FindSymbol(Append(table, e), n) =
               IF n = e.Name THEN Len(table) + 1 ELSE FindSymbol(table, n)
<1>. DEFINE new == Append(table, e)
<1>1. /\ new \in Seq(Symbol) /\ Len(new) = Len(table) + 1
      /\ new[Len(table) + 1] = e
      /\ \A i \in 1..Len(table) : new[i] = table[i]
  OBVIOUS
<1>2. Unique(new) /\ Unique(table)
  BY <1>1 DEF Unique
<1>. HIDE DEF new
<1>3. CASE n = e.Name
  <2>1. Len(table) + 1 \in 1..Len(new)
    BY <1>1
  <2>2. FindSymbol(new, new[Len(table) + 1].Name) = Len(table) + 1
    BY <1>1, <1>2, <2>1, FindSymbolOfEntry
  <2>. QED
    BY <1>1, <1>3, <2>2 DEF new
<1>4. CASE n # e.Name /\ FindSymbol(table, n) = 0
  <2>1. \A i \in 1..Len(table) : table[i].Name # n
    BY <1>2, <1>4, FindSymbolUnique
  <2>2. \A i \in 1..Len(new) : new[i].Name # n
    BY <1>1, <1>4, <2>1
  <2>3. FindSymbol(new, n) = 0
    BY <1>1, <1>2, <2>2, FindSymbolUnique
  <2>. QED
    BY <1>4, <2>3 DEF new
<1>5. CASE n # e.Name /\ FindSymbol(table, n) # 0
  <2>1. FindSymbol(table, n) \in 1..Len(table) /\ table[FindSymbol(table, n)].Name = n
    BY <1>2, <1>5, FindSymbolUnique
  <2>2. FindSymbol(table, n) \in 1..Len(new) /\ new[FindSymbol(table, n)].Name = n
    BY <1>1, <2>1
  <2>3. FindSymbol(new, new[FindSymbol(table, n)].Name) = FindSymbol(table, n)
    BY <1>1, <1>2, <2>2, FindSymbolOfEntry
  <2>. QED
    BY <1>5, <2>2, <2>3 DEF new
<1>. QED
  BY <1>3, <1>4, <1>5

\* In a prefix of the table the names of the prefix are found where they were.
LEMMA FindSymbolPrefix ==
    ASSUME NEW table \in Seq(Symbol), Unique(table), NEW k \in 0..Len(table), NEW n
    PROVE  FindSymbol(SubSeq(table, 1, k), n) =
               IF FindSymbol(table, n) <= k THEN FindSymbol(table, n) ELSE 0
<1>. DEFINE new == SubSeq(table, 1, k)
<1>1. new \in Seq(Symbol) /\ Len(new) = k /\ \A i \in 1..k : new[i] = table[i]
  OBVIOUS
<1>2. Unique(new)
  BY <1>1 DEF Unique
<1>. HIDE DEF new
<1>3. CASE FindSymbol(table, n) = 0 \/ ~(FindSymbol(table, n) <= k)
  <2>1. \A i \in 1..k : table[i].Name # n
    BY <1>3, FindSymbolUnique
  <2>2. FindSymbol(new, n) = 0
    BY <1>1, <1>2, <2>1, FindSymbolUnique
  <2>. QED
    BY <1>3, <2>2 DEF new
<1>4. CASE FindSymbol(table, n) # 0 /\ FindSymbol(table, n) <= k
  <2>1. FindSymbol(table, n) \in 1..k /\ table[FindSymbol(table, n)].Name = n
    BY <1>4, FindSymbolUnique
  <2>2. FindSymbol(new, new[FindSymbol(table, n)].Name) = FindSymbol(table, n)
    BY <1>1, <1>2, <2>1, FindSymbolOfEntry
  <2>. QED
    BY <1>1, <1>4, <2>1, <2>2 DEF new
<1>. QED
  BY <1>3, <1>4

\* What the stack of scopes says of a name in a scope.
LEMMA StackValue ==
    ASSUME NEW table \in Seq(Symbol), Unique(table), NEW depth \in Nat,
           NEW d \in 1..(depth + 1), NEW n \in Names
    PROVE  /\ StackOf(table, depth)[d][n] =
                  IF BoundAt(table, n, d - 1) THEN Kind(table[FindSymbol(table, n)].State)
                  ELSE "absent"
           /\ Scoped!BoundIn(StackOf(table, depth), d, n) <=> BoundAt(table, n, d - 1)
<1>1. StackOf(table, depth)[d][n] = StateIn(table, d - 1, n)
  BY DEF StackOf
<1>2. StateIn(table, d - 1, n) =
          IF BoundAt(table, n, d - 1) THEN Kind(table[FindSymbol(table, n)].State) ELSE "absent"
  BY StateInValue
<1>3. Kind(table[FindSymbol(table, n)].State) # "absent"
  BY DEF Kind
<1>. QED
  BY <1>1, <1>2, <1>3 DEF Scoped!BoundIn

OverNames(f) == f = [n \in Names |-> f[n]]

\* The stack has one scope per depth, and each scope covers all names.
LEMMA StackShape ==
    ASSUME NEW table, NEW depth \in Nat
    PROVE  /\ Len(StackOf(table, depth)) = depth + 1
           /\ DOMAIN StackOf(table, depth) = 1..(depth + 1)
           /\ StackOf(table, depth) # <<>>
           /\ \A d \in 1..(depth + 1) :
                 /\ DOMAIN StackOf(table, depth)[d] = Names
                 /\ OverNames(StackOf(table, depth)[d])
<1>1. depth + 1 \in Nat /\ depth + 1 # 0
  OBVIOUS
<1>2. DOMAIN StackOf(table, depth) = 1..(depth + 1) /\ Len(StackOf(table, depth)) = depth + 1
  BY <1>1 DEF StackOf
<1>3. StackOf(table, depth) # <<>>
  <2>1. 1 \in DOMAIN StackOf(table, depth)
    BY <1>2
  <2>. QED
    BY <2>1
<1>. QED
  BY <1>2, <1>3 DEF StackOf, OverNames

\* The stack is a sequence of bindings.
LEMMA StackSeq ==
    ASSUME NEW table, NEW depth \in Nat
    PROVE  StackOf(table, depth) \in Seq(Scoped!Bindings)
<1>1. \A d, n : StateIn(table, d, n) \in {"absent", "owned", "moved"}
  BY DEF StateIn
<1>2. \A d : [n \in Names |-> StateIn(table, d - 1, n)] \in Scoped!Bindings
  BY <1>1 DEF Scoped!Bindings
<1>3. ASSUME NEW n \in Nat, NEW q, q = [d \in 1..n |-> q[d]], NEW S, \A d \in 1..n : q[d] \in S
      PROVE  q \in Seq(S)
  BY <1>3
<1>4. depth + 1 \in Nat
  OBVIOUS
<1>5. /\ StackOf(table, depth) = [d \in 1..(depth + 1) |-> StackOf(table, depth)[d]]
      /\ \A d \in 1..(depth + 1) : StackOf(table, depth)[d] \in Scoped!Bindings
  BY <1>2 DEF StackOf
<1>. QED
  BY <1>3, <1>4, <1>5

\* A sequence is the function of its elements.
LEMMA SeqFunction ==
    ASSUME NEW S, NEW q \in Seq(S), NEW n \in Nat, Len(q) = n
    PROVE  q = [d \in 1..n |-> q[d]]
OBVIOUS

\* The scope of a symbol in the table is one of the open scopes.
LEMMA SymbolScope ==
    ASSUME NEW table \in Seq(Symbol), NEW depth \in Nat, TableOK(table, depth),
           NEW x, FindSymbol(table, x) # 0
    PROVE  /\ FindSymbol(table, x) \in 1..Len(table)
           /\ table[FindSymbol(table, x)].ScopeDepth + 1 \in 1..(depth + 1)
           /\ BoundAt(table, x, table[FindSymbol(table, x)].ScopeDepth)
<1>1. FindSymbol(table, x) \in 1..Len(table)
  BY FindSymbolUnique DEF TableOK
<1>2. table[FindSymbol(table, x)].ScopeDepth \in Nat
  BY <1>1, SymbolFields
<1>3. table[FindSymbol(table, x)].ScopeDepth <= depth
  BY <1>1 DEF TableOK
<1>. QED
  BY <1>1, <1>2, <1>3 DEF BoundAt

\* CheckOperandRead reports exactly the operands that no open scope owns.
LEMMA ReportRefines ==
    ASSUME NEW table \in Seq(Symbol), NEW depth \in Nat, TableOK(table, depth),
           NEW x \in Operands
    PROVE  Scoped!Report(StackOf(table, depth), x) = CheckOperandRead(table, x)
<1>. DEFINE stack == StackOf(table, depth)
            f == FindSymbol(table, x)
<1>1. CASE x = None
  BY <1>1 DEF Scoped!Report, CheckOperandRead
<1>2. CASE x # None /\ f = 0
  <2>1. x \in Names
    BY <1>2 DEF Operands
  <2>2. \A d \in 1..(depth + 1) : stack[d][x] = "absent"
    BY <1>2, <2>1, StackValue DEF TableOK, BoundAt
  <2>3. ~ \E d \in 1..Len(stack) : stack[d][x] = "owned"
    BY <2>2, StackShape
  <2>. QED
    BY <1>2, <2>3 DEF Scoped!Report, CheckOperandRead
<1>3. CASE x # None /\ f # 0
  <2>1. x \in Names
    BY <1>3 DEF Operands
  <2>2. f \in 1..Len(table) /\ table[f].ScopeDepth + 1 \in 1..(depth + 1) /\ table[f].ScopeDepth \in Nat
    BY <1>3, SymbolScope, SymbolFields
  <2>3. BoundAt(table, x, table[f].ScopeDepth)
    BY <1>3 DEF BoundAt
  <2>4. table[f].ScopeDepth + 1 - 1 = table[f].ScopeDepth
    BY <2>2
  <2>5. stack[table[f].ScopeDepth + 1][x] = Kind(table[f].State)
    BY <2>1, <2>2, <2>3, <2>4, StackValue DEF TableOK
  <2>6. \A d \in 1..(depth + 1) :
            stack[d][x] = "absent" \/ stack[d][x] = Kind(table[f].State)
    BY <2>1, StackValue DEF TableOK
  <2>7. (\E d \in 1..Len(stack) : stack[d][x] = "owned") <=> table[f].State = "OWNED"
    <3>1. Len(stack) = depth + 1
      BY StackShape
    <3>. HIDE DEF stack, f
    <3>. QED
      BY <3>1, <2>2, <2>5, <2>6 DEF Kind
  <2>. QED
    BY <1>3, <2>7 DEF Scoped!Report, CheckOperandRead
<1>. QED
  BY <1>1, <1>2, <1>3

\* Two stacks of scopes are equal when they agree on every name of every scope.
LEMMA StackEqual ==
    ASSUME NEW table, NEW depth \in Nat, NEW other,
           other = [d \in 1..(depth + 1) |-> [n \in Names |-> other[d][n]]],
           \A d \in 1..(depth + 1) : \A n \in Names :
               StackOf(table, depth)[d][n] = other[d][n]
    PROVE  StackOf(table, depth) = other
<1>1. StackOf(table, depth) =
          [d \in 1..(depth + 1) |-> [n \in Names |-> StackOf(table, depth)[d][n]]]
  BY DEF StackOf
<1>2. [d \in 1..(depth + 1) |-> [n \in Names |-> StackOf(table, depth)[d][n]]]
          = [d \in 1..(depth + 1) |-> [n \in Names |-> other[d][n]]]
  OBVIOUS
<1>. QED
  BY <1>1, <1>2

\* Writing a state to the entry of a name rebinds it where it is bound.
LEMMA RestatedRefines ==
    ASSUME NEW table \in Seq(Symbol), NEW depth \in Nat, TableOK(table, depth),
           NEW x \in Names, FindSymbol(table, x) # 0, NEW state \in LifecycleStates
    PROVE  StackOf(Restated(table, FindSymbol(table, x), state), depth)
               = Scoped!Rebind(StackOf(table, depth), x, Kind(state))
<1>. DEFINE f == FindSymbol(table, x)
            new == Restated(table, f, state)
            stack == StackOf(table, depth)
            other == Scoped!Rebind(stack, x, Kind(state))
<1>1. f \in 1..Len(table) /\ Unique(table) /\ table[f].Name = x
  BY FindSymbolUnique DEF TableOK
<1>2. /\ new \in Seq(Symbol) /\ Unique(new)
      /\ \A i \in 1..Len(table) :
            /\ new[i].ScopeDepth = table[i].ScopeDepth
            /\ new[i].State = IF i = f THEN state ELSE table[i].State
  BY <1>1, RestatedTable
<1>3. \A n : FindSymbol(new, n) = FindSymbol(table, n)
  BY <1>1, FindSymbolRestated
<1>4. \A n \in Names : FindSymbol(table, n) # 0 => FindSymbol(table, n) \in 1..Len(table)
  BY <1>1, FindSymbolUnique
<1>5. \A n \in Names : FindSymbol(table, n) # 0 /\ n # x => FindSymbol(table, n) # f
  BY <1>1, FindSymbolUnique
<1>6. ASSUME NEW d \in 1..(depth + 1), NEW n \in Names
      PROVE  other[d][n] = IF n = x /\ BoundAt(table, x, d - 1) THEN Kind(state) ELSE stack[d][n]
  <2>1. Len(stack) = depth + 1 /\ DOMAIN stack[d] = Names
    BY StackShape
  <2>2. other[d] = IF Scoped!BoundIn(stack, d, x) THEN [stack[d] EXCEPT ![x] = Kind(state)] ELSE stack[d]
    BY <2>1 DEF Scoped!Rebind
  <2>3. Scoped!BoundIn(stack, d, x) <=> BoundAt(table, x, d - 1)
    BY <1>1, StackValue
  <2>. HIDE DEF other, stack
  <2>. QED
    BY <2>1, <2>2, <2>3
<1>7. other = [d \in 1..(depth + 1) |-> [n \in Names |-> other[d][n]]]
  <2>1. Len(stack) = depth + 1 /\ \A d \in 1..(depth + 1) : stack[d] = [n \in Names |-> stack[d][n]]
    BY StackShape DEF OverNames
  <2>2. other = [d \in 1..(depth + 1) |->
                    IF Scoped!BoundIn(stack, d, x) THEN [stack[d] EXCEPT ![x] = Kind(state)] ELSE stack[d]]
    BY <2>1 DEF Scoped!Rebind
  <2>3. \A d \in 1..(depth + 1) : other[d] = [n \in Names |-> other[d][n]]
    <3>. HIDE DEF stack, other
    <3>. QED
      BY <2>1, <2>2
  <2>. HIDE DEF stack, other
  <2>. QED
    BY <2>2, <2>3
<1>8. ASSUME NEW d \in 1..(depth + 1), NEW n \in Names
      PROVE  StackOf(new, depth)[d][n] = other[d][n]
  <2>1. StackOf(new, depth)[d][n] =
            IF BoundAt(new, n, d - 1) THEN Kind(new[FindSymbol(new, n)].State) ELSE "absent"
    <3>. HIDE DEF new
    <3>. QED
      BY <1>2, StackValue
  <2>2. stack[d][n] =
            IF BoundAt(table, n, d - 1) THEN Kind(table[FindSymbol(table, n)].State) ELSE "absent"
    BY <1>1, StackValue
  <2>3. BoundAt(new, n, d - 1) <=> BoundAt(table, n, d - 1)
    <3>. HIDE DEF new
    <3>. QED
      BY <1>2, <1>3, <1>4 DEF BoundAt
  <2>4. BoundAt(table, n, d - 1) /\ n # x => new[FindSymbol(new, n)].State = table[FindSymbol(table, n)].State
    <3>. HIDE DEF new, f
    <3>. QED
      BY <1>2, <1>3, <1>4, <1>5 DEF BoundAt
  <2>5. new[FindSymbol(new, x)].State = state
    BY <1>1, <1>2, <1>3
  <2>. HIDE DEF new, f, stack, other
  <2>. QED
    BY <2>1, <2>2, <2>3, <2>4, <2>5, <1>6
<1>. HIDE DEF new, other
<1>9. StackOf(new, depth) = other
  BY <1>7, <1>8, StackEqual
<1>. QED
  BY <1>9 DEF new, other

\* Declaring a name binds it in the innermost scope.
LEMMA FreshRefines ==
    ASSUME NEW table \in Seq(Symbol), CurrentScopeDepth \in 0..(DepthModulus - 1),
           TableOK(table, CurrentScopeDepth), NEW x \in Names, FindSymbol(table, x) = 0
    PROVE  StackOf(Store(table, x), CurrentScopeDepth)
               = Scoped!Bind(StackOf(table, CurrentScopeDepth), x)
<1>. DEFINE depth == CurrentScopeDepth
            e == Entry(x, "OWNED", depth)
            new == Append(table, e)
            stack == StackOf(table, depth)
            other == [stack EXCEPT ![Len(stack)] = [@ EXCEPT ![x] = "owned"]]
<1>1. depth \in Nat /\ x # None
  BY DepthAssumption, NoneAssumption
<1>2. Store(table, x) = new /\ new \in Seq(Symbol) /\ Unique(new) /\ Unique(table)
  BY StoreFresh DEF TableOK
<1>3. e \in Symbol /\ e.Name = x /\ e.State = "OWNED" /\ e.ScopeDepth = depth
  BY DEF Entry, Symbol, LifecycleStates
<1>4. /\ Len(stack) = depth + 1 /\ DOMAIN stack = 1..(depth + 1)
      /\ \A d \in 1..(depth + 1) : stack[d] = [n \in Names |-> stack[d][n]]
  <2>1. depth \in Nat
    BY <1>1
  <2>2. /\ Len(stack) = depth + 1 /\ DOMAIN stack = 1..(depth + 1)
        /\ \A d \in 1..(depth + 1) : OverNames(stack[d])
    BY <2>1, StackShape
  <2>. HIDE DEF stack
  <2>. QED
    BY <2>2 DEF OverNames
<1>5. Scoped!Bind(stack, x) = other
  <2>1. ~ Scoped!Bound(stack, x)
    <3>1. \A d \in 1..(depth + 1) : ~ Scoped!BoundIn(stack, d, x)
      BY <1>1, <1>2, StackValue DEF BoundAt
    <3>. QED
      BY <1>4, <3>1 DEF Scoped!Bound
  <2>. QED
    BY <1>1, <2>1 DEF Scoped!Bind
<1>6. ASSUME NEW d \in 1..(depth + 1), NEW n \in Names
      PROVE  other[d][n] = IF n = x /\ d = depth + 1 THEN "owned" ELSE stack[d][n]
  <2>1. other[d] = IF d = depth + 1 THEN [stack[d] EXCEPT ![x] = "owned"] ELSE stack[d]
    BY <1>1, <1>4
  <2>2. DOMAIN stack[d] = Names
    BY <1>4
  <2>. HIDE DEF other, stack
  <2>. QED
    BY <2>1, <2>2
<1>7. other = [d \in 1..(depth + 1) |-> [n \in Names |-> other[d][n]]]
  <2>1. other = [d \in 1..(depth + 1) |->
                    IF d = depth + 1 THEN [stack[d] EXCEPT ![x] = "owned"] ELSE stack[d]]
    <3>1. stack = [d \in 1..(depth + 1) |-> stack[d]]
      BY DEF StackOf
    <3>2. depth + 1 \in 1..(depth + 1)
      BY <1>1
    <3>3. Len(stack) = depth + 1
      BY <1>4
    <3>. HIDE DEF stack, depth
    <3>. QED
      BY <3>1, <3>2, <3>3
  <2>2. \A d \in 1..(depth + 1) : other[d] = [n \in Names |-> other[d][n]]
    <3>. HIDE DEF stack, other
    <3>. QED
      BY <2>1, <1>4
  <2>. HIDE DEF stack, other
  <2>. QED
    BY <2>1, <2>2
<1>8. /\ \A i \in 1..Len(table) : new[i] = table[i]
      /\ new[Len(table) + 1] = e
  <2>. HIDE DEF e
  <2>. QED
    BY <1>3
<1>9. \A n \in Names : FindSymbol(new, n) = IF n = x THEN Len(table) + 1 ELSE FindSymbol(table, n)
  <2>. HIDE DEF e
  <2>. QED
    BY <1>2, <1>3, FindSymbolAppended
<1>10. \A n \in Names : FindSymbol(table, n) # 0 => FindSymbol(table, n) \in 1..Len(table)
  BY <1>2, FindSymbolUnique
<1>11. ASSUME NEW d \in 1..(depth + 1), NEW n \in Names
       PROVE  StackOf(new, depth)[d][n] = other[d][n]
  <2>1. StackOf(new, depth)[d][n] =
            IF BoundAt(new, n, d - 1) THEN Kind(new[FindSymbol(new, n)].State) ELSE "absent"
    <3>. HIDE DEF new, depth
    <3>. QED
      BY <1>1, <1>2, StackValue
  <2>2. stack[d][n] =
            IF BoundAt(table, n, d - 1) THEN Kind(table[FindSymbol(table, n)].State) ELSE "absent"
    <3>. HIDE DEF depth
    <3>. QED
      BY <1>1, <1>2, StackValue
  <2>3. CASE n = x
    <3>1. FindSymbol(new, n) = Len(table) + 1
      BY <1>9, <2>3
    <3>2. new[FindSymbol(new, n)] = e /\ Len(table) + 1 # 0
      BY <1>8, <3>1
    <3>3. BoundAt(new, n, d - 1) <=> d = depth + 1
      <4>. HIDE DEF new, e, depth
      <4>. QED
        BY <1>1, <1>3, <3>1, <3>2 DEF BoundAt
    <3>4. ~ BoundAt(table, n, d - 1)
      BY <2>3 DEF BoundAt
    <3>. HIDE DEF new, e, depth, stack, other
    <3>. QED
      BY <2>1, <2>2, <2>3, <3>2, <3>3, <3>4, <1>3, <1>6 DEF Kind
  <2>4. CASE n # x
    <3>1. FindSymbol(new, n) = FindSymbol(table, n)
      BY <1>9, <2>4
    <3>2. FindSymbol(table, n) # 0 => new[FindSymbol(new, n)] = table[FindSymbol(table, n)]
      BY <1>8, <1>10, <3>1
    <3>. HIDE DEF new, e, depth, stack, other
    <3>. QED
      BY <2>1, <2>2, <2>4, <3>1, <3>2, <1>6 DEF BoundAt
  <2>. QED
    BY <2>3, <2>4
<1>12. StackOf(new, depth) = other
  <2>. HIDE DEF new, other, depth
  <2>. QED
    BY <1>1, <1>7, <1>11, StackEqual
<1>. QED
  BY <1>2, <1>5, <1>12

\* SCOPE_BEGIN opens an empty scope.
LEMMA EnterRefines ==
    ASSUME NEW table \in Seq(Symbol), NEW depth \in Nat, TableOK(table, depth)
    PROVE  StackOf(table, depth + 1) = Append(StackOf(table, depth), Scoped!Empty)
<1>. DEFINE stack == StackOf(table, depth)
            other == Append(stack, Scoped!Empty)
<1>1. /\ Len(stack) = depth + 1 /\ DOMAIN stack = 1..(depth + 1)
      /\ \A d \in 1..(depth + 1) : stack[d] = [n \in Names |-> stack[d][n]]
  BY StackShape DEF OverNames
<1>2. other = [d \in 1..(depth + 1 + 1) |-> IF d = depth + 1 + 1 THEN Scoped!Empty ELSE stack[d]]
  <2>1. stack \in Seq(Scoped!Bindings) /\ Scoped!Empty \in Scoped!Bindings
    BY StackSeq DEF Scoped!Bindings, Scoped!Empty
  <2>2. /\ other \in Seq(Scoped!Bindings) /\ Len(other) = depth + 1 + 1
        /\ \A d \in 1..(depth + 1 + 1) :
              other[d] = IF d = depth + 1 + 1 THEN Scoped!Empty ELSE stack[d]
    <3>. HIDE DEF stack
    <3>. QED
      BY <1>1, <2>1
  <2>3. other = [d \in 1..(depth + 1 + 1) |-> other[d]]
    <3>1. depth + 1 + 1 \in Nat
      OBVIOUS
    <3>. HIDE DEF stack, other
    <3>. QED
      BY <2>2, <3>1, SeqFunction
  <2>. HIDE DEF stack, other
  <2>. QED
    BY <2>2, <2>3
<1>3. \A d \in 1..(depth + 1 + 1) : other[d] = [n \in Names |-> other[d][n]]
  <2>1. Scoped!Empty = [n \in Names |-> Scoped!Empty[n]]
    BY DEF Scoped!Empty
  <2>. HIDE DEF stack, other
  <2>. QED
    BY <1>1, <1>2, <2>1
<1>4. ASSUME NEW d \in 1..(depth + 1 + 1), NEW n \in Names
      PROVE  StackOf(table, depth + 1)[d][n] = other[d][n]
  <2>1. depth + 1 \in Nat /\ Unique(table)
    BY DEF TableOK
  <2>2. StackOf(table, depth + 1)[d][n] =
            IF BoundAt(table, n, d - 1) THEN Kind(table[FindSymbol(table, n)].State) ELSE "absent"
    BY <2>1, StackValue
  <2>3. CASE d = depth + 1 + 1
    <3>1. other[d][n] = "absent"
      <4>. HIDE DEF stack, other
      <4>. QED
        BY <1>2, <2>3 DEF Scoped!Empty
    <3>2. ~ BoundAt(table, n, depth + 1)
      <4>. SUFFICES ASSUME BoundAt(table, n, depth + 1) PROVE FALSE
        OBVIOUS
      <4>1. FindSymbol(table, n) \in 1..Len(table)
        BY SymbolScope DEF BoundAt
      <4>2. table[FindSymbol(table, n)].ScopeDepth <= depth
        BY <4>1 DEF TableOK
      <4>. QED
        BY <4>2 DEF BoundAt
    <3>3. d - 1 = depth + 1
      BY <2>3
    <3>. QED
      BY <2>2, <3>1, <3>2, <3>3
  <2>4. CASE d # depth + 1 + 1
    <3>1. d \in 1..(depth + 1)
      BY <2>4
    <3>2. stack[d][n] =
              IF BoundAt(table, n, d - 1) THEN Kind(table[FindSymbol(table, n)].State) ELSE "absent"
      BY <2>1, <3>1, StackValue
    <3>. HIDE DEF stack, other
    <3>. QED
      BY <1>2, <2>2, <2>4, <3>2
  <2>. QED
    BY <2>3, <2>4
<1>5. other = [d \in 1..(depth + 1 + 1) |-> [n \in Names |-> other[d][n]]]
  <2>. HIDE DEF stack, other
  <2>. QED
    BY <1>2, <1>3
<1>. HIDE DEF other
<1>6. StackOf(table, depth + 1) = other
  BY <1>4, <1>5, StackEqual
<1>. QED
  BY <1>6 DEF other

\* HandleScopeEnd drops the innermost scope and leaves the others alone.
LEMMA LeaveRefines ==
    ASSUME NEW table \in Seq(Symbol), NEW depth \in Nat \ {0}, TableOK(table, depth),
           NEW k \in 0..Len(table),
           k > 0 => table[k].ScopeDepth # depth,
           \A i \in (k + 1)..Len(table) : table[i].ScopeDepth = depth
    PROVE  StackOf(SubSeq(table, 1, k), depth - 1)
               = SubSeq(StackOf(table, depth), 1, Len(StackOf(table, depth)) - 1)
<1>. DEFINE new == SubSeq(table, 1, k)
            stack == StackOf(table, depth)
            other == SubSeq(stack, 1, Len(stack) - 1)
<1>1. /\ Len(stack) = depth + 1 /\ DOMAIN stack = 1..(depth + 1)
      /\ \A d \in 1..(depth + 1) : stack[d] = [n \in Names |-> stack[d][n]]
  <2>1. depth \in Nat
    OBVIOUS
  <2>2. /\ Len(stack) = depth + 1 /\ DOMAIN stack = 1..(depth + 1)
        /\ \A d \in 1..(depth + 1) : OverNames(stack[d])
    BY <2>1, StackShape
  <2>. HIDE DEF stack
  <2>. QED
    BY <2>2 DEF OverNames
<1>2. other = [d \in 1..depth |-> stack[d]]
  <2>1. stack \in Seq(Scoped!Bindings)
    BY StackSeq
  <2>2. Len(stack) - 1 = depth
    BY <1>1
  <2>3. /\ other \in Seq(Scoped!Bindings) /\ Len(other) = depth
        /\ \A d \in 1..depth : other[d] = stack[d]
    <3>. HIDE DEF stack
    <3>. QED
      BY <1>1, <2>1, <2>2
  <2>4. other = [d \in 1..depth |-> other[d]]
    <3>. HIDE DEF stack, other
    <3>. QED
      BY <2>3, SeqFunction
  <2>. HIDE DEF stack, other
  <2>. QED
    BY <2>3, <2>4
<1>3. /\ new \in Seq(Symbol) /\ Len(new) = k /\ TableOK(new, depth - 1)
      /\ \A i \in 1..k : new[i] = table[i] /\ table[i].ScopeDepth < depth
  BY ScopeEndTable
<1>4. \A n \in Names : FindSymbol(new, n) =
          IF FindSymbol(table, n) <= k THEN FindSymbol(table, n) ELSE 0
  BY FindSymbolPrefix DEF TableOK
<1>5. \A n \in Names : FindSymbol(table, n) \in 0..Len(table)
  BY FindSymbolUnique DEF TableOK
<1>6. ASSUME NEW d \in 1..depth, NEW n \in Names
      PROVE  StackOf(new, depth - 1)[d][n] = other[d][n]
  <2>1. depth - 1 \in Nat /\ d \in 1..(depth - 1 + 1) /\ d \in 1..(depth + 1)
    OBVIOUS
  <2>2. StackOf(new, depth - 1)[d][n] =
            IF BoundAt(new, n, d - 1) THEN Kind(new[FindSymbol(new, n)].State) ELSE "absent"
    <3>. HIDE DEF new
    <3>. QED
      BY <2>1, <1>3, StackValue DEF TableOK
  <2>3. stack[d][n] =
            IF BoundAt(table, n, d - 1) THEN Kind(table[FindSymbol(table, n)].State) ELSE "absent"
    BY <2>1, StackValue DEF TableOK
  <2>4. CASE FindSymbol(table, n) <= k
    <3>1. FindSymbol(new, n) = FindSymbol(table, n)
      BY <1>4, <2>4
    <3>2. FindSymbol(table, n) # 0 => new[FindSymbol(new, n)] = table[FindSymbol(table, n)]
      BY <1>3, <1>5, <2>4, <3>1
    <3>. HIDE DEF new, stack, other
    <3>. QED
      BY <1>2, <2>2, <2>3, <3>1, <3>2 DEF BoundAt
  <2>5. CASE ~(FindSymbol(table, n) <= k)
    <3>1. FindSymbol(new, n) = 0
      BY <1>4, <2>5
    <3>2. FindSymbol(table, n) \in (k + 1)..Len(table)
      BY <1>5, <2>5
    <3>3. table[FindSymbol(table, n)].ScopeDepth = depth /\ d - 1 # depth
      BY <3>2
    <3>. HIDE DEF new, stack, other
    <3>. QED
      BY <1>2, <2>2, <2>3, <3>1, <3>3 DEF BoundAt
  <2>. QED
    BY <2>4, <2>5
<1>7. other = [d \in 1..(depth - 1 + 1) |-> [n \in Names |-> other[d][n]]]
  <2>1. \A d \in 1..depth : other[d] = [n \in Names |-> other[d][n]]
    <3>. HIDE DEF stack, other
    <3>. QED
      BY <1>1, <1>2
  <2>2. depth - 1 + 1 = depth
    OBVIOUS
  <2>. HIDE DEF stack, other
  <2>. QED
    BY <1>2, <2>1, <2>2
<1>8. \A d \in 1..(depth - 1 + 1) : \A n \in Names : StackOf(new, depth - 1)[d][n] = other[d][n]
  <2>1. 1..(depth - 1 + 1) = 1..depth
    OBVIOUS
  <2>. HIDE DEF new, other
  <2>. QED
    BY <1>6, <2>1
<1>. HIDE DEF new, other
<1>9. StackOf(new, depth - 1) = other
  <2>1. depth - 1 \in Nat
    OBVIOUS
  <2>. QED
    BY <2>1, <1>7, <1>8, StackEqual
<1>. QED
  BY <1>9 DEF new, other

\* The empty table stands for one empty scope.
LEMMA RefinesInit == Init => Scoped!Init
<1>. SUFFICES ASSUME Init PROVE Scoped!Init
  OBVIOUS
<1>1. Symbols = <<>> /\ CurrentScopeDepth = 0 /\ ErrorCount = 0 /\ ~done
  BY DEF Init
<1>2. \A n \in Names : StateIn(<<>>, 0, n) = "absent"
  BY DEF StateIn, Positions
<1>3. ScopeStack = [d \in 1..1 |-> [n \in Names |-> StateIn(<<>>, d - 1, n)]]
  BY <1>1 DEF ScopeStack
<1>4. \A d \in 1..1 : d - 1 = 0
  OBVIOUS
<1>5. \A d \in 1..1 : [n \in Names |-> StateIn(<<>>, d - 1, n)] = Scoped!Empty
  BY <1>2, <1>4 DEF Scoped!Empty
<1>6. ScopeStack = [d \in 1..1 |-> Scoped!Empty]
  BY <1>3, <1>5
<1>7. [d \in 1..1 |-> Scoped!Empty] = <<Scoped!Empty>>
  OBVIOUS
<1>. QED
  BY <1>1, <1>6, <1>7 DEF Scoped!Init

\* Every instruction of the tape is a step of the stack of scopes, or none at all.
LEMMA RefinesNext ==
    Inv /\ Inv' /\ [Next]_vars => [Scoped!Next]_<<ScopeStack, ErrorCount>>
<1>. SUFFICES ASSUME Inv, Inv', [Next]_vars
              PROVE  [Scoped!Next]_<<ScopeStack, ErrorCount>>
  OBVIOUS
<1>1. ASSUME ~done
      PROVE  /\ ScopeStack = StackOf(Symbols, CurrentScopeDepth)
             /\ Symbols \in Seq(Symbol)
             /\ CurrentScopeDepth \in 0..(DepthModulus - 1) /\ CurrentScopeDepth \in Nat
             /\ CurrentScopeDepth = open
             /\ TableOK(Symbols, CurrentScopeDepth)
             /\ ScopeStack # <<>>
  <2>1. CurrentScopeDepth \in 0..(DepthModulus - 1) /\ CurrentScopeDepth \in Nat
    BY DepthAssumption DEF Inv, TypeOK
  <2>2. ScopeStack = StackOf(Symbols, CurrentScopeDepth)
    BY <1>1 DEF ScopeStack, StackOf
  <2>3. StackOf(Symbols, CurrentScopeDepth) # <<>>
    BY <2>1, StackShape
  <2>. QED
    BY <1>1, <2>1, <2>2, <2>3 DEF Inv, TypeOK
<1>2. ASSUME ~done'
      PROVE  ScopeStack' = StackOf(Symbols', CurrentScopeDepth')
  BY <1>2 DEF ScopeStack, StackOf
<1>3. CASE ScopeBegin
  <2>1. /\ ~done /\ ~done' /\ Symbols' = Symbols /\ ErrorCount' = ErrorCount /\ open' = open + 1
    BY <1>3 DEF ScopeBegin, Instruction
  <2>2. CurrentScopeDepth' = CurrentScopeDepth + 1
    BY <1>1, <2>1 DEF Inv
  <2>3. ScopeStack' = Append(ScopeStack, Scoped!Empty)
    BY <1>1, <1>2, <2>1, <2>2, EnterRefines
  <2>4. Scoped!Enter
    BY <1>1, <2>1, <2>3 DEF Scoped!Enter
  <2>. QED
    BY <2>4 DEF Scoped!Next
<1>4. CASE ScopeEnd
  <2>1. /\ ~done /\ ~done' /\ ErrorCount' = ErrorCount /\ open' = open - 1 /\ open > 0
    BY <1>4 DEF ScopeEnd
  <2>2. CurrentScopeDepth' = CurrentScopeDepth - 1 /\ CurrentScopeDepth \in Nat \ {0}
    BY <1>1, <2>1 DEF Inv
  <2>3. PICK k \in 0..Len(Symbols) :
            /\ k > 0 => Symbols[k].ScopeDepth # CurrentScopeDepth
            /\ \A i \in (k + 1)..Len(Symbols) : Symbols[i].ScopeDepth = CurrentScopeDepth
            /\ Symbols' = SubSeq(Symbols, 1, k)
    BY <1>4 DEF ScopeEnd, HandleScopeEnd, LoopStopsAt
  <2>4. StackOf(SubSeq(Symbols, 1, k), CurrentScopeDepth - 1)
            = SubSeq(StackOf(Symbols, CurrentScopeDepth), 1,
                     Len(StackOf(Symbols, CurrentScopeDepth)) - 1)
    BY <1>1, <2>1, <2>2, <2>3, LeaveRefines
  <2>5. ScopeStack' = SubSeq(ScopeStack, 1, Len(ScopeStack) - 1)
    BY <1>1, <1>2, <2>1, <2>2, <2>3, <2>4
  <2>6. Scoped!Leave
    BY <1>1, <2>1, <2>5 DEF Scoped!Leave
  <2>. QED
    BY <2>6 DEF Scoped!Next
<1>5. ASSUME NEW x \in Operands, NEW y \in Operands, AnalyzeStore(x, y)
      PROVE  Scoped!Assign(x, y)
  <2>1. /\ ~done /\ ~done' /\ CurrentScopeDepth' = CurrentScopeDepth
        /\ Symbols' = Store(Symbols, x)
        /\ ErrorCount' = ErrorCount + CheckOperandRead(Symbols', y)
    BY <1>5 DEF AnalyzeStore, Instruction
  <2>2. StackOf(Store(Symbols, x), CurrentScopeDepth)
            = Scoped!Bind(StackOf(Symbols, CurrentScopeDepth), x)
    <3>1. CASE x = None
      BY <3>1 DEF Store, Scoped!Bind
    <3>2. CASE x # None /\ FindSymbol(Symbols, x) = 0
      BY <1>1, <2>1, <3>2, FreshRefines DEF Operands
    <3>3. CASE x # None /\ FindSymbol(Symbols, x) # 0
      <4>1. Store(Symbols, x) = Restated(Symbols, FindSymbol(Symbols, x), "OWNED")
        BY <3>3 DEF Store, SetState, Restated
      <4>2. x \in Names /\ "OWNED" \in LifecycleStates /\ Kind("OWNED") = "owned"
        BY <3>3 DEF Operands, LifecycleStates, Kind
      <4>3. StackOf(Store(Symbols, x), CurrentScopeDepth)
                = Scoped!Rebind(StackOf(Symbols, CurrentScopeDepth), x, "owned")
        <5>1. StackOf(Restated(Symbols, FindSymbol(Symbols, x), "OWNED"), CurrentScopeDepth)
                  = Scoped!Rebind(StackOf(Symbols, CurrentScopeDepth), x, Kind("OWNED"))
          BY <1>1, <2>1, <3>3, <4>2, RestatedRefines
        <5>. QED
          BY <4>1, <4>2, <5>1
      <4>4. Scoped!Bound(StackOf(Symbols, CurrentScopeDepth), x)
        <5>. DEFINE d == Symbols[FindSymbol(Symbols, x)].ScopeDepth
        <5>1. d + 1 \in 1..(CurrentScopeDepth + 1) /\ BoundAt(Symbols, x, d) /\ d \in Nat
          BY <1>1, <2>1, <3>3, SymbolScope, SymbolFields
        <5>2. d + 1 - 1 = d
          BY <5>1
        <5>. HIDE DEF d
        <5>3. Scoped!BoundIn(StackOf(Symbols, CurrentScopeDepth), d + 1, x)
                  <=> BoundAt(Symbols, x, d + 1 - 1)
          <6>1. Unique(Symbols) /\ Symbols \in Seq(Symbol) /\ CurrentScopeDepth \in Nat
            BY <1>1, <2>1 DEF TableOK
          <6>2. ASSUME NEW e \in 1..(CurrentScopeDepth + 1)
                PROVE  Scoped!BoundIn(StackOf(Symbols, CurrentScopeDepth), e, x)
                           <=> BoundAt(Symbols, x, e - 1)
            BY <4>2, <6>1, StackValue
          <6>. QED
            BY <5>1, <6>2
        <5>4. Len(StackOf(Symbols, CurrentScopeDepth)) = CurrentScopeDepth + 1
          BY <1>1, <2>1, StackShape
        <5>. QED
          BY <5>1, <5>2, <5>3, <5>4 DEF Scoped!Bound
      <4>. QED
        BY <3>3, <4>3, <4>4 DEF Scoped!Bind
    <3>. QED
      BY <3>1, <3>2, <3>3
  <2>3. ScopeStack' = Scoped!Bind(ScopeStack, x)
    BY <1>1, <1>2, <2>1, <2>2
  <2>4. Scoped!Report(ScopeStack', y) = CheckOperandRead(Symbols', y)
    <3>1. /\ Store(Symbols, x) \in Seq(Symbol)
          /\ TableOK(Store(Symbols, x), CurrentScopeDepth)
      BY <1>1, <2>1, StoreTable
    <3>2. Scoped!Report(StackOf(Store(Symbols, x), CurrentScopeDepth), y)
              = CheckOperandRead(Store(Symbols, x), y)
      BY <1>1, <2>1, <3>1, ReportRefines
    <3>. QED
      BY <1>2, <2>1, <3>2
  <2>. QED
    BY <1>1, <2>1, <2>3, <2>4 DEF Scoped!Assign
<1>6. ASSUME NEW y \in Operands, AnalyzeMove(y)
      PROVE  Scoped!Consume(y)
  <2>1. /\ ~done /\ ~done' /\ CurrentScopeDepth' = CurrentScopeDepth
        /\ Symbols' = SetState(Symbols, y, "MOVED")
        /\ ErrorCount' = ErrorCount + CheckOperandRead(Symbols, y)
    BY <1>6 DEF AnalyzeMove, Instruction
  <2>2. Scoped!Report(ScopeStack, y) = CheckOperandRead(Symbols, y)
    BY <1>1, <2>1, ReportRefines
  <2>3. ScopeStack' = IF y = None THEN ScopeStack ELSE Scoped!Rebind(ScopeStack, y, "moved")
    <3>1. CASE FindSymbol(Symbols, y) = 0
      <4>1. Symbols' = Symbols /\ ScopeStack' = ScopeStack
        BY <1>1, <1>2, <2>1, <3>1 DEF SetState
      <4>2. ASSUME y # None PROVE Scoped!Rebind(ScopeStack, y, "moved") = ScopeStack
        <5>1. y \in Names
          BY <4>2 DEF Operands
        <5>2. \A d \in 1..(CurrentScopeDepth + 1) :
                  ~ Scoped!BoundIn(StackOf(Symbols, CurrentScopeDepth), d, y)
          BY <1>1, <2>1, <3>1, <5>1, StackValue DEF BoundAt, TableOK
        <5>3. Len(StackOf(Symbols, CurrentScopeDepth)) = CurrentScopeDepth + 1
          BY <1>1, <2>1, StackShape
        <5>4. StackOf(Symbols, CurrentScopeDepth) =
                  [d \in 1..(CurrentScopeDepth + 1) |-> StackOf(Symbols, CurrentScopeDepth)[d]]
          BY DEF StackOf
        <5>. DEFINE stack == StackOf(Symbols, CurrentScopeDepth)
        <5>5. /\ ScopeStack = stack /\ Len(stack) = CurrentScopeDepth + 1
              /\ \A d \in 1..Len(stack) : ~ Scoped!BoundIn(stack, d, y)
              /\ stack = [d \in 1..Len(stack) |-> stack[d]]
          BY <1>1, <2>1, <5>2, <5>3, <5>4
        <5>. HIDE DEF stack
        <5>6. Scoped!Rebind(stack, y, "moved") = [d \in 1..Len(stack) |-> stack[d]]
          BY <5>5 DEF Scoped!Rebind
        <5>. QED
          BY <5>5, <5>6
      <4>. QED
        BY <4>1, <4>2
    <3>2. CASE FindSymbol(Symbols, y) # 0
      <4>1. y \in Names /\ y # None
        <5>1. FindSymbol(Symbols, y) \in 1..Len(Symbols)
              /\ Symbols[FindSymbol(Symbols, y)].Name = y
          BY <1>1, <2>1, <3>2, FindSymbolUnique DEF TableOK
        <5>. QED
          BY <1>1, <2>1, <5>1, SymbolFields, NoneAssumption
      <4>2. SetState(Symbols, y, "MOVED") = Restated(Symbols, FindSymbol(Symbols, y), "MOVED")
        BY <3>2 DEF SetState, Restated
      <4>3. "MOVED" \in LifecycleStates /\ Kind("MOVED") = "moved"
        BY DEF LifecycleStates, Kind
      <4>4. StackOf(Restated(Symbols, FindSymbol(Symbols, y), "MOVED"), CurrentScopeDepth)
                = Scoped!Rebind(StackOf(Symbols, CurrentScopeDepth), y, Kind("MOVED"))
        BY <1>1, <2>1, <3>2, <4>1, <4>3, RestatedRefines
      <4>. QED
        BY <1>1, <1>2, <2>1, <4>1, <4>2, <4>3, <4>4
    <3>. QED
      BY <3>1, <3>2
  <2>. QED
    BY <1>1, <2>1, <2>2, <2>3 DEF Scoped!Consume
<1>7. ASSUME NEW y \in Operands, NEW z \in Operands, AnalyzeArithmetic(y, z)
      PROVE  Scoped!Compute(y, z)
  <2>1. /\ ~done /\ ~done' /\ UNCHANGED <<Symbols, CurrentScopeDepth>>
        /\ ErrorCount' = ErrorCount + CheckOperandRead(Symbols, y) + CheckOperandRead(Symbols, z)
    BY <1>7 DEF AnalyzeArithmetic, Instruction
  <2>2. /\ Scoped!Report(ScopeStack, y) = CheckOperandRead(Symbols, y)
        /\ Scoped!Report(ScopeStack, z) = CheckOperandRead(Symbols, z)
    BY <1>1, <2>1, ReportRefines
  <2>3. ScopeStack' = ScopeStack
    BY <1>1, <1>2, <2>1
  <2>. QED
    BY <1>1, <2>1, <2>2, <2>3 DEF Scoped!Compute
<1>8. ASSUME NEW op \in DefaultOps, NEW y \in Operands, AnalyzeDefault(op, y)
      PROVE  UNCHANGED <<ScopeStack, ErrorCount>>
  BY <1>8 DEF AnalyzeDefault, Instruction, ScopeStack
<1>9. CASE Finish
  <2>1. ~done /\ done' /\ open = 0 /\ ErrorCount' = ErrorCount
    BY <1>9 DEF Finish
  <2>2. ScopeStack' = <<>>
    BY <2>1 DEF ScopeStack
  <2>3. ScopeStack = StackOf(Symbols, 0)
    BY <1>1, <2>1
  <2>4. SubSeq(ScopeStack, 1, Len(ScopeStack) - 1) = <<>>
    <3>1. Len(StackOf(Symbols, 0)) = 0 + 1
      <4>1. 0 \in Nat
        OBVIOUS
      <4>. QED
        BY ONLY <4>1, StackShape
    <3>2. ASSUME NEW s PROVE SubSeq(s, 1, 0) = <<>>
      OBVIOUS
    <3>3. Len(ScopeStack) - 1 = 0
      BY <2>3, <3>1
    <3>. QED
      BY <3>2, <3>3
  <2>5. Scoped!Leave
    BY <1>1, <2>1, <2>2, <2>4 DEF Scoped!Leave
  <2>. QED
    BY <2>5 DEF Scoped!Next
<1>10. CASE UNCHANGED vars
  BY <1>10 DEF vars, ScopeStack
<1>11. Operands = Names \cup {None}
  BY DEF Operands
<1>. QED
  BY <1>3, <1>4, <1>5, <1>6, <1>7, <1>8, <1>9, <1>10, <1>11 DEF Next, Returned, Scoped!Next

\* AnalyzeProgram implements the stack of scopes: whatever the tape, its flat table
\* binds, forgets and reports what Scopes.tla does.
THEOREM ImplementsScopes == Spec => ScopesRespected
<1>1. Spec => []Inv
  BY InvInit, InvNext, PTL DEF Spec
<1>2. Inv /\ Inv' /\ [Next]_vars => [Scoped!Next]_<<ScopeStack, ErrorCount>>
  BY RefinesNext
<1>. QED
  BY <1>1, <1>2, RefinesInit, PTL DEF Spec, ScopesRespected, Scoped!Spec

(***************************************************************************)
(* Straight paths: what the analysis accepts, against an execution of the  *)
(* tape.  A history of the tape says which variables are owned behind each *)
(* of its instructions when control comes from the one before.             *)
(***************************************************************************)
Control == {"LABEL", "JMP", "JMP_IF_NOT"}
Line ==
    [op : {"STORE"}, write : Names, read : Operands, label : {0}]
        \cup [op : {"MOVE"}, write : {None}, read : Names, label : {0}]
        \cup [op : Control, write : {None}, read : {None}, label : Nat]
Construct == [kind : {"while", "if"}, label : Nat]

Effect(owned, a) ==
    IF a.op = "STORE" THEN owned \cup {a.write}
    ELSE IF a.op = "MOVE" THEN owned \ {a.read} ELSE owned

\* The last conjunct follows from the others by induction, for which the provers have
\* no theorem: it is kept as the tape grows.
History(h, t) ==
    /\ h \in [0..Len(t) -> SUBSET Names] /\ h[0] = {}
    /\ \A n \in 1..Len(t) : h[n] = Effect(h[n - 1], t[n])
    /\ \A i, j \in 0..Len(t) :
          i <= j /\ (\A k \in (i + 1)..j : t[k].op \in Control) => h[j] = h[i]

\* What is emitted at once: a STORE or a MOVE, or instructions that do nothing to variables.
Adds(code, before, after) ==
    \/ Len(code) = 1 /\ code[1].op \notin Control /\ after = Effect(before, code[1])
    \/ (\A i \in 1..Len(code) : code[i].op \in Control) /\ after = before

\* g is the history of tc, which begins with t and ends with last owned.
Continues(g, h, t, tc, last) ==
    History(g, tc) /\ g[Len(tc)] = last /\ \A n \in 0..Len(t) : g[n] = h[n]

\* Every read but an assignment to itself is of a variable that is owned.
Clean(h, t) ==
    \A n \in 1..Len(t) :
        t[n].read \in Names /\ t[n].read # t[n].write => t[n].read \in h[n - 1]

OwnedIn(table) ==
    {x \in Names : FindSymbol(table, x) # 0 /\ table[FindSymbol(table, x)].State = "OWNED"}
OwnedNow == {x \in Names : values[x] = "owned"}

\* The label at the end of each construct, which is jumped to before it is emitted.
Pending(c) == c.label + (IF c.kind = "while" THEN 1 ELSE 0)
Has(t, l) == \E i \in 1..Len(t) : t[i] = Label(l)
Targets(t, open_) ==
    /\ \A i \in 1..Len(t) : t[i].op \in {"JMP", "JMP_IF_NOT"} =>
          \/ Has(t, t[i].label)
          \/ \E k \in 1..Len(open_) : t[i].label = Pending(open_[k])
    /\ \A k \in 1..Len(open_) : open_[k].kind = "while" => Has(t, open_[k].label)

\* What code leaves of the constructs that were open, and what it opens, has its labels.
Resolves(t, code, old, new) ==
    /\ \A k \in 1..Len(old) :
          Has(code, Pending(old[k])) \/ \E j \in 1..Len(new) : new[j] = old[k]
    /\ \A i \in 1..Len(code) : code[i].op \in {"JMP", "JMP_IF_NOT"} =>
          \/ Has(t \o code, code[i].label)
          \/ \E k \in 1..Len(new) : code[i].label = Pending(new[k])
    /\ \A k \in 1..Len(new) : new[k].kind = "while" =>
          Has(code, new[k].label) \/ \E j \in 1..Len(old) : old[j] = new[k]

PathTypes ==
    /\ tape \in Seq(Line) /\ labels \in Nat /\ constructs \in Seq(Construct)
    /\ values \in [Names -> {"absent", "owned", "moved"}] /\ jumped \in BOOLEAN

Straight(h) ==
    /\ History(h, tape)
    /\ ErrorCount = 0 => Clean(h, tape)
    /\ ~done => h[Len(tape)] = OwnedIn(Symbols)
    /\ ~jumped => ip \in 1..(Len(tape) + 1) /\ OwnedNow = h[ip - 1]

PathInv ==
    /\ Inv
    /\ PathTypes
    /\ Targets(tape, constructs)
    /\ done => constructs = <<>>
    /\ ~done => ip = 1 /\ ~jumped
    /\ \E h : Straight(h)

\* What the property asks of the instruction that is executed next.
LEMMA PathInvStraight == PathInv => StraightPathsOwned
<1>. SUFFICES ASSUME PathInv, Accepted, ~jumped, NEW y \in ReadNext
              PROVE  values[y] = "owned"
  BY DEF StraightPathsOwned
<1>1. PICK h : Straight(h)
  BY DEF PathInv
<1>2. ip <= Len(tape) /\ tape[ip].read # tape[ip].write /\ y = tape[ip].read /\ y \in Names
  BY DEF ReadNext
<1>3. Clean(h, tape) /\ ip \in 1..(Len(tape) + 1) /\ OwnedNow = h[ip - 1]
  BY <1>1 DEF Straight, Accepted
<1>4. ip \in 1..Len(tape)
  BY <1>2, <1>3 DEF PathInv, PathTypes
<1>5. y \in h[ip - 1]
  BY <1>2, <1>3, <1>4 DEF Clean
<1>. QED
  BY <1>3, <1>5 DEF OwnedNow

\* A STORE makes its variable owned, and no other.
LEMMA OwnedStore ==
    ASSUME NEW table \in Seq(Symbol), Unique(table), NEW x \in Names,
           CurrentScopeDepth \in 0..(DepthModulus - 1)
    PROVE  OwnedIn(Store(table, x)) = OwnedIn(table) \cup {x}
<1>. DEFINE f == FindSymbol(table, x)
<1>1. CASE f = 0
  <2>. DEFINE e == Entry(x, "OWNED", CurrentScopeDepth)
  <2>1. Store(table, x) = Append(table, e) /\ Unique(Append(table, e))
    BY <1>1, StoreFresh
  <2>2. e \in Symbol /\ e.Name = x /\ e.State = "OWNED"
    BY DEF Symbol, Entry, LifecycleStates
  <2>. HIDE DEF e
  <2>3. \A n : FindSymbol(Append(table, e), n) =
                   IF n = x THEN Len(table) + 1 ELSE FindSymbol(table, n)
    BY <2>1, <2>2, FindSymbolAppended
  <2>4. /\ Append(table, e)[Len(table) + 1] = e
        /\ \A i \in 1..Len(table) : Append(table, e)[i] = table[i]
        /\ Len(table) + 1 # 0
    BY <2>2
  <2>5. \A n : FindSymbol(table, n) = 0 \/ FindSymbol(table, n) \in 1..Len(table)
    BY FindSymbolUnique
  <2>. QED
    BY <2>1, <2>2, <2>3, <2>4, <2>5 DEF OwnedIn
<1>2. CASE f # 0
  <2>1. f \in 1..Len(table)
    BY <1>2, FindSymbolUnique
  <2>2. Store(table, x) = Restated(table, f, "OWNED")
    BY <1>2, NoneAssumption DEF Store, SetState, Restated
  <2>. HIDE DEF f
  <2>3. "OWNED" \in LifecycleStates
    BY DEF LifecycleStates
  <2>4. \A n : FindSymbol(Restated(table, f, "OWNED"), n) = FindSymbol(table, n)
    BY <2>1, <2>3, FindSymbolRestated
  <2>5. \A i \in 1..Len(table) : Restated(table, f, "OWNED")[i].State =
                                     IF i = f THEN "OWNED" ELSE table[i].State
    BY <2>1, <2>3, RestatedTable
  <2>6. \A n : \/ FindSymbol(table, n) = 0
               \/ /\ FindSymbol(table, n) \in 1..Len(table)
                  /\ FindSymbol(table, n) = f => n = x
    BY <2>1, FindSymbolUnique DEF f
  <2>7. FindSymbol(table, x) = f /\ f # 0
    BY <1>2 DEF f
  <2>. QED
    BY <2>1, <2>2, <2>4, <2>5, <2>6, <2>7 DEF OwnedIn
<1>. QED
  BY <1>1, <1>2

\* A MOVE takes its variable away, if it was there, and no other.
LEMMA OwnedMove ==
    ASSUME NEW table \in Seq(Symbol), Unique(table), NEW y \in Names
    PROVE  OwnedIn(SetState(table, y, "MOVED")) = OwnedIn(table) \ {y}
<1>. DEFINE f == FindSymbol(table, y)
<1>1. CASE f = 0
  BY <1>1 DEF OwnedIn, SetState
<1>2. CASE f # 0
  <2>1. f \in 1..Len(table)
    BY <1>2, FindSymbolUnique
  <2>2. SetState(table, y, "MOVED") = Restated(table, f, "MOVED")
    BY <1>2 DEF SetState, Restated
  <2>. HIDE DEF f
  <2>3. "MOVED" \in LifecycleStates
    BY DEF LifecycleStates
  <2>4. \A n : FindSymbol(Restated(table, f, "MOVED"), n) = FindSymbol(table, n)
    BY <2>1, <2>3, FindSymbolRestated
  <2>5. \A i \in 1..Len(table) : Restated(table, f, "MOVED")[i].State =
                                     IF i = f THEN "MOVED" ELSE table[i].State
    BY <2>1, <2>3, RestatedTable
  <2>6. \A n : \/ FindSymbol(table, n) = 0
               \/ /\ FindSymbol(table, n) \in 1..Len(table)
                  /\ FindSymbol(table, n) = f => n = y
    BY <2>1, FindSymbolUnique DEF f
  <2>7. FindSymbol(table, y) = f /\ f # 0
    BY <1>2 DEF f
  <2>. QED
    BY <2>1, <2>2, <2>4, <2>5, <2>6, <2>7 DEF OwnedIn
<1>. QED
  BY <1>1, <1>2

\* A read is reported unless its variable is owned.
LEMMA ReadOwned ==
    ASSUME NEW table, NEW y \in Names, CheckOperandRead(table, y) = 0
    PROVE  y \in OwnedIn(table)
BY NoneAssumption DEF CheckOperandRead, OwnedIn

\* A label stays where it is when the tape grows.
LEMMA HasStays ==
    ASSUME NEW t \in Seq(Line), NEW code \in Seq(Line), NEW l, Has(t, l) \/ Has(code, l)
    PROVE  Has(t \o code, l)
<1>1. Len(t) \in Nat /\ Len(code) \in Nat /\ Len(t \o code) = Len(t) + Len(code)
  OBVIOUS
<1>2. CASE Has(t, l)
  <2>1. PICK i \in 1..Len(t) : t[i] = Label(l)
    BY <1>2 DEF Has
  <2>2. i \in 1..Len(t \o code) /\ (t \o code)[i] = t[i]
    BY <1>1
  <2>. QED
    BY <2>1, <2>2 DEF Has
<1>3. CASE Has(code, l)
  <2>1. PICK i \in 1..Len(code) : code[i] = Label(l)
    BY <1>3 DEF Has
  <2>2. Len(t) + i \in 1..Len(t \o code) /\ (t \o code)[Len(t) + i] = code[i]
    BY <1>1
  <2>. QED
    BY <2>1, <2>2 DEF Has
<1>. QED
  BY <1>2, <1>3

\* The history of a longer tape: one instruction more, or some that own and move nothing.
LEMMA HistoryGrows ==
    ASSUME NEW t \in Seq(Line), NEW code \in Seq(Line), code # <<>>, NEW h, History(h, t),
           NEW last \in SUBSET Names,
           Adds(code, h[Len(t)], last)
    PROVE  \E g : Continues(g, h, t, t \o code, last)
<1>. DEFINE tc == t \o code
            m == Len(t)
            g == [n \in 0..Len(tc) |-> IF n <= m THEN h[n] ELSE last]
<1>0. m \in Nat /\ Len(code) \in Nat /\ Len(code) > 0 /\ Len(tc) = m + Len(code)
  OBVIOUS
<1>1. /\ m \in Nat /\ Len(code) \in Nat /\ Len(code) > 0 /\ Len(tc) = m + Len(code)
      /\ \A i \in 1..m : tc[i] = t[i]
      /\ \A i \in (m + 1)..Len(tc) : tc[i] = code[i - m] /\ i - m \in 1..Len(code)
  OBVIOUS
<1>2. \A n \in 0..Len(tc) : g[n] = IF n <= m THEN h[n] ELSE last
  OBVIOUS
<1>3. g \in [0..Len(tc) -> SUBSET Names]
  <2>1. \A n \in 0..m : h[n] \in SUBSET Names
    BY DEF History
  <2>. QED
    BY <1>1, <2>1
<1>. HIDE DEF g, tc, m
<1>h. /\ h[0] = {}
      /\ \A n \in 1..m : h[n] = Effect(h[n - 1], t[n])
      /\ \A i, j \in 0..m : i <= j /\ (\A k \in (i + 1)..j : t[k].op \in Control) => h[j] = h[i]
  BY DEF History, m
<1>l. \/ Len(code) = 1 /\ code[1].op \notin Control /\ last = Effect(h[m], code[1])
      \/ (\A i \in 1..Len(code) : code[i].op \in Control) /\ last = h[m]
  BY DEF m, Adds
<1>4. ASSUME NEW n \in 1..Len(tc) PROVE g[n] = Effect(g[n - 1], tc[n])
  <2>1. CASE n <= m
    <3>0. n \in 1..m /\ n \in 0..Len(tc) /\ n - 1 \in 0..Len(tc) /\ n - 1 <= m
      BY <1>1, <2>1
    <3>1. n \in 1..m /\ g[n] = h[n] /\ g[n - 1] = h[n - 1]
      BY <1>2, <2>1, <3>0
    <3>. QED
      BY <3>1, <1>1, <1>h
  <2>2. CASE ~(n <= m)
    <3>0. /\ n \in (m + 1)..Len(tc) /\ n \in 0..Len(tc) /\ n - 1 \in 0..Len(tc)
          /\ n - 1 <= m <=> n = m + 1
          /\ n = m + 1 => n - 1 = m
      <4>1. n \in 1..Len(tc) /\ Len(tc) \in Int /\ m \in Nat
        BY <1>0
      <4>. QED
        BY <2>2, <4>1
    <3>a. g[n] = last /\ g[n - 1] = IF n - 1 <= m THEN h[n - 1] ELSE last
      BY <1>2, <2>2, <3>0
    <3>1. n \in (m + 1)..Len(tc) /\ g[n] = last /\ g[n - 1] = IF n = m + 1 THEN h[m] ELSE last
      BY <3>0, <3>a
    <3>2. tc[n] = code[n - m] /\ n - m \in 1..Len(code)
      BY <1>1, <3>1
    <3>3. CASE Len(code) = 1 /\ last = Effect(h[m], code[1])
      <4>1. n = m + 1
        BY <1>1, <3>1, <3>3
      <4>2. n - m = 1
        BY <4>1, <1>1
      <4>. QED
        BY <3>1, <3>2, <3>3, <4>1, <4>2
    <3>4. CASE (\A i \in 1..Len(code) : code[i].op \in Control) /\ last = h[m]
      <4>1. tc[n].op \in Control
        BY <3>2, <3>4
      <4>2. \A s : Effect(s, tc[n]) = s
        BY <4>1 DEF Effect, Control
      <4>. QED
        BY <3>1, <3>4, <4>2
    <3>. QED
      BY <1>l, <3>3, <3>4
  <2>. QED
    BY <2>1, <2>2
<1>5. ASSUME NEW i \in 0..Len(tc), NEW j \in 0..Len(tc), i <= j,
             \A k \in (i + 1)..j : tc[k].op \in Control
      PROVE  g[j] = g[i]
  <2>1. CASE j <= m
    <3>1. i \in 0..m /\ j \in 0..m /\ g[j] = h[j] /\ g[i] = h[i]
      BY <1>1, <1>2, <1>5, <2>1
    <3>2. \A k \in (i + 1)..j : t[k].op \in Control
      <4>. TAKE k \in (i + 1)..j
      <4>1. k \in 1..m
        BY <1>1, <3>1
      <4>. QED
        BY <1>1, <1>5, <4>1
    <3>. QED
      BY <1>5, <1>h, <3>1, <3>2
  <2>2. CASE ~(j <= m) /\ ~(i <= m)
    BY <1>2, <2>2
  <2>3. CASE ~(j <= m) /\ i <= m
    <3>1. m + 1 \in (i + 1)..j /\ m + 1 \in (m + 1)..Len(tc) /\ i \in 0..m
      BY <1>1, <2>3
    <3>2. tc[m + 1] = code[1] /\ tc[m + 1].op \in Control
      <4>1. tc[m + 1] = code[m + 1 - m] /\ m + 1 - m = 1
        BY <1>1, <3>1
      <4>. QED
        BY <1>5, <3>1, <4>1
    <3>3. last = h[m]
      BY <1>l, <3>2
    <3>4. \A k \in (i + 1)..m : t[k].op \in Control
      <4>. TAKE k \in (i + 1)..m
      <4>1. k \in 1..m /\ k \in (i + 1)..j
        BY <1>1, <2>3, <3>1
      <4>. QED
        BY <1>1, <1>5, <4>1
    <3>5. h[m] = h[i]
      <4>1. m \in 0..m /\ i <= m
        BY <1>1, <3>1
      <4>. QED
        BY <1>h, <3>1, <3>4, <4>1
    <3>. QED
      BY <1>2, <2>3, <3>3, <3>5
  <2>. QED
    BY <2>1, <2>2, <2>3
<1>6. g[0] = {}
  BY <1>1, <1>2, <1>h
<1>7. History(g, tc)
  BY <1>3, <1>4, <1>5, <1>6 DEF History
<1>8. g[Len(tc)] = last /\ \A n \in 0..m : g[n] = h[n]
  BY <1>1, <1>2
<1>. QED
  BY <1>7, <1>8 DEF tc, m, Continues

\* What is emitted has its labels, or leaves them to a construct that is open.
LEMMA TargetsGrow ==
    ASSUME NEW t \in Seq(Line), NEW code \in Seq(Line), NEW old, NEW new, Targets(t, old),
           Resolves(t, code, old, new)
    PROVE  Targets(t \o code, new)
<1>0. /\ \A k \in 1..Len(old) : \/ Has(code, Pending(old[k]))
                                 \/ \E j \in 1..Len(new) : new[j] = old[k]
      /\ \A i \in 1..Len(code) : code[i].op \in {"JMP", "JMP_IF_NOT"} =>
            \/ Has(t \o code, code[i].label)
            \/ \E k \in 1..Len(new) : code[i].label = Pending(new[k])
      /\ \A k \in 1..Len(new) : new[k].kind = "while" =>
            Has(code, new[k].label) \/ \E j \in 1..Len(old) : old[j] = new[k]
  BY DEF Resolves
<1>. DEFINE tc == t \o code
<1>1. /\ Len(t) \in Nat /\ Len(code) \in Nat /\ Len(tc) = Len(t) + Len(code)
      /\ \A i \in 1..Len(t) : tc[i] = t[i]
      /\ \A i \in 1..Len(tc) :
            i \in 1..Len(t) \/ (i - Len(t) \in 1..Len(code) /\ tc[i] = code[i - Len(t)])
  OBVIOUS
<1>2. \A l : Has(t, l) \/ Has(code, l) => Has(tc, l)
  BY HasStays
<1>. HIDE DEF tc
<1>3. ASSUME NEW i \in 1..Len(tc), tc[i].op \in {"JMP", "JMP_IF_NOT"}
      PROVE  Has(tc, tc[i].label) \/ \E k \in 1..Len(new) : tc[i].label = Pending(new[k])
  <2>1. CASE i \in 1..Len(t)
    <3>1. tc[i] = t[i]
      BY <1>1, <2>1
    <3>2. CASE Has(t, t[i].label)
      BY <1>2, <3>1, <3>2
    <3>3. CASE \E k \in 1..Len(old) : t[i].label = Pending(old[k])
      <4>1. PICK k \in 1..Len(old) : t[i].label = Pending(old[k])
        BY <3>3
      <4>2. CASE Has(code, Pending(old[k]))
        BY <1>2, <3>1, <4>1, <4>2
      <4>3. CASE \E j \in 1..Len(new) : new[j] = old[k]
        BY <3>1, <4>1, <4>3
      <4>. QED
        BY <1>0, <4>2, <4>3
    <3>. QED
      BY <1>3, <2>1, <3>1, <3>2, <3>3 DEF Targets
  <2>2. CASE i - Len(t) \in 1..Len(code) /\ tc[i] = code[i - Len(t)]
    BY <1>0, <1>3, <2>2 DEF tc
  <2>. QED
    BY <1>1, <2>1, <2>2
<1>4. ASSUME NEW k \in 1..Len(new), new[k].kind = "while" PROVE Has(tc, new[k].label)
  BY <1>0, <1>2, <1>4 DEF Targets
<1>. QED
  BY <1>3, <1>4 DEF Targets, tc

\* An instruction is emitted, with the analysis of it: the execution has not begun.
LEMMA PathGrows ==
    ASSUME PathInv, NEW code \in Seq(Line), code # <<>>, ~done, ~done', tape' = tape \o code,
           UNCHANGED <<ip, values, jumped>>,
           Inv', labels' \in Nat, constructs' \in Seq(Construct), Targets(tape', constructs'),
           ErrorCount' = 0 =>
               /\ ErrorCount = 0
               /\ \A i \in 1..Len(code) :
                      code[i].read \in Names /\ code[i].read # code[i].write =>
                          i = 1 /\ code[1].read \in OwnedIn(Symbols),
           Adds(code, OwnedIn(Symbols), OwnedIn(Symbols'))
    PROVE  PathInv'
<1>1. PICK h : Straight(h)
  BY DEF PathInv
<1>. DEFINE m == Len(tape)
<1>2. /\ History(h, tape) /\ (ErrorCount = 0 => Clean(h, tape)) /\ h[m] = OwnedIn(Symbols)
      /\ ip = 1 /\ ~jumped /\ OwnedNow = h[0] /\ tape \in Seq(Line)
  BY <1>1 DEF Straight, PathInv, PathTypes
<1>3. PICK last \in SUBSET Names : last = OwnedIn(Symbols')
  BY DEF OwnedIn
<1>g. PICK g : Continues(g, h, tape, tape', last)
  <2>1. Adds(code, h[Len(tape)], last)
    BY <1>2, <1>3
  <2>2. History(h, tape) /\ tape \in Seq(Line) /\ code \in Seq(Line) /\ code # <<>>
    BY <1>2
  <2>3. \E g : Continues(g, h, tape, tape \o code, last)
    BY <2>1, <2>2, HistoryGrows
  <2>. QED
    BY <2>3
<1>4. /\ History(g, tape') /\ g[Len(tape')] = OwnedIn(Symbols')
      /\ \A n \in 0..m : g[n] = h[n]
  BY <1>3, <1>g DEF Continues
<1>5. /\ m \in Nat /\ Len(code) \in Nat /\ Len(tape') = m + Len(code)
      /\ \A i \in 1..m : tape'[i] = tape[i]
      /\ \A i \in 1..Len(tape') :
            i \in 1..m \/ (i - m \in 1..Len(code) /\ tape'[i] = code[i - m])
      /\ tape' \in Seq(Line)
  BY <1>2
<1>6. ASSUME ErrorCount' = 0 PROVE Clean(g, tape')
  <2>. SUFFICES ASSUME NEW n \in 1..Len(tape'),
                       tape'[n].read \in Names, tape'[n].read # tape'[n].write
                PROVE  tape'[n].read \in g[n - 1]
    BY DEF Clean
  <2>1. CASE n \in 1..m
    <3>1. tape'[n] = tape[n] /\ n - 1 \in 0..m
      BY <1>5, <2>1
    <3>. QED
      BY <1>2, <1>4, <1>6, <2>1, <3>1 DEF Clean
  <2>2. CASE n - m \in 1..Len(code) /\ tape'[n] = code[n - m]
    <3>1. n - m = 1 /\ code[1].read \in OwnedIn(Symbols)
      BY <1>6, <2>2
    <3>2. n - 1 = m /\ m \in 0..m
      BY <1>5, <3>1
    <3>. QED
      BY <1>2, <1>4, <2>2, <3>1, <3>2
  <2>. QED
    BY <1>5, <2>1, <2>2
<1>7. OwnedNow' = g[0] /\ ip' = 1 /\ ip' \in 1..(Len(tape') + 1) /\ ip' - 1 = 0
  <2>1. OwnedNow' = OwnedNow /\ 0 \in 0..m
    BY <1>5 DEF OwnedNow
  <2>. QED
    BY <1>2, <1>4, <1>5, <2>1
<1>8. Straight(g)'
  <2>1. History(g, tape') /\ g[Len(tape')] = OwnedIn(Symbols')
    BY <1>3, <1>4
  <2>. QED
    BY <1>6, <1>7, <2>1 DEF Straight
<1>9. PathTypes' /\ ~jumped'
  BY <1>2, <1>5 DEF PathTypes, PathInv
<1>. QED
  BY <1>7, <1>8, <1>9 DEF PathInv

\* A tape without jumps needs no labels.
LEMMA TargetsKept ==
    ASSUME PathInv, NEW a \in Line, a.op \notin Control
    PROVE  Targets(tape \o <<a>>, constructs)
<1>1. tape \in Seq(Line) /\ Targets(tape, constructs) /\ <<a>> \in Seq(Line)
  BY DEF PathInv, PathTypes
<1>2. \A i \in 1..Len(<<a>>) : <<a>>[i].op \notin {"JMP", "JMP_IF_NOT"}
  BY DEF Control
<1>3. Resolves(tape, <<a>>, constructs, constructs)
  BY <1>1, <1>2 DEF Resolves, Targets
<1>. QED
  BY <1>1, <1>3, TargetsGrow

\* One STORE or MOVE more.
LEMMA OneEmitted ==
    ASSUME PathInv, NEW a \in Line, a.op \notin Control, ~done, ~done',
           tape' = tape \o <<a>>, UNCHANGED <<ip, values, jumped, labels, constructs>>, Inv',
           ErrorCount' = 0 =>
               /\ ErrorCount = 0
               /\ a.read \in Names /\ a.read # a.write => a.read \in OwnedIn(Symbols),
           OwnedIn(Symbols') = Effect(OwnedIn(Symbols), a)
    PROVE  PathInv'
<1>. DEFINE code == <<a>>
<1>1. code \in Seq(Line) /\ code # <<>> /\ Len(code) = 1 /\ code[1] = a
  OBVIOUS
<1>2. Targets(tape', constructs')
  BY TargetsKept
<1>3. Adds(code, OwnedIn(Symbols), OwnedIn(Symbols'))
  BY <1>1 DEF Adds
<1>4. labels' \in Nat /\ constructs' \in Seq(Construct)
  BY DEF PathInv, PathTypes
<1>5. ErrorCount' = 0 =>
          /\ ErrorCount = 0
          /\ \A i \in 1..Len(code) :
                 code[i].read \in Names /\ code[i].read # code[i].write =>
                     i = 1 /\ code[1].read \in OwnedIn(Symbols)
  <2>1. \A i \in 1..Len(code) : i = 1
    BY <1>1
  <2>. HIDE DEF code
  <2>. QED
    BY <1>1, <2>1
<1>6. tape' = tape \o code
  OBVIOUS
<1>. HIDE DEF code
<1>. QED
  BY <1>1, <1>2, <1>3, <1>4, <1>5, <1>6, PathGrows

\* STORE x, y.
LEMMA StoreEmitted == ASSUME PathInv, EmitStore PROVE PathInv'
<1>1. PICK x \in Names, y \in Operands :
          AnalyzeStore(x, y) /\ tape' = tape \o <<I("STORE", x, y, 0)>>
  BY DEF EmitStore, Emit
<1>. DEFINE a == I("STORE", x, y, 0)
<1>2. /\ a.op = "STORE" /\ a.write = x /\ a.read = y /\ a \in Line /\ a.op \notin Control
  BY DEF I, Line, Control
<1>3. ~done /\ ~done' /\ UNCHANGED <<ip, values, jumped, labels, constructs>>
  BY <1>1 DEF EmitStore, Lowering, AnalyzeStore, Instruction
<1>4. Inv'
  <2>1. Next
    BY <1>1 DEF Next, Operands
  <2>. QED
    BY <2>1, InvNext DEF PathInv
<1>5. /\ Symbols \in Seq(Symbol) /\ Unique(Symbols) /\ ErrorCount \in Nat
      /\ CurrentScopeDepth \in 0..(DepthModulus - 1)
  BY <1>3 DEF PathInv, Inv, TypeOK, TableOK
<1>6. OwnedIn(Symbols') = OwnedIn(Symbols) \cup {x}
  <2>1. Symbols' = Store(Symbols, x)
    BY <1>1 DEF AnalyzeStore
  <2>. QED
    BY <1>5, <2>1, OwnedStore
<1>7. ErrorCount' = 0 => ErrorCount = 0 /\ CheckOperandRead(Symbols', y) = 0
  <2>1. CheckOperandRead(Symbols', y) \in {0, 1}
    BY ReadErrors
  <2>2. ErrorCount' = ErrorCount + CheckOperandRead(Symbols', y)
    BY <1>1 DEF AnalyzeStore
  <2>. QED
    BY <1>5, <2>1, <2>2
<1>8. ErrorCount' = 0 =>
          /\ ErrorCount = 0
          /\ a.read \in Names /\ a.read # a.write => a.read \in OwnedIn(Symbols)
  BY <1>2, <1>6, <1>7, ReadOwned
<1>9. OwnedIn(Symbols') = Effect(OwnedIn(Symbols), a)
  BY <1>2, <1>6 DEF Effect
<1>10. tape' = tape \o <<a>>
  BY <1>1
<1>. HIDE DEF a
<1>. QED
  BY <1>2, <1>3, <1>4, <1>8, <1>9, <1>10, OneEmitted

\* MOVE y.
LEMMA MoveEmitted == ASSUME PathInv, EmitMove PROVE PathInv'
<1>1. PICK y \in Names : AnalyzeMove(y) /\ tape' = tape \o <<I("MOVE", None, y, 0)>>
  BY DEF EmitMove, Emit
<1>. DEFINE a == I("MOVE", None, y, 0)
<1>2. /\ a.op = "MOVE" /\ a.read = y /\ a \in Line /\ a.op \notin Control
  BY DEF I, Line, Control
<1>3. ~done /\ ~done' /\ UNCHANGED <<ip, values, jumped, labels, constructs>>
  BY <1>1 DEF EmitMove, Lowering, AnalyzeMove, Instruction
<1>4. Inv'
  <2>1. Next
    BY <1>1 DEF Next, Operands
  <2>. QED
    BY <2>1, InvNext DEF PathInv
<1>5. Symbols \in Seq(Symbol) /\ Unique(Symbols) /\ ErrorCount \in Nat
  BY <1>3 DEF PathInv, Inv, TypeOK, TableOK
<1>6. OwnedIn(Symbols') = OwnedIn(Symbols) \ {y}
  <2>1. Symbols' = SetState(Symbols, y, "MOVED")
    BY <1>1 DEF AnalyzeMove
  <2>. QED
    BY <1>5, <2>1, OwnedMove
<1>7. ErrorCount' = 0 => ErrorCount = 0 /\ CheckOperandRead(Symbols, y) = 0
  <2>1. CheckOperandRead(Symbols, y) \in {0, 1}
    BY ReadErrors
  <2>2. ErrorCount' = ErrorCount + CheckOperandRead(Symbols, y)
    BY <1>1 DEF AnalyzeMove
  <2>. QED
    BY <1>5, <2>1, <2>2
<1>8. ErrorCount' = 0 =>
          /\ ErrorCount = 0
          /\ a.read \in Names /\ a.read # a.write => a.read \in OwnedIn(Symbols)
  BY <1>2, <1>7, ReadOwned
<1>9. OwnedIn(Symbols') = Effect(OwnedIn(Symbols), a)
  BY <1>2, <1>6 DEF Effect
<1>10. tape' = tape \o <<a>>
  BY <1>1
<1>. HIDE DEF a
<1>. QED
  BY <1>2, <1>3, <1>4, <1>8, <1>9, <1>10, OneEmitted

\* Labels and jumps, which the analysis has no error for.
LEMMA ControlEmitted ==
    ASSUME PathInv, NEW code \in Seq(Line), code # <<>>, ~done, ~done', tape' = tape \o code,
           \A i \in 1..Len(code) : code[i].op \in Control /\ code[i].read = None,
           UNCHANGED <<ip, values, jumped, Symbols, ErrorCount>>, Inv',
           labels' \in Nat, constructs' \in Seq(Construct), Targets(tape', constructs')
    PROVE  PathInv'
<1>1. Adds(code, OwnedIn(Symbols), OwnedIn(Symbols'))
  BY DEF Adds
<1>2. \A i \in 1..Len(code) : code[i].read \notin Names
  BY NoneAssumption
<1>. QED
  BY <1>1, <1>2, PathGrows

\* Labels and jumps are lines of the tape.
LEMMA ControlLines ==
    ASSUME NEW l \in Nat
    PROVE  \A a \in {Label(l), Jump(l), JumpIfNot(l)} :
               a \in Line /\ a.op \in Control /\ a.read = None /\ a.label = l
BY DEF Label, Jump, JumpIfNot, I, Line, Control

\* The end of the tape: no construct is open, and nothing has been executed.
LEMMA EndInv == ASSUME PathInv, EndOfTape PROVE PathInv'
<1>1. Inv'
  <2>1. Next
    BY DEF EndOfTape, Next
  <2>. QED
    BY <2>1, InvNext DEF PathInv
<1>2. /\ ~done /\ done' /\ constructs = <<>> /\ ErrorCount' = ErrorCount
      /\ UNCHANGED <<tape, labels, constructs, ip, values, jumped>>
  BY DEF EndOfTape, Finish, pathVars
<1>3. PICK h : Straight(h)
  BY DEF PathInv
<1>4. Straight(h)'
  BY <1>2, <1>3 DEF Straight, OwnedNow
<1>5. PathTypes' /\ Targets(tape', constructs')
  BY <1>2 DEF PathInv, PathTypes
<1>. QED
  BY <1>1, <1>2, <1>4, <1>5 DEF PathInv

\* if and while: a jump to the end, where the label is still to come.
LEMMA OpenInv ==
    ASSUME PathInv, LowerWhile \/ LowerIf
    PROVE  PathInv'
<1>. DEFINE kind == IF LowerWhile THEN "while" ELSE "if"
            c == [kind |-> kind, label |-> labels]
            code == IF LowerWhile THEN <<Label(labels), JumpIfNot(labels + 1)>>
                                  ELSE <<JumpIfNot(labels)>>
<1>1. Open(kind, code)
  BY DEF LowerWhile, LowerIf
<1>2. /\ ~done /\ ~done' /\ tape' = tape \o code /\ labels' = labels + 2
      /\ constructs' = <<c>> \o constructs
      /\ UNCHANGED <<ip, values, jumped, Symbols, ErrorCount>>
      /\ AnalyzeDefault("JMP_IF_NOT", None)
  BY <1>1 DEF Open, Emit, Lowering, AnalyzeDefault, Instruction
<1>3. Inv'
  <2>1. Next
    BY <1>2 DEF Next, Operands, DefaultOps
  <2>. QED
    BY <2>1, InvNext DEF PathInv
<1>4. /\ labels \in Nat /\ labels + 1 \in Nat /\ labels + 2 \in Nat
      /\ constructs \in Seq(Construct) /\ tape \in Seq(Line) /\ Targets(tape, constructs)
  BY DEF PathInv, PathTypes
<1>5. c \in Construct /\ c.kind = kind /\ c.label = labels
  BY <1>4 DEF Construct
<1>6. /\ code \in Seq(Line) /\ code # <<>>
      /\ \A i \in 1..Len(code) : code[i].op \in Control /\ code[i].read = None
  BY <1>4, ControlLines
<1>7. \A i \in 1..Len(code) : code[i].op \in {"JMP", "JMP_IF_NOT"} => code[i].label = Pending(c)
  <2>1. CASE LowerWhile
    <3>1. code = <<Label(labels), JumpIfNot(labels + 1)>> /\ Pending(c) = labels + 1
      BY <1>5, <2>1 DEF Pending
    <3>2. Label(labels).op = "LABEL" /\ JumpIfNot(labels + 1).label = labels + 1
      BY DEF Label, JumpIfNot, I
    <3>. QED
      BY <3>1, <3>2
  <2>2. CASE ~LowerWhile
    <3>1. code = <<JumpIfNot(labels)>> /\ Pending(c) = labels
      BY <1>4, <1>5, <2>2 DEF Pending
    <3>2. JumpIfNot(labels).label = labels
      BY DEF JumpIfNot, I
    <3>. QED
      BY <3>1, <3>2
  <2>. QED
    BY <2>1, <2>2
<1>8. c.kind = "while" => Has(code, c.label)
  BY <1>5 DEF Has
<1>. HIDE DEF c, code, kind
<1>9. /\ constructs' \in Seq(Construct) /\ constructs'[1] = c /\ Len(constructs') = 1 + Len(constructs)
      /\ \A k \in 1..Len(constructs) : k + 1 \in 1..Len(constructs') /\ constructs'[k + 1] = constructs[k]
      /\ \A k \in 1..Len(constructs') :
            k = 1 \/ (k - 1 \in 1..Len(constructs) /\ constructs'[k] = constructs[k - 1])
      /\ 1 \in 1..Len(constructs')
  BY <1>2, <1>4, <1>5
<1>10. Targets(tape \o code, constructs')
  <2>1. \A k \in 1..Len(constructs) : \E j \in 1..Len(constructs') : constructs'[j] = constructs[k]
    BY <1>9
  <2>2. \A i \in 1..Len(code) : code[i].op \in {"JMP", "JMP_IF_NOT"} =>
            \E k \in 1..Len(constructs') : code[i].label = Pending(constructs'[k])
    BY <1>7, <1>9
  <2>3. \A k \in 1..Len(constructs') : constructs'[k].kind = "while" =>
            Has(code, constructs'[k].label) \/ \E j \in 1..Len(constructs) : constructs[j] = constructs'[k]
    BY <1>8, <1>9
  <2>4. Resolves(tape, code, constructs, constructs')
    BY <2>1, <2>2, <2>3 DEF Resolves
  <2>. QED
    BY <1>4, <1>6, <2>4, TargetsGrow
<1>11. Targets(tape', constructs') /\ labels' \in Nat
  BY <1>2, <1>4, <1>10
<1>. QED
  BY <1>2, <1>3, <1>6, <1>9, <1>11, ControlEmitted

\* The end of a construct: the label that was jumped to.
LEMMA CloseInv ==
    ASSUME PathInv, Close
    PROVE  PathInv'
<1>. DEFINE c == Head(constructs)
            l == c.label
            code == IF c.kind = "while" THEN <<Jump(l), Label(l + 1)>>
                                        ELSE <<Jump(l + 1), Label(l), Label(l + 1)>>
            rest == Tail(constructs)
<1>1. /\ ~done /\ ~done' /\ constructs # <<>> /\ tape' = tape \o code /\ constructs' = rest
      /\ UNCHANGED <<ip, values, jumped, labels>> /\ UNCHANGED vars
  BY DEF Close, Emit, Lowering, vars
<1>2. Inv' /\ UNCHANGED <<Symbols, ErrorCount>>
  BY <1>1, InvNext DEF PathInv, vars
<1>3. /\ labels' \in Nat /\ constructs \in Seq(Construct) /\ tape \in Seq(Line)
      /\ Targets(tape, constructs)
  BY <1>1 DEF PathInv, PathTypes
<1>4. /\ c = constructs[1] /\ 1 \in 1..Len(constructs) /\ c \in Construct
      /\ rest \in Seq(Construct) /\ Len(rest) = Len(constructs) - 1
      /\ \A k \in 1..Len(rest) : k + 1 \in 1..Len(constructs) /\ rest[k] = constructs[k + 1]
      /\ \A k \in 1..Len(constructs) :
            k = 1 \/ (k - 1 \in 1..Len(rest) /\ constructs[k] = rest[k - 1])
  BY <1>1, <1>3
<1>5. l \in Nat /\ l + 1 \in Nat /\ c.kind \in {"while", "if"}
  BY <1>4 DEF Construct
<1>6. /\ code \in Seq(Line) /\ code # <<>>
      /\ \A i \in 1..Len(code) : code[i].op \in Control /\ code[i].read = None
  BY <1>5, ControlLines
<1>7. Has(code, Pending(c))
  <2>1. CASE c.kind = "while"
    <3>1. code = <<Jump(l), Label(l + 1)>> /\ Pending(c) = l + 1
      BY <2>1 DEF Pending
    <3>. QED
      BY <3>1 DEF Has
  <2>2. CASE c.kind # "while"
    <3>1. code = <<Jump(l + 1), Label(l), Label(l + 1)>> /\ Pending(c) = l
      BY <1>5, <2>2 DEF Pending
    <3>. QED
      BY <3>1 DEF Has
  <2>. QED
    BY <2>1, <2>2
<1>8. ASSUME NEW i \in 1..Len(code), code[i].op \in {"JMP", "JMP_IF_NOT"}
      PROVE  Has(tape, code[i].label) \/ Has(code, code[i].label)
  <2>0. \A k \in Nat : Label(k).op = "LABEL" /\ Jump(k).label = k
    BY DEF Label, Jump, I
  <2>1. CASE c.kind = "while"
    <3>1. code = <<Jump(l), Label(l + 1)>> /\ Has(tape, l)
      BY <1>3, <1>4, <2>1 DEF Targets
    <3>2. i = 1
      BY <1>5, <1>8, <2>0, <3>1
    <3>. QED
      BY <1>5, <2>0, <3>1, <3>2
  <2>2. CASE c.kind # "while"
    <3>1. code = <<Jump(l + 1), Label(l), Label(l + 1)>>
      BY <2>2
    <3>2. i = 1
      BY <1>5, <1>8, <2>0, <3>1
    <3>3. Has(code, l + 1)
      BY <3>1 DEF Has
    <3>. QED
      BY <1>5, <2>0, <3>1, <3>2, <3>3
  <2>. QED
    BY <2>1, <2>2
<1>. HIDE DEF c, l, code, rest
<1>9. Targets(tape \o code, rest)
  <2>1. \A k \in 1..Len(constructs) :
            Has(code, Pending(constructs[k])) \/ \E j \in 1..Len(rest) : rest[j] = constructs[k]
    BY <1>4, <1>7
  <2>2. \A i \in 1..Len(code) : code[i].op \in {"JMP", "JMP_IF_NOT"} => Has(tape \o code, code[i].label)
    BY <1>3, <1>6, <1>8, HasStays
  <2>3. \A k \in 1..Len(rest) : \E j \in 1..Len(constructs) : constructs[j] = rest[k]
    BY <1>4
  <2>4. Resolves(tape, code, constructs, rest)
    BY <2>1, <2>2, <2>3 DEF Resolves
  <2>. QED
    BY <1>3, <1>6, <2>4, TargetsGrow
<1>10. Targets(tape', constructs') /\ constructs' \in Seq(Construct)
  BY <1>1, <1>4, <1>9
<1>. QED
  BY <1>1, <1>2, <1>3, <1>6, <1>10, ControlEmitted

\* An instruction is executed and control goes to the next one.
LEMMA AheadInv ==
    ASSUME PathInv, done, ip <= Len(tape), Ahead, Executed,
           values' \in [Names -> {"absent", "owned", "moved"}],
           tape[ip] \in Line => OwnedNow' = Effect(OwnedNow, tape[ip])
    PROVE  PathInv'
<1>1. /\ done' /\ UNCHANGED vars /\ UNCHANGED <<ErrorCount, tape, labels, constructs, jumped>>
      /\ ip' = ip + 1
  BY DEF Ahead, Executed, vars
<1>2. Inv'
  BY <1>1, InvNext DEF PathInv
<1>3. PICK h : Straight(h)
  BY DEF PathInv
<1>4. /\ History(h, tape) /\ (ErrorCount = 0 => Clean(h, tape))
      /\ ~jumped => ip \in 1..(Len(tape) + 1) /\ OwnedNow = h[ip - 1]
      /\ tape \in Seq(Line)
  BY <1>3 DEF Straight, PathInv, PathTypes
<1>5. ASSUME ~jumped PROVE ip' \in 1..(Len(tape') + 1) /\ OwnedNow' = h[ip' - 1]
  <2>1. ip \in 1..Len(tape) /\ Len(tape) \in Nat
    BY <1>4, <1>5
  <2>2. tape[ip] \in Line
    BY <1>4, <2>1
  <2>3. h[ip] = Effect(h[ip - 1], tape[ip])
    BY <1>4, <2>1 DEF History
  <2>4. ip' - 1 = ip /\ ip' \in 1..(Len(tape') + 1)
    BY <1>1, <2>1
  <2>. QED
    BY <1>4, <1>5, <2>2, <2>3, <2>4
<1>6. Straight(h)'
  BY <1>1, <1>4, <1>5 DEF Straight
<1>7. PathTypes' /\ Targets(tape', constructs') /\ constructs' = <<>>
  BY <1>1 DEF PathInv, PathTypes
<1>. QED
  BY <1>1, <1>2, <1>6, <1>7 DEF PathInv

\* A STORE, a MOVE, a label or a jump that is not taken is executed.
LEMMA ExecuteInv ==
    ASSUME PathInv, ExecuteStore \/ ExecuteMove \/ Pass
    PROVE  PathInv'
<1>1. values \in [Names -> {"absent", "owned", "moved"}]
  BY DEF PathInv, PathTypes
<1>2. CASE ExecuteStore
  <2>1. /\ done /\ ip <= Len(tape) /\ tape[ip].op = "STORE" /\ Ahead /\ Executed
        /\ values' = [values EXCEPT ![tape[ip].write] = "owned"]
    BY <1>2 DEF ExecuteStore, Executing
  <2>2. ASSUME tape[ip] \in Line PROVE OwnedNow' = Effect(OwnedNow, tape[ip])
    <3>1. tape[ip].write \in Names
      BY <2>1, <2>2 DEF Line, Control
    <3>. QED
      BY <1>1, <2>1, <3>1 DEF OwnedNow, Effect
  <2>3. values' \in [Names -> {"absent", "owned", "moved"}]
    BY <1>1, <2>1
  <2>. QED
    BY <2>1, <2>2, <2>3, AheadInv
<1>3. CASE ExecuteMove
  <2>1. /\ done /\ ip <= Len(tape) /\ tape[ip].op = "MOVE" /\ Ahead /\ Executed
        /\ values' = [values EXCEPT ![tape[ip].read] = "moved"]
    BY <1>3 DEF ExecuteMove, Executing
  <2>2. ASSUME tape[ip] \in Line PROVE OwnedNow' = Effect(OwnedNow, tape[ip])
    <3>1. tape[ip].read \in Names
      BY <2>1, <2>2 DEF Line, Control
    <3>. QED
      BY <1>1, <2>1, <3>1 DEF OwnedNow, Effect
  <2>3. values' \in [Names -> {"absent", "owned", "moved"}]
    BY <1>1, <2>1
  <2>. QED
    BY <2>1, <2>2, <2>3, AheadInv
<1>4. CASE Pass
  <2>1. /\ done /\ ip <= Len(tape) /\ tape[ip].op \in {"LABEL", "JMP_IF_NOT"}
        /\ Ahead /\ Executed /\ values' = values
    BY <1>4 DEF Pass, Executing
  <2>2. OwnedNow' = Effect(OwnedNow, tape[ip])
    BY <2>1 DEF OwnedNow, Effect
  <2>. QED
    BY <1>1, <2>1, <2>2, AheadInv
<1>. QED
  BY <1>2, <1>3, <1>4

\* A jump finds its label; over nothing but labels it changes nothing.
LEMMA JumpInv == ASSUME PathInv, TakeJump PROVE PathInv'
<1>1. /\ done /\ done' /\ UNCHANGED vars /\ ip <= Len(tape)
      /\ tape[ip].op \in {"JMP", "JMP_IF_NOT"} /\ ip' = LabelAt(tape[ip].label)
      /\ jumped' = (jumped \/ ip' < ip \/ \E i \in (ip + 1)..ip' : tape[i].op # "LABEL")
      /\ UNCHANGED <<ErrorCount, tape, labels, constructs, values>>
  BY DEF TakeJump, Executing, Executed, vars
<1>2. Inv'
  BY <1>1, InvNext DEF PathInv
<1>3. PICK h : Straight(h)
  BY DEF PathInv
<1>4. /\ History(h, tape) /\ (ErrorCount = 0 => Clean(h, tape)) /\ constructs = <<>>
      /\ ~jumped => ip \in 1..(Len(tape) + 1) /\ OwnedNow = h[ip - 1]
      /\ tape \in Seq(Line) /\ Targets(tape, constructs) /\ jumped \in BOOLEAN
  BY <1>1, <1>3 DEF Straight, PathInv, PathTypes
<1>5. jumped' \in BOOLEAN
  BY <1>1, <1>4
<1>6. ASSUME ~jumped' PROVE ip' \in 1..(Len(tape') + 1) /\ OwnedNow' = h[ip' - 1]
  <2>1. ~jumped /\ ~(ip' < ip) /\ \A i \in (ip + 1)..ip' : tape[i].op = "LABEL"
    BY <1>1, <1>6
  <2>2. ip \in 1..Len(tape) /\ Len(tape) \in Nat
    BY <1>1, <1>4, <2>1
  <2>3. Has(tape, tape[ip].label)
    BY <1>1, <1>4, <2>2 DEF Targets
  <2>4. ip' \in 1..Len(tape)
    <3>1. PICK i \in DOMAIN tape : tape[i] = Label(tape[ip].label)
      BY <1>4, <2>3 DEF Has
    <3>2. LabelAt(tape[ip].label) \in DOMAIN tape
      BY <3>1 DEF LabelAt
    <3>. QED
      BY <1>1, <1>4, <3>2
  <2>5. /\ ip - 1 \in 0..Len(tape) /\ ip' - 1 \in 0..Len(tape) /\ ip - 1 <= ip' - 1
        /\ ip' \in 1..(Len(tape') + 1) /\ (ip - 1) + 1 = ip
    BY <1>1, <2>1, <2>2, <2>4
  <2>6. \A k \in ((ip - 1) + 1)..(ip' - 1) : tape[k].op \in Control
    <3>. TAKE k \in ((ip - 1) + 1)..(ip' - 1)
    <3>1. k = ip \/ k \in (ip + 1)..ip'
      <4>1. ip \in Int /\ ip' \in Int
        BY <2>2, <2>4
      <4>2. k \in ip..(ip' - 1)
        BY <2>5
      <4>3. \A a, b \in Int : \A n \in a..(b - 1) : n = a \/ n \in (a + 1)..b
        OBVIOUS
      <4>. QED
        BY <4>1, <4>2, <4>3, Zenon
    <3>. QED
      BY <1>1, <2>1, <3>1 DEF Control
  <2>7. h[ip' - 1] = h[ip - 1]
    BY <1>4, <2>5, <2>6 DEF History
  <2>8. OwnedNow' = OwnedNow
    BY <1>1 DEF OwnedNow
  <2>. QED
    BY <1>4, <2>1, <2>5, <2>7, <2>8
<1>7. Straight(h)'
  BY <1>1, <1>4, <1>6 DEF Straight
<1>8. PathTypes' /\ Targets(tape', constructs')
  BY <1>1, <1>4, <1>5 DEF PathInv, PathTypes
<1>. QED
  BY <1>1, <1>2, <1>4, <1>7, <1>8 DEF PathInv

\* Nothing has been emitted.
LEMMA PathInitInv == PathInit => PathInv
<1>. SUFFICES ASSUME PathInit PROVE PathInv
  OBVIOUS
<1>1. Inv
  BY InvInit DEF PathInit
<1>2. /\ tape = <<>> /\ labels = 0 /\ constructs = <<>> /\ ip = 1 /\ jumped = FALSE
      /\ values = [x \in Names |-> "absent"] /\ Symbols = <<>> /\ ~done
  BY DEF PathInit, Init
<1>3. PathTypes /\ Targets(tape, constructs)
  <2>1. tape \in Seq(Line) /\ constructs \in Seq(Construct)
    BY <1>2
  <2>2. Len(tape) = 0 /\ Len(constructs) = 0 /\ 1..0 = {}
    BY <1>2
  <2>3. Targets(tape, constructs)
    BY <2>2 DEF Targets
  <2>4. labels \in Nat /\ jumped \in BOOLEAN
    BY <1>2
  <2>5. values \in [Names -> {"absent", "owned", "moved"}]
    BY <1>2
  <2>. QED
    BY <2>1, <2>3, <2>4, <2>5 DEF PathTypes
<1>. DEFINE h == [n \in 0..0 |-> {}]
<1>4. h \in [0..0 -> SUBSET Names] /\ h[0] = {}
  OBVIOUS
<1>. HIDE DEF h
<1>5. OwnedIn(Symbols) = {} /\ OwnedNow = {}
  BY <1>2 DEF OwnedIn, OwnedNow, FindSymbol, Positions
<1>6. History(h, tape) /\ Clean(h, tape)
  <2>1. Len(tape) = 0 /\ 1..0 = {} /\ 0..0 = {0}
    BY <1>2
  <2>. QED
    BY <1>4, <2>1 DEF History, Clean
<1>7. Straight(h)
  BY <1>2, <1>4, <1>5, <1>6 DEF Straight
<1>. QED
  BY <1>1, <1>2, <1>3, <1>7 DEF PathInv

\* As long as control keeps to the order of the tape, every variable that a program
\* without an error reads is one it owns: whatever the ifs and whiles around the STOREs
\* and MOVEs, and however deep.
THEOREM AcceptedPathsOwned == PathSpec => []StraightPathsOwned
<1>1. PathInv /\ [PathNext]_<<vars, pathVars>> => PathInv'
  <2>. SUFFICES ASSUME PathInv, [PathNext]_<<vars, pathVars>> PROVE PathInv'
    OBVIOUS
  <2>1. CASE UNCHANGED <<vars, pathVars>>
    <3>1. Inv'
      BY <2>1, InvNext DEF PathInv
    <3>2. UNCHANGED <<tape, labels, constructs, ip, values, jumped, Symbols, ErrorCount, done>>
      BY <2>1 DEF vars, pathVars
    <3>3. PICK h : Straight(h)
      BY DEF PathInv
    <3>4. Straight(h)'
      BY <3>2, <3>3 DEF Straight, OwnedNow
    <3>. QED
      BY <3>1, <3>2, <3>4 DEF PathInv, PathTypes
  <2>. QED
    BY <2>1, StoreEmitted, MoveEmitted, OpenInv, CloseInv, EndInv, ExecuteInv, JumpInv
       DEF PathNext
<1>. QED
  BY <1>1, PathInitInv, PathInvStraight, PTL DEF PathSpec
==============================================================================
