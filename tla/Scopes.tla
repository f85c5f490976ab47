------------------------------- MODULE Scopes -------------------------------
(***************************************************************************)
(* What the ownership analysis keeps track of, seen without its table: a   *)
(* stack of scopes, each of which says of every name whether it is bound   *)
(* there and, if so, whether its value is still owned, and the number of   *)
(* reads reported.  SSSS.tla shows that AnalyzeProgram implements this.    *)
(***************************************************************************)
EXTENDS Integers, Sequences

CONSTANTS
    Names,      \* the variables
    None        \* an operand that is not a variable

VARIABLES
    scopes,     \* the open scopes, outermost first
    reports     \* the reads of a name that is not owned

Bindings == [Names -> {"absent", "owned", "moved"}]
Empty == [n \in Names |-> "absent"]

BoundIn(s, d, x) == s[d][x] # "absent"
Bound(s, x) == \E d \in 1..Len(s) : BoundIn(s, d, x)

\* One report for each operand that is a variable and not owned in any scope.
Report(s, x) ==
    IF x = None \/ \E d \in 1..Len(s) : s[d][x] = "owned" THEN 0 ELSE 1

Init == scopes = <<Empty>> /\ reports = 0

\* An assignment rebinds the name where it is bound, and binds it in the
\* innermost scope otherwise: a name is never bound twice.
Rebind(s, x, value) ==
    [d \in 1..Len(s) |-> IF BoundIn(s, d, x) THEN [s[d] EXCEPT ![x] = value] ELSE s[d]]
Bind(s, x) ==
    IF x = None THEN s
    ELSE IF Bound(s, x) THEN Rebind(s, x, "owned")
    ELSE [s EXCEPT ![Len(s)] = [@ EXCEPT ![x] = "owned"]]

Assign(x, y) ==
    /\ scopes # <<>>
    /\ scopes' = Bind(scopes, x)
    /\ reports' = reports + Report(scopes', y)

Consume(y) ==
    /\ scopes # <<>>
    /\ scopes' = IF y = None THEN scopes ELSE Rebind(scopes, y, "moved")
    /\ reports' = reports + Report(scopes, y)

Compute(y, z) ==
    /\ scopes # <<>>
    /\ reports' = reports + Report(scopes, y) + Report(scopes, z)
    /\ UNCHANGED scopes

Enter ==
    /\ scopes # <<>>
    /\ scopes' = Append(scopes, Empty)
    /\ UNCHANGED reports

\* Everything bound in the innermost scope is forgotten; the end of the program
\* ends the outermost one.
Leave ==
    /\ scopes # <<>>
    /\ scopes' = SubSeq(scopes, 1, Len(scopes) - 1)
    /\ UNCHANGED reports

Next ==
    \/ \E x, y \in Names \cup {None} : Assign(x, y) \/ Compute(x, y)
    \/ \E y \in Names \cup {None} : Consume(y)
    \/ Enter \/ Leave

Spec == Init /\ [][Next]_<<scopes, reports>>
=============================================================================
