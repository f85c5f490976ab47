CONSTANTS
    LoopStackMax = 1
    Kinds <- AllKinds
    Names = {f, g}
    MaxStatements = 4
    MaxDepth = 4
SPECIFICATION Spec
INVARIANTS
    TypeOK
    BracketsNest
    LoopStackOpen
