CONSTANTS
    LoopStackMax = 4
    Kinds <- FlowKinds
    Names = {f, g}
    MaxStatements = 5
    MaxDepth = 4
SPECIFICATION Spec
INVARIANTS
    LabelsOnce
    JumpsResolve
    NoFallThrough
    SingleEntryLoops
PROPERTIES
    JumpsInnermost
