SPECIFICATION MainSpec
CONSTANTS
    RegisterCount = 0
    Operands = {0, 1}
    IntBound = 1
    Modulus = 16
    MaxSize = 7
    Stray = Stray
    NoRegisters = NoRegisters
CHECK_DEADLOCK FALSE
INVARIANTS
    MainTypeOK
    FaultsExplained
    RejectedNeverRuns
PROPERTIES
    MainEnds
