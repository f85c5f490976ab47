SPECIFICATION Spec
CONSTANTS
    RegisterCount = 2
    Operands = {0, 1, 2}
    IntBound = 2
    Modulus = 32
    MaxSize = 7
    Stray = Stray
    NoRegisters = NoRegisters
INVARIANTS
    TypeOK
    OwnsAllOrNothing
    FaultsFollowFailures
    PointerBound
    RunningMeansActive
PROPERTIES
    OneRun
    RunEnds
CHECK_DEADLOCK FALSE
