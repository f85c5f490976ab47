CONSTANTS
    Names = {x}
    MaxNodes = 4
SPECIFICATION Spec
CHECK_DEADLOCK FALSE
INVARIANTS
    TypeOK
    DefinedBeforeUse
    ComputedOnce
    ReadOnce
