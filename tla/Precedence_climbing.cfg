CONSTANTS
    Tokens = {"or", "and", "==", "<", "+", "-", "*"}
    MaxOperators = 5
SPECIFICATION Spec
CHECK_DEADLOCK FALSE
INVARIANTS
    TypeOK
    TreeGroups
    TreeComplete
