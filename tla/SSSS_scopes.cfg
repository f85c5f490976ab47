CONSTANTS
    Names = {x, y, z}
    None = None
    DepthModulus = 4
    MaxInstructions = 7
    MaxDepth = 3
SPECIFICATION Spec
INVARIANTS
    TypeOK
    SymbolTable
PROPERTIES
    ScopesRespected
