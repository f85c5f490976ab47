CONSTANTS
    Names = {x, y}
    None = None
    DepthModulus = 4
    MaxInstructions = 4
    MaxDepth = 2
SPECIFICATION ParameterSpec
INVARIANTS
    NoFalseErrors
