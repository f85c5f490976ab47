CONSTANTS
    Names = {x, y}
    None = None
    DepthModulus = 4
    MaxInstructions = 5
    MaxDepth = 0
    MaxNesting = 2
SPECIFICATION PathSpec
CHECK_DEADLOCK FALSE
INVARIANT
    StraightPathsOwned
