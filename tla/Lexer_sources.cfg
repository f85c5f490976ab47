CONSTANTS
    Sources <- AllSources
SPECIFICATION FairSpec
CHECK_DEADLOCK FALSE
INVARIANTS
    TypeOK
    ContextsInside
    EOFIsLast
PROPERTIES
    TokenizeEnds
