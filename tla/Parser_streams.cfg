CONSTANTS
    Streams <- AllStreams
    StackLimit = 60
SPECIFICATION FairSpec
CHECK_DEADLOCK FALSE
INVARIANTS
    TypeOK
    AcceptedNests
    NullOnlyAfterError
    CountersReturn
    RecursionConsumes
PROPERTIES
    ParserEnds
