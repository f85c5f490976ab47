CONSTANTS
    Sources <- BraceSources
SPECIFICATION FairSpec
CHECK_DEADLOCK FALSE
PROPERTIES
    TokenizeStops
