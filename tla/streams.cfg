SPECIFICATION FairSpec
CONSTANTS
    Platforms = {"posix", "windows"}
    Pipings <- OutAndErr
    Inputs <- MCInputs
    Capacity = 1
    InCapacity = 1
    Chunk = 1
    Total = 1
    MaxWrites = 2
    Closable = {"err"}
    Inherited = {"out"}
    Fallible = TRUE
CHECK_DEADLOCK FALSE
INVARIANTS
    ClosedAtEnd
    InputThenEnd
    ToldOnce
PROPERTIES
    DrainComplete
    ReadEnds
    StreamCallsReturn
