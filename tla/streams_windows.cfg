SPECIFICATION FairSpec
CONSTANTS
    Platforms = {"windows"}
    Pipings <- OutAndErr
    Inputs = {0}
    Capacity = 1
    InCapacity = 1
    Chunk = 1
    Total = 1
    MaxWrites = 0
    Closable = {"err"}
    Inherited = {"out"}
    Fallible = FALSE
CHECK_DEADLOCK FALSE
PROPERTIES
    ReadNeverBlocksForever
