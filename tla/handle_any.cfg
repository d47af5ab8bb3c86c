SPECIFICATION FairSpec
CONSTANTS
    Threads = {t1, t2}
    Codes = {3}
    Plans <- OnePlan
    Overlaps <- SloppyOverlaps
    ForkMode = TRUE
    Traits = {"ignoresTerm", "closesExit", "leavesDescendant"}
    Interrupts = TRUE
CHECK_DEADLOCK FALSE
INVARIANTS
    ExitStatusTrue
    DestroyEndsChild
PROPERTIES
    BoundedCallsReturn
    CallsReturnAfterExit
