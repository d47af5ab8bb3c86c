SPECIFICATION FairRunSpec
CONSTANTS
    Threads = {t1, t2}
    Codes <- MCCodes
    Plans <- MCPlans
    Overlaps <- SerialOverlaps
    ForkMode = FALSE
    Traits = {"ignoresTerm", "leavesDescendant"}
    Interrupts = TRUE
    SinkResults <- MCSinkResults
CHECK_DEADLOCK FALSE
INVARIANTS
    NoStraySignal
    ExitPipeValid
    ReapedOnce
    DeadlineWaitIsPatient
    StopResult
    RunTrue
PROPERTIES
    ImplementsContract
    RunReturns
