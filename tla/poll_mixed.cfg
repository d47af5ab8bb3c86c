SPECIFICATION FairSpec
CONSTANTS
    N = 2
    Deadlines <- MCDeadlines
    Timeouts <- MCTimeouts
    Interests <- MCInterests
    Piped <- MCPiped
    Horizon = 2
    MaxClock = 3
CHECK_DEADLOCK FALSE
PROPERTY DeadlineEndsPoll
