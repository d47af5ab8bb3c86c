SPECIFICATION FairSpec
CONSTANTS
    N = 2
    Deadlines <- MCDeadlines
    Timeouts <- MCTimeouts
    Interests <- MCInterests
    Piped <- MCPiped
    Horizon = 2
    MaxClock = 3
INVARIANTS
    SleepsWithinDeadlines
PROPERTIES
    ExpiryTrue
    EventsTrue
    PollReturns
CHECK_DEADLOCK FALSE
