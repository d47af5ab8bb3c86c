SPECIFICATION Spec
CONSTANTS
    PathSize = 0
    ArgCount = 4
    ArgSize = 0
    PollSize = 1
    Limit = 17
CHECK_DEADLOCK FALSE
INVARIANT ForkForks
