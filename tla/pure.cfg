SPECIFICATION Spec
CONSTANTS
    PathSize = 6
    ArgCount = 4
    ArgSize = 5
    PollSize = 3
    Limit = 17
CHECK_DEADLOCK FALSE
INVARIANTS
    PathsNormalized
    ArgumentsRoundTrip
    RedirectsParsed
    PollReports
    DescriptorsPlaced
    WrapperAgrees
