SPECIFICATION Spec
CONSTANTS
    Threads = {t1}
    Codes <- MCCodes
    Plans <- ExamplePlans
    Overlaps <- SerialOverlaps
    ForkMode = FALSE
    Traits = {}
    Interrupts = FALSE
CHECK_DEADLOCK FALSE
INVARIANT
    StopTimesOut
