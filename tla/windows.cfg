SPECIFICATION FairSpec
CONSTANTS
    t1 = t1
    t2 = t2
    Threads = {t1, t2}
    Users = {t1}
    Configs <- MCConfigs
    Failures <- MCFailures
    Errnos = {8}
    Codes <- MCCodes
CHECK_DEADLOCK FALSE
INVARIANTS
    HandlesAccounted
    StartTrue
    ErrorModeContained
    StatusTrue
    DestroyLeavesNoChild
PROPERTIES
    CallsReturn
