SPECIFICATION FairSpec
CONSTANTS
    Configs <- MCConfigs
    Errnos <- MCErrnos
    Failures <- Fallible
    Interrupts = TRUE
CHECK_DEADLOCK FALSE
INVARIANTS
    TypeOK
    StartCleansUp
    StartedMeansRunning
    ErrorTrue
    ChildContained
PROPERTIES
    StartReturns
