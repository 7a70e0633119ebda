\* Without partial rollout, every run ends, one generation failing or not.
CONSTANTS
    Total = 4
    MaxRequired = 2
    MaxConcurrent = 2
    PendingSize = 2
    PartialModes = {FALSE}
    MaxFailures = 1
    Required = 1
    TriggerStep = 2
    TestFreq = 2
SPECIFICATION FairSpec
PROPERTIES
    Terminates
    PauseEnds
CHECK_DEADLOCK FALSE
