\* The monitor ends a pause that is not over.
CONSTANTS
    Total = 3
    MaxRequired = 2
    MaxConcurrent = 2
    PendingSize = 2
    PartialModes = {FALSE}
    MaxFailures = 0
    Required = 1
    TriggerStep = 1
    TestFreq = 2
SPECIFICATION Spec
INVARIANTS
    NoGenerationDuringSync
CHECK_DEADLOCK FALSE
