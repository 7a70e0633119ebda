\* A sample counted twice keeps the processor paused for good.
CONSTANTS
    Total = 3
    MaxRequired = 2
    MaxConcurrent = 2
    PendingSize = 2
    PartialModes = {TRUE}
    MaxFailures = 0
    Required = 1
    TriggerStep = 1
    TestFreq = 2
SPECIFICATION FairSpec
PROPERTIES
    InterruptedContinueEventually
CHECK_DEADLOCK FALSE
