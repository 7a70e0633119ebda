\* Four samples and at most two that await the trainer, so that the rollouter
\* pauses by itself, both with and without partial rollout.
CONSTANTS
    Total = 4
    MaxRequired = 2
    MaxConcurrent = 2
    PendingSize = 2
    PartialModes = {FALSE, TRUE}
    MaxFailures = 1
    Required = 1
    TriggerStep = 1
    TestFreq = 2
SPECIFICATION Spec
INVARIANTS
    SingleCustody
    NothingVanishes
    InFlightBound
    ConcurrencyBound
    FinishSignalKept
    VersionLag
PROPERTIES
    SubmitsOnlyUnpaused
CHECK_DEADLOCK FALSE
