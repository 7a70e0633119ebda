CONSTANTS
    Ranks = {1, 2}
    Main = 1
    Batches = 2
    TotalEpochs = 3
    TotalSteps = {4, 5}
    SaveFreqs = {0, 1, 2}
    KeepCounts = {0, 1, 2}
    Warmup = 2
    MaxCrashes = 2
    Missing = Missing
    Torn = Torn
SPECIFICATION FairSpec
INVARIANTS
    TypeOK
    TrackedComplete
    LikeUninterrupted
    RetentionBound
    FinishedDurably
PROPERTIES
    Completes
    ProgressSpec
CHECK_DEADLOCK FALSE
