CONSTANTS
    Ranks = {1, 2}
    Main = 1
    Batches = 2
    TotalEpochs = 3
    TotalSteps = {5, 6}
    SaveFreqs = {2}
    KeepCounts = {1}
    Warmup = 2
    MaxCrashes = 2
    Missing = Missing
    Torn = Torn
SPECIFICATION Spec
INVARIANT
    NamedCheckpointKept
CHECK_DEADLOCK FALSE
