CONSTANTS
    Receivers = 2
    NumWeights = 4
    BucketSize = 2
    NumActors = 2
SPECIFICATION FairSpec
INVARIANTS
    TypeOK
    WeightsIntact
PROPERTIES
    AllArrive
CHECK_DEADLOCK FALSE
