CONSTANTS
    PromptLength = 1
    ResponseLength = 4
    MaxModelLen = 6
    MaxAssistantTurns = 0
    UserTurnLimits = {0}
    MaxParallelCalls = 1
    MaxCalls = 1
    MaxTurnText = 1
    MaxPromptImages = 0
    MaxImagesPerCall = 1
    ListSizes = {{1}}
    Workers = {w1, w2}
    Servers = {v1, v2}
    MaxPauses = 2
SPECIFICATION PartialFairSpec
PROPERTIES
    TurnContinues
CHECK_DEADLOCK FALSE
