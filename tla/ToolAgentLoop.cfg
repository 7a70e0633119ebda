\* Without a turn limit and with one of one user turn; tools whose lists hold
\* one image, and tools whose lists hold none (all None) or two.
CONSTANTS
    PromptLength = 2
    ResponseLength = 5
    MaxModelLen = 7
    MaxAssistantTurns = 0
    UserTurnLimits = {0, 1}
    MaxParallelCalls = 2
    MaxCalls = 3
    MaxTurnText = 2
    MaxPromptImages = 1
    MaxImagesPerCall = 2
    ListSizes = {{1}, {0, 2}}
SPECIFICATION FairSpec
INVARIANTS
    TypeOK
    MaskMarksGenerated
    LogprobsFollowMask
    ImagesMatchPlaceholders
    NoLeakedInstance
    OutputFaithful
    EndsWithGenerated
PROPERTY Terminates
CHECK_DEADLOCK FALSE
