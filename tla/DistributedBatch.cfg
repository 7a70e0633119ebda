CONSTANTS
    DpSize = 2
    Replicas = 2
    AgentWorkers = 3
    BatchSizes = {4, 8}
    ValSizes = {1, 2, 3, 4}
    GroupSize = 2
    MaxSeqlen = 2
    MaxTokenLen = 3
SPECIFICATION Spec
INVARIANTS
    ResultsMatch
    GroupsStayTogether
    WellBalanced
    LockStep
