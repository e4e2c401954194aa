CONSTANTS
    Thread = {1, 2, 3}
    MaxInitial = 2
    Spots = {1}
    QueuePrograms <- QueueProgramsMC
    StackPrograms <- StackProgramsMC
    QueueBuilds <- QueueBuildsMC
    StackBuilds <- StackBuildsMC
    LookupThreads = 3
    MaxChange = 2
    BufMax = 3
SPECIFICATION Spec
INVARIANTS UsesLiveTreelet TreeletMutex
PROPERTY ImplementsBuffer
