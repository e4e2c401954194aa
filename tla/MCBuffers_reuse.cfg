CONSTANTS
    Thread = {1, 2, 3}
    MaxInitial = 2
    Spots = {1}
    QueuePrograms <- QueueProgramsMC
    StackPrograms <- StackProgramsMC
    QueueBuilds <- QueueBuildsGC
    StackBuilds <- NoBuilds
    LookupThreads = 1
    MaxChange = 1
    BufMax = 1
SPECIFICATION Spec
INVARIANT ReadsLive
