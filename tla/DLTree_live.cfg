CONSTANTS
    N = 2
    Key = {1, 2}
    B = 2
    Flush = 1
    EnlargeFirst = 1
    Work <- AllWork
    MaxOps = 2
SPECIFICATION FairSpec
PROPERTY AllReturnOrStuck
\* The workload is finite, and the model stops at its end.
CHECK_DEADLOCK FALSE
