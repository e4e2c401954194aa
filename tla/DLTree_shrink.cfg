CONSTANTS
    N = 2
    Key = {1, 2}
    B = 2
    Flush = 1
    EnlargeFirst = 1
    Work <- ShrinkWork
    MaxOps = 2
SPECIFICATION FairSpec
PROPERTY AllReturn
\* The workload is finite, and the model stops at its end.
CHECK_DEADLOCK FALSE
