CONSTANTS
    N = 3
    Null = 0
    Wrap = 4
    LocalTickets = 2
    Floor <- FloorMC
    MaxOps = 4
    Versions = 8
    Lag = 3
SPECIFICATION FairSpec
INVARIANTS SuccessMeansUnchanged VersionTellsChange CountTellsInside ReadersExclude IInv
PROPERTIES ImplementsLock ImplementsLayoutLock RetryEnds SomeChangeStarts AllEnter SomeEnters SomeWriterEnters
