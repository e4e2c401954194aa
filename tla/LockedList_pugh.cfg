CONSTANTS
    Thread = {t1, t2}
    Key = {1, 2}
    MaxOps = 2
    Builds = {"pugh_ro"}
    PughRoRemoves = TRUE
SPECIFICATION FairSpec
INVARIANT AnswersAreTrue
CHECK_DEADLOCK FALSE
