CONSTANTS
    Thread = {t1, t2}
    Key = {1, 2}
    MarkedOps = 3
    LockedOps = 3
    OptikOps = 3
    TkOps = 3
    AravindKey = {1, 2, 3}
    AravindOps = 2
    EllenOps = 2
    SkipOps = 2
    FraserBuilds = {"fraser", "herlihy", "lotanshavit"}
    FraserOps = 2
    LevelMax = 2
    MapBuilds = {"optik", "lock"}
    MapOps = 3
    Sizes = {1, 2}
    TableKey = {1, 2, 3}
    TableBuilds = {"java", "optik"}
    TableOps = 2
    Capacity = {1}
    LoadFactor = 3
    MarkedBuilds = {"harris", "michael", "harris_opt"}
    LockedBuilds = {"lazy", "lazy_sp", "pugh", "pugh_ro", "coupling", "gl_opt", "optik_gl"}
    PughRoRemoves = FALSE
    TreeletKey = {1, 2, 3, 4, 5}
    L = 4
    MaxTotal = 48
    MaxDepth = 3
SPECIFICATION FairSpec
INVARIANTS IsWhole FreedOnce ReturnsBoundValue ItemsAreSorted ActsAsSet PartHoldsKey SearchCounts
PROPERTIES ImplementsSet ImplementsPriorityQueue RemovedIsFrozen AllReturn
\* Operations are bounded in number, and the search through the backbone ends.
CHECK_DEADLOCK FALSE
