CONSTANTS
    Thread = {t1, t2}
    Key = {1, 2}
    Builds = {"fraser"}
    MaxOps = 2
    LevelMax = 2
SPECIFICATION Spec
INVARIANT FreedIsUnlinked
CHECK_DEADLOCK FALSE
