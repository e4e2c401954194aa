CONSTANTS
    Thread = {t1, t2}
    MaxOps = 3
SPECIFICATION Spec
INVARIANT VersionIsCurrent
CHECK_DEADLOCK FALSE
