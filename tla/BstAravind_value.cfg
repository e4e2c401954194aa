CONSTANTS
    Thread = {t1, t2}
    Key = {1, 2}
    MaxOps = 3
SPECIFICATION Spec
INVARIANT RemovalIsReported
\* Operations are bounded in number.
CHECK_DEADLOCK FALSE
