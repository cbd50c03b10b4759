CONSTANTS
    Timers = {t1, t2}
    NULL = NULL
    Periods = {1, 2}
    MaxTime = 3
    MaxDepth = 2
    MaxOps = 4
SPECIFICATION FairSpec
PROPERTIES  WaitReturns
CHECK_DEADLOCK FALSE
