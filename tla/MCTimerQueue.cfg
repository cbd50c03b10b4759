CONSTANTS
    Timers = {t1, t2, t3}
    NULL = NULL
    Periods = {0, 1}
    MaxTime = 2
    MaxDepth = 2
    MaxOps = 6
SYMMETRY Blocks
SPECIFICATION Spec
INVARIANTS TypeOK OnlySavedNextIsFatal ReentryAfterPeriod
PROPERTY WalkMissesNone
CHECK_DEADLOCK FALSE
