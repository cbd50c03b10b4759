CONSTANTS
    NULL = NULL
    Names = {"x", "X", "y"}
    Fold <- MCFold
    Values = {v}
    Nothing = Nothing
    Defaults <- MCDefaults
    Startup <- MCStartup
    MaxKey = 7
    MaxOps = 4
SPECIFICATION Spec
INVARIANTS TreeOK PathsLead
PROPERTIES RestartAsSaved EntriesRunOnce
CHECK_DEADLOCK FALSE
