CONSTANTS
    Windows = {w1}
    Messages = {1}
    NoWindow = NoWindow
    MaxKeys = 1
    MaxClicks = 0
    MaxDepth = 3
    MaxOps = 2
SPECIFICATION FairSpec
PROPERTY QuitEndsLoop
CHECK_DEADLOCK FALSE
