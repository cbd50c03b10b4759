CONSTANTS
    Windows = {w1}
    Messages = {1}
    NoWindow = NoWindow
    MaxKeys = 1
    MaxClicks = 0
    MaxDepth = 4
    MaxOps = 3
SPECIFICATION FairSpec
INVARIANT SecureReturnPoint
CHECK_DEADLOCK FALSE
