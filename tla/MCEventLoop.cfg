CONSTANTS
    Windows = {w1, w2}
    Messages = {1}
    NoWindow = NoWindow
    MaxKeys = 2
    MaxClicks = 2
    MaxDepth = 5
    MaxOps = 2
SPECIFICATION FairSpec
INVARIANTS TypeOK   WaitingOnce NoOldAnswer
PROPERTIES KeyRepeatedOnlyByStaleEvent  InnermostAnswered
CHECK_DEADLOCK FALSE
