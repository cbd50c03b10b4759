CONSTANTS
    Files <- MCFiles
    Libs <- MCLibs
    Needs <- MCNeeds
    Imports <- MCImports
    Anonymous <- MCAnonymous
    Blocks = {b1, b2, b3}
    NULL = NULL
    Word = 16
    MaxFrames = 3
    MaxOps = 3
SPECIFICATION FairSpec
PROPERTY ClosedIsFreed
CHECK_DEADLOCK FALSE
