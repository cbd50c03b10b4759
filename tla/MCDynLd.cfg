CONSTANTS
    Files <- MCFiles
    Libs <- MCLibs
    Needs <- MCNeeds
    Imports <- MCImports
    Anonymous <- MCAnonymous
    Blocks = {b1, b2, b3, b4}
    NULL = NULL
    Word = 16
    MaxFrames = 3
    MaxOps = 4
SPECIFICATION Spec
INVARIANTS TypeOK BlocksAccounted UsersCoverHolders LinkedCodeIsThere
PROPERTY HostedFreedWithHost
CHECK_DEADLOCK FALSE
