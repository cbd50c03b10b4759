CONSTANTS
    p1 = p1
    p2 = p2
    p3 = p3
    p4 = p4
    none = none
    Payloads <- MCPayloads
    NoData = {none}
    Rank <- MCRank
    TiesSwap = TRUE
    MaxItems = 4
SPECIFICATION SortFairSpec
INVARIANTS SortTypeOK SortedAtReturn IsRearranged
PROPERTY Terminates
CHECK_DEADLOCK FALSE
