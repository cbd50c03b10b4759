CONSTANTS
    Items = {i1, i2, i3, i4}
    Values = {d1, d2}
    NULL = NULL
    Word = 16
SYMMETRY Blocks
SPECIFICATION Spec
INVARIANTS TypeOK ListInv WalksAgree
PROPERTY ImplementsSequence
CHECK_DEADLOCK FALSE
