CONSTANTS
    Blocks = {b1, b2, b3, b4}
    NULL = NULL
    MaxDepth = 3
    MaxOps = 6
SYMMETRY Interchangeable
SPECIFICATION Spec
INVARIANTS ChainsInOrder OnlyOwnRemovalIsFatal
PROPERTY CallsAll
CHECK_DEADLOCK FALSE
