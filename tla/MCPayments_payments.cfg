SPECIFICATION Spec
CONSTANTS
    Calls = {c1, c2, c3, c4}
    Reasons = {r1}
    Hold = 2
    MaxFaults = 1
SYMMETRY CallSymmetry
INVARIANTS
    SucceededMeansMoved
    NothingMovesUnseen
    ReversalReturnsTheCapture
PROPERTIES
    BooksAreKept
CHECK_DEADLOCK FALSE
