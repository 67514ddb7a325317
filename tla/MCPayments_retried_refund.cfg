SPECIFICATION Spec
CONSTANTS
    Calls = {c1, c2, c3}
    Reasons = {r1}
    Hold = 2
    MaxFaults = 1
SYMMETRY CallSymmetry
INVARIANTS
    RetryIsTheSameCall
CHECK_DEADLOCK FALSE
