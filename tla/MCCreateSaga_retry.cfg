SPECIFICATION Spec
CONSTANTS
    c1 = c1
    c2 = c2
    c3 = c3
    a1 = a1
    a2 = a2
    Calls = {c1, c2}
    Attempts = {a1}
    AttemptOf <- CallAndRetry
    SlotStart = 2
    AuthHorizon = 1
    MaxTime = 1
    MaxFaults = 0
INVARIANTS
    RetryReturnsTheOriginalResult
CHECK_DEADLOCK FALSE
