SPECIFICATION Spec
CONSTANTS
    c1 = c1
    c2 = c2
    c3 = c3
    a1 = a1
    a2 = a2
    Calls = {c1, c2, c3}
    Attempts = {a1, a2}
    AttemptOf <- CallAndRetry
    SlotStart = 2
    AuthHorizon = 1
    MaxTime = 1
    MaxFaults = 1
SYMMETRY RetriesAlike
INVARIANTS
    BookedIsOnFile
    TakenLeavesNoHold
    LiveBookingKeepsItsHold
    NoBookingWithoutCard
    GatewayIsRecorded
PROPERTIES
    SellsTheSlotOnce
CHECK_DEADLOCK FALSE
