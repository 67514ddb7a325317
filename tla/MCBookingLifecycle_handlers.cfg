SPECIFICATION Spec
CONSTANTS
    b1 = b1
    b2 = b2
    anna = anna
    Bookings = {b1, b2}
    ProviderOf <- MCProviderOf
    SlotStart <- MCSlotStart
    SlotEnd <- MCSlotEnd
    Requests = {r1, r2}
    Pollers = {p1}
    ResponseWindow = 2
    CancelFullRefund = 1
    AutoCompleteWindow = 1
    ReminderWindow = 2
    AuthHorizon = 2
    MaxTime = 6
    MaxFaults = 0
    CancellationThreshold = 1
SYMMETRY RequestSymmetry
INVARIANTS
    NoDoubleBooking
    AuditTrailExplainsState
    ReminderOnlyWhileConfirmed
    LedgerBackedByCapture
    SplitPerCompletion
    NoFullChargeBeforeStart
PROPERTIES
    OnlyStaleDecisionsBreakTheTable
