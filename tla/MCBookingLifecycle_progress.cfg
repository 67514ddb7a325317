SPECIFICATION FairSpec
CONSTANTS
    b1 = b1
    b2 = b2
    anna = anna
    Bookings = {b1}
    ProviderOf <- MCProviderOf
    SlotStart <- MCEarlySlotStart
    SlotEnd <- MCEarlySlotEnd
    Requests = {r1}
    Pollers = {p1, p2}
    ResponseWindow = 1
    CancelFullRefund = 1
    AutoCompleteWindow = 1
    ReminderWindow = 1
    AuthHorizon = 1
    MaxTime = 4
    MaxFaults = 1
    CancellationThreshold = 1
INVARIANTS
    OutboxTellsTheStory
    PagesAreDeserved
PROPERTIES
    EventuallyTerminalForGood
    CompletedIsSettled
