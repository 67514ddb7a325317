SPECIFICATION Spec
CONSTANTS
    Bookings = {b1}
    Dispatchers = {d1}
    Pollers = {q1}
    Limit = 2
    MaxFaults = 0
INVARIANT
    ReminderFiresOnce
