SPECIFICATION FairSpec
CONSTANTS
    Bookings = {b1}
    Dispatchers = {d1, d2}
    Pollers = {q1}
    Limit = 2
    MaxFaults = 1
INVARIANTS
    DispatchedMeansTold
    RepeatedOnlyAfterFailure
PROPERTIES
    EveryTransitionIsTold
    RemindersReachBoth
