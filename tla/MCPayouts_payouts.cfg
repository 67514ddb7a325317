SPECIFICATION FairSpec
CONSTANTS
    b1 = b1
    p1 = p1
    Providers = {p1}
    Bookings = {b1}
    OwnerOf <- MCOwnerOf
    Price = 5
    RatePercent = 30
    Triggers = {t1, t2}
    Keys = {k1}
    Pollers = {q1}
    Cadence = 2
    ClaimLimit = 2
    MaxSplits = 2
    MaxLate = 1
    MaxFaults = 1
INVARIANTS
    OnePayoutPerKey
    EarningsAgree
PROPERTIES
    OnlyOverlappingPayoutsOverpay
    CreditIsEventuallyPaid
