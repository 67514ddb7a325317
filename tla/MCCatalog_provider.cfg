SPECIFICATION Spec
CONSTANTS
    Calls = {c1, c2}
    Bookings = {b1, b2}
    Ratings = {4}
    PortfolioMin = 2
SYMMETRY CallSymmetry
INVARIANTS
    PublicIsVetted
    RatingIsThatOfTheReviews
PROPERTY
    OnlyStaleDecisionsLeaveTheFlow
