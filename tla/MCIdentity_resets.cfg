SPECIFICATION FairSpec
CONSTANTS
    Slots = {s1, s2}
    Emails = {e1}
    Conns = {k1, k2}
    RateMax = 1
    Loads <- MCLoads
INVARIANTS
    AnswersAreDurable
    ResetEndsEverySession
PROPERTY
    EveryCallIsAnswered
CHECK_DEADLOCK FALSE
