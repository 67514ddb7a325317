SPECIFICATION OracleSpec
CONSTANTS
    Clocks <- MCClocks
    Deadlines <- MCDeadlines
    SlotOpens = 4
    CancelWindow = 2
    DayLength = 8
    WeekLength = 2
    Buffer = 1
    Completions <- MCCompletions
    CompletionWorth <- MCCompletionWorth
    LastTick = 14
    Durations <- MCDurations
    Patterns <- MCPatterns
    ExtraHours <- MCExtraHours
    Occupancies <- MCOccupancies
    MaxExceptions = 2
    Arguments <- MCArguments
    Queries <- MCQueries
    Searches <- MCSearches
    Filters <- MCFilters
    Threshold = 3
INVARIANTS
    MachineMatchesDesign
    SlotsAreTheFreeGrid
    CardsFollowMerit
PROPERTIES
    TimeOnlyMakesCancellingDearer
    NoSlotComesBack
CHECK_DEADLOCK FALSE
