SPECIFICATION PartsSpec
CONSTANTS
    Repairs = {r1, r2}
    Capacity = 2
    MaxIncidents = 2
    HistoryFails = FALSE
    CaptureSuspends = FALSE
    MaxFrames = 7
    MaxRecoveries = 4
    Widths = {1, 3}
    MonthCounts = {1, 2}
    PageLimit = 2
    MaxTime = 8
    MaxMissing = 1
    Unreadable = Unreadable
    OutOfRange = OutOfRange
    NoTicker = NoTicker
    TradeDedupe = 2
    MaxTrade = 3
    MaxMoment = 1
    MaxMessages = 4
    MaxRestarts = 1
    Listed = 2
    Chunks = 2
    MaxChanges = 2
INVARIANTS
    NoneStranded
    RangeIsRepaired
    TradesOnce
    TickerCurrent
    VerdictsWereTrue
PROPERTIES
    ImplementsOrderedIngress
CHECK_DEADLOCK FALSE
