SPECIFICATION Spec
CONSTANTS
    Duration = 1
    MonthStarts = {0, 2, 4}
    NaN = NaN
    Monthly = {2}
    Odd <- MCOdd
    Slices = 2
    Horizon = 2
    PageLimit = 1
    MaxAttempts = 2
    MaxFaults = 2
    MaxLine = 2
    OutputUnits = 2
INVARIANTS
    CompleteIsExact
    CompleteIsConvertible
    ConvertedAsDefined
PROPERTIES
    EventuallyDecided
CHECK_DEADLOCK FALSE
