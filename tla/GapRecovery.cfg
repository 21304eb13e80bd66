SPECIFICATION Spec
CONSTANTS
    Repairs = {r1, r2}
    Capacity = 2
    MaxIncidents = 2
    HistoryFails = TRUE
    CaptureSuspends = TRUE
    MaxFrames = 7
    MaxRecoveries = 4
INVARIANTS
    NothingLost
    DropsReported
CHECK_DEADLOCK FALSE
