SPECIFICATION Spec
CONSTANTS
    Streams = {1, 2, 3}
    MaxStreams = 2
    MaxParams = 1
    Callers = {c1}
    SendSuspends = TRUE
    BudgetEnds = TRUE
    Rejects = {"UNSUBSCRIBE"}
    MaxLosses = 2
    MaxInFlight = 2
INVARIANTS
    ActiveTracksProvider
    PlacesAccounted
