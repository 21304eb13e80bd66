SPECIFICATION FairSpec
CONSTANTS
    FailureThreshold = 2
    SuccessThreshold = 1
    RecoveryTimeout = 1
    MaxAttempts = 1
    Rotates = FALSE
    Starts = 2
    MaxStops = 1
    PeerCloses = {"closed_ok", "closed_error"}
    Refusals = {"control_budget", "handler"}
    Gen = 2
INVARIANTS
    AdapterExclusive
    StoppedClosesSocket
PROPERTIES
    StopReturns
CHECK_DEADLOCK FALSE
