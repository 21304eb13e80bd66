SPECIFICATION Spec
CONSTANTS
    FailureThreshold = 2
    SuccessThreshold = 1
    RecoveryTimeout = 1
    MaxAttempts = 3
    Rotates = TRUE
    Starts = 1
    MaxStops = 0
    PeerCloses = {"closed_ok", "closed_error"}
    Refusals = {}
    Gen = 2
INVARIANTS
    RetryAttended
CHECK_DEADLOCK FALSE
