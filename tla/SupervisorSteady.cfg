SPECIFICATION FairSpec
CONSTANTS
    FailureThreshold = 3
    SuccessThreshold = 1
    RecoveryTimeout = 1
    MaxAttempts = 2
    Rotates = TRUE
    Starts = 1
    MaxStops = 0
    PeerCloses = {"closed_ok", "closed_error"}
    Refusals = {"connection_budget", "control_budget", "subscription", "handler"}
    Gen = 2
INVARIANTS
    OneConnector
PROPERTIES
    AttemptsResetByFrame
    NeverGivesUp
CHECK_DEADLOCK FALSE
