SPECIFICATION Spec
CONSTANTS
    FailureThreshold = 2
    SuccessThreshold = 2
    RecoveryTimeout = 2
    Attempts = {a1, a2, a3}
    Cancellable = {a1}
    Maximum = 2
    Window = 3
    Callers = {c1, c2, c3}
    DefaultCooldown = 1
    DefaultBan = 4
    RetryAfters <- MCRetryAfters
    None = None
    Tickers = {t1}
    Trades = {t2}
    Threshold = 1
    Reminder = 2
    MaxLag = 1
    Never = Never
    MaxTime = 6
INVARIANTS
    ProbeExclusive
    WindowRespected
PROPERTIES
    RecoveryEarned
    RefusalsEnd
    BanRespected
    StaleIsHeard
CHECK_DEADLOCK FALSE
