SPECIFICATION Spec
CONSTANTS
    Accounts = {a1}
    Workers = {w1, w2}
    Other = Other
    None = None
    Markets = {"ML"}
    MaxConcurrentJobs = 1
    LeaseMs = 1
    MaxAttempts = 2
    RetryBaseMs = 1
    RetryMaxMs = 2
    RequeueDelayMs = 1
    RateLimitBackoffMs = 2
    StaleRunThreshold = 2
    FloorDistance = 2
    MaxJobs = 1
    MaxDisturbances = 4
SYMMETRY Symmetry
PROPERTY PauseParksAfterChunk
