SPECIFICATION FairSpec
CONSTANTS
    Accounts = {a1, a2}
    Workers = {w1}
    Other = Other
    None = None
    Markets = {"ML"}
    MaxConcurrentJobs = 1
    LeaseMs = 0
    MaxAttempts = 2
    RetryBaseMs = 1
    RetryMaxMs = 2
    RequeueDelayMs = 1
    RateLimitBackoffMs = 1
    StaleRunThreshold = 1
    FloorDistance = 1
    MaxJobs = 2
    MaxDisturbances = 3
INVARIANT InstanceCeiling
PROPERTY EveryJobStops
