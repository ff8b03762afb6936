\* Two users on two instances and the job, every way to lose an answer.
SPECIFICATION Spec
CONSTANTS
    u1 = u1
    u2 = u2
    i1 = i1
    i2 = i2
    Users = {u1, u2}
    Job = job
    Instances = {i1, i2}
    HomeOf <- TwoHomes
    NoCaller = NoCaller
    Starts = {"new", "connected"}
    LostAnswers <- AnyLoss
    MaxRequests = 2
    MaxTokens = 4
    MaxCalls = 2
    MaxFaults = 2
INVARIANTS TypeOK ExpiredIsConfirmed TokenFromSuccess GrantNotLost
PROPERTIES TokensNeverRegress ClosedAttemptsFrozen
CHECK_DEADLOCK FALSE
