\* Only network failures: the provider served the request, its answer was lost.
SPECIFICATION Spec
CONSTANTS
    u1 = u1
    u2 = u2
    i1 = i1
    i2 = i2
    Users = {u1, u2}
    Job = job
    Instances = {i1, i2}
    HomeOf <- TwoHomes
    NoCaller = NoCaller
    Starts = {"connected"}
    LostAnswers <- NetworkFailure
    MaxRequests = 2
    MaxTokens = 4
    MaxCalls = 2
    MaxFaults = 1
INVARIANT ResendIsSafe
CHECK_DEADLOCK FALSE
