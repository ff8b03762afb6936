\* A rename that saves what it read before the tokens changed.
SPECIFICATION RenameSpec
CONSTANTS
    i1 = i1
    Users = {u1, u2}
    Job = job
    Instances = {i1}
    HomeOf <- OneHome
    NoCaller = NoCaller
    Starts = {"new", "connected"}
    LostAnswers = {"temporary_failure"}
    MaxRequests = 2
    MaxTokens = 4
    MaxCalls = 1
    MaxFaults = 0
PROPERTY RenameIsVisual
CHECK_DEADLOCK FALSE
