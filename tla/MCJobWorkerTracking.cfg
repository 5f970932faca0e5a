CONSTANTS
    p1 = p1
    p2 = p2
    NoProc = NoProc
    NoSlot = NoSlot
    Procs <- TwoProcs
    DeliveriesPerProc = 2
    NumMessages = 1
    Malformed <- NoneMalformed
    MaxRetries = 0
    FaultKinds <- Abandonments
    MaxFaults = 1
    MaxClock = 4
    FaultHorizon = 2
    StaleRunningAge = 2
    MaxAttempts = 2
    Prompt = TRUE
SPECIFICATION Spec
INVARIANT ActiveClaimTracked
CHECK_DEADLOCK FALSE
