CONSTANTS
    p1 = p1
    p2 = p2
    NoProc = NoProc
    NoSlot = NoSlot
    Procs <- TwoProcs
    DeliveriesPerProc = 1
    NumMessages = 1
    Malformed <- NoneMalformed
    MaxRetries = 1
    FaultKinds <- AllFaults
    MaxFaults = 0
    MaxClock = 2
    FaultHorizon = 1
    StaleRunningAge = 2
    MaxAttempts = 2
    Prompt = FALSE
SPECIFICATION Spec
INVARIANT DeadLetteredNotQueued
CHECK_DEADLOCK FALSE
