CONSTANTS
    p1 = p1
    p2 = p2
    NoProc = NoProc
    NoSlot = NoSlot
    Procs <- TwoProcs
    DeliveriesPerProc = 1
    NumMessages = 2
    Malformed <- SecondMalformed
    MaxRetries = 0
    FaultKinds <- NoRenewFault
    MaxFaults = 1
    MaxClock = 3
    FaultHorizon = 1
    StaleRunningAge = 2
    MaxAttempts = 2
    Prompt = TRUE
SPECIFICATION FairSpec
INVARIANT NoConcurrentExecution
PROPERTY EventuallyAcked
CHECK_DEADLOCK FALSE
