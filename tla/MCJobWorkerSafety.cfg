CONSTANTS
    p1 = p1
    p2 = p2
    NoProc = NoProc
    NoSlot = NoSlot
    Procs <- TwoProcs
    DeliveriesPerProc = 1
    NumMessages = 1
    Malformed <- NoneMalformed
    MaxRetries = 1
    FaultKinds <- AllFaults
    MaxFaults = 1
    MaxClock = 2
    FaultHorizon = 3
    StaleRunningAge = 2
    MaxAttempts = 2
    Prompt = FALSE
SYMMETRY ProcSymmetry
SPECIFICATION Spec
INVARIANT TypeOK
INVARIANT AckJustified
INVARIANT ErrorMatchesOutcome
PROPERTY TerminalAbsorbing
PROPERTY OnlyHolderOrStale
PROPERTY ImplementsLifecycle
CHECK_DEADLOCK FALSE
