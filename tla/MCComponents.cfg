SPECIFICATION ComponentsSpec
CONSTANTS
    None = None
    Ledgers <- MCLedgers
    PendingLedgers <- MCPendingLedgers
    Window = 1
    Extension = 2
    MaxCandidates = 2
    MinInt <- MCMinInt
    Ranges <- MCRanges
    MaxWindows = 2
    MaxSubmitted = 1
    MaxUserOps = 1
    MaxFaults = 1
    Imports = {"i1", "i2"}
    Situations <- MCSituations
    Users = {"u1"}
    Runners = {w1, w2}
    Starts = {"s1", "s2"}
    Synthetic = {"s2"}
    Finishers = {f1, f2}
    MaxMade = 2
    Topics = {"t1", "t2"}
    Topic <- MCTopic
    Deliveries = {d1, d2}
    MaxTries = 2
    MaxAbandons = 1
    Requests = {"q1", "q2"}
    Readers = {"r1"}
    Buffer = 1
    Yields <- MCYields
    Partial = {1}
INVARIANTS
    ComponentsTypeOK
    PairsSound
    AllUniquePaired
    
    NoDoubleEntry
    PreviewKept
    OneConnectionPerStart
    DatabaseClosedLast
    NobodyWaitsForever
    StreamsExact
    ReadsComplete
    RunsEnd
PROPERTIES
    DecisionsExact
    UsersWordKept
    LongDeliveryPreserved
    TitleKept
CHECK_DEADLOCK FALSE
