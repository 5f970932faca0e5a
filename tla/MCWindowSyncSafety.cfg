CONSTANTS
    r1 = r1
    r2 = r2
    v1 = v1
    v2 = v2
    Runs = {r1, r2}
    NItems = 2
    Values = {v1, v2}
    ItemDays = {0, 2}
    PostedFirst = {1}
    FirstDays = {0}
    ChunkDays = 2
    RecentDays = 2
    BackfillDays = 3
    ManualWindows <- MCManualWindows
    MaxClock = 4
    MaxStarts = 2
    MaxEvents = 2
    None = None
SPECIFICATION Spec
SYMMETRY MCSymmetry
CHECK_DEADLOCK FALSE
INVARIANT TypeOK
INVARIANT CheckpointCovered
INVARIANT TransactionsToldApart
INVARIANT CorrectionsKept
 
PROPERTY PairStateOwned
