CONSTANTS
    c1 = c1
    s1 = s1
    s2 = s2
    NoSchedule = NoSchedule
    NoConnection = NoConnection
    Connections <- OneConnection
    Schedulers <- TwoSchedulers
    Intervals = {2}
    DefaultInterval = 1
    Initial = {}
    MaxClock = 2
    MaxCommands = 2
    MaxUserOps = 1
    MaxFaults = 2
SYMMETRY SchedulerSymmetry
SPECIFICATION Spec
INVARIANT TypeOK
INVARIANT OncePerOccurrence
INVARIANT ReferenceNamesOccurrence
PROPERTY PublishedWithAdvance
CHECK_DEADLOCK FALSE
