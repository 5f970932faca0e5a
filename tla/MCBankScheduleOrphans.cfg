CONSTANTS
    c1 = c1
    s1 = s1
    s2 = s2
    NoSchedule = NoSchedule
    NoConnection = NoConnection
    Connections <- OneConnection
    Schedulers <- OneScheduler
    Intervals = {1, 2}
    DefaultInterval = 1
    Initial = {}
    MaxClock = 2
    MaxCommands = 2
    MaxUserOps = 1
    MaxFaults = 0
SPECIFICATION Spec
INVARIANT NoOrphans
CHECK_DEADLOCK FALSE
