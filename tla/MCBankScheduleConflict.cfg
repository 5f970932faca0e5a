CONSTANTS
    c1 = c1
    s1 = s1
    s2 = s2
    NoSchedule = NoSchedule
    NoConnection = NoConnection
    Connections <- OneConnection
    Schedulers <- OneScheduler
    Intervals = {1, 2}
    DefaultInterval = 1
    Initial = {c1}
    MaxClock = 3
    MaxCommands = 3
    MaxUserOps = 0
    MaxFaults = 0
SPECIFICATION Spec
PROPERTY DueIsAdvanced
CHECK_DEADLOCK FALSE
