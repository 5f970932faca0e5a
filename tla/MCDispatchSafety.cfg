CONSTANTS
    c1 = c1
    c2 = c2
    t1 = t1
    t2 = t2
    g1 = g1
    k = k
    a = a
    b = b
    NoKey = NoKey
    NoRequest = NoRequest
    Keys = {k}
    Contents = {a, b}
    Publishers <- TwoPublishers
    Topics = {t1, t2}
    Groups = {g1}
    Requests <- TwoTopicRequests
    BatchSize = 2
    MaxPublications = 3
    MaxFaults = 1
SPECIFICATION FairSpec
INVARIANT TypeOK
INVARIANT NoMessageSkipped
INVARIANT KeyNamesOneMessage
INVARIANT RepliesDurable
PROPERTY StableGrowsAtEnd
PROPERTY AllDelivered
CHECK_DEADLOCK FALSE
