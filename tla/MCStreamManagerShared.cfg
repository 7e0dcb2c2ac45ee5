SPECIFICATION FairSpec
CONSTANTS
    t1 = t1
    t2 = t2
    s1 = s1
    s2 = s2
    Tasks = {t1, t2}
    Streams = {s1, s2}
INVARIANTS
    ManagerTypeOK
    LocksFollowCalls
    RemovedIsCleared
PROPERTIES
    CancelAllIsComplete
    EveryManagerCallReturns
