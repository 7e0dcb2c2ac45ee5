SPECIFICATION MixedSpec
CONSTANTS
    a = a
    b = b
    c = c
    d = d
    r1 = r1
    r2 = r2
    r3 = r3
    Requests = {r1, r2, r3}
    OtherTasks = {}
    Keys = {a, b, c}
    Databases = {d}
    Permission <- ChecksPermission
    Calls <- AllCalls
    MaxConnections = 1
    MaxRows = 1
    StatusMayChange = TRUE
    HealthyKeys = {a, b, c}
SYMMETRY RequestSymmetry
CONSTRAINT StatusChangesAlone
INVARIANTS
    TypeOK
    OneCallAtATime
    NoGuardLeaked
    PoolsOpenedOnce
    AnswerTellsEffect
    NoTraceOfRejectedCalls
    LevelLimitsExecute
    BusyConnectionsAccountedFor
PROPERTY KeepsServicePromise
