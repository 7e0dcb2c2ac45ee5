SPECIFICATION FairSpec
CONSTANTS
    a = a
    b = b
    c = c
    d = d
    r1 = r1
    r2 = r2
    r3 = r3
    Requests = {r1, r2}
    OtherTasks = {}
    Keys = {a, b}
    Databases = {d}
    Permission <- MCPermission
    Calls <- IsolationCalls
    MaxConnections = 1
    MaxRows = 1
    StatusMayChange = FALSE
    HealthyKeys = {b}
PROPERTY HealthyCallsAnswered
