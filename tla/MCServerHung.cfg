SPECIFICATION ServerFairSpec
CONSTANTS
    a = a
    b = b
    d = d
    r1 = r1
    r2 = r2
    Requests = {r1}
    OtherTasks = {"main", "monitor"}
    Keys = {a, b}
    Databases = {d}
    Permission <- MCPermission
    Calls <- TimedCalls
    MaxConnections = 2
    MaxRows = 1
    StatusMayChange = FALSE
    HealthyKeys = {b}
PROPERTY ShutdownCompletes
