SPECIFICATION LibrarySpec
CHECK_DEADLOCK FALSE
CONSTANTS
    Callers = {"t1", "t2"}
    ListedSources = {"a"}
    CacheDuration = 1
    MaxVersion = 2
    MaxListTime = 2
    CacheKeys = {"a", "b", "c"}
    Ttls = {0, 1}
    Capacities = {0, 1, 2}
    MaxTtlTime = 3
    RetryConfigs <- MCRetryConfigs
    ErrorKinds <- MCErrorKinds
    Word = 4
    Sizes = {1}
    MaxHeld = 1
    MaxConnections = 2
    FileSources <- MCFileSources
    MaxFileSources = 2
    Characters = {"single", "double", "backslash", "semicolon", "space", "letter"}
    MaxTextLength = 5
INVARIANTS
    LibraryTypeOK
    ListsNeverGoBack
    ClearIsLasting
    CapacityHolds
    RetriesAreHonest
    CountersFollowUse
    ReportIsPlausible
    RunningIsUsable
    FirstStatementIsFirst
PROPERTIES
    NoLiveEntryLost
    LibraryCallsReturn
