SPECIFICATION RestartedFairSpec
CONSTANTS
    Workers = {w1, ws}
    Scheduler = ws
    u1 = u1  s1 = s1  s2 = s2
    Urls = {u1}
    Streams = {s1, s2}
    CustomIds = {c1}
    MaxId = 1
    InitialUrl <- OneSource
    Serves <- MCServes
    Pastes = {u1}
    TTL = 3
    TTL404 = 2
    Interval = 2
    Retry = 1
    Handlers <- RequestsBesideScheduler
    MaxTime = 4
    MaxOps = 1
    MaxFaults = 1
    NoSource = NoSource  NoSnap = NoSnap  NoUrl = NoUrl  NoStream = NoStream
    Free = Free
INVARIANTS
    NeverSleepsPastDue
PROPERTIES
    OperationsEnd
    KeepsRefreshing
