SPECIFICATION WarmSpec
CONSTANTS
    Workers = {w1, w2}
    u1 = u1  u2 = u2  s1 = s1  s2 = s2
    Urls = {u1, u2}
    Streams = {s1, s2}
    CustomIds = {c1, c2}
    MaxId = 2
    InitialUrl <- OneSource
    Serves <- MCServes
    Pastes = {u1}
    TTL = 2
    TTL404 = 1
    Interval = 1
    Handlers <- AnyRequest
    MaxTime = 3
    MaxOps = 2
    MaxFaults = 0
    NoSource = NoSource  NoSnap = NoSnap  NoUrl = NoUrl  NoStream = NoStream
    Free = Free
SYMMETRY WorkerSymmetry
INVARIANTS
    LockHeldByRefresh
    UrlsUnique
    SnapshotsSound
PROPERTIES
    RefreshKeepsEdits
