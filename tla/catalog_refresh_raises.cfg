SPECIFICATION Spec
CONSTANTS
    Workers = {w1}
    u1 = u1  u2 = u2  s1 = s1  s2 = s2
    Urls = {u1, u2}
    Streams = {s1, s2}
    CustomIds = {c1}
    MaxId = 2
    InitialUrl <- TwoSources
    Serves <- MCServes
    Pastes = {}
    TTL = 2
    TTL404 = 1
    Interval = 1
    Handlers <- RefreshOnly
    MaxTime = 1
    MaxOps = 1
    MaxFaults = 0
    NoSource = NoSource  NoSnap = NoSnap  NoUrl = NoUrl  NoStream = NoStream
    Free = Free
PROPERTIES
    GoodBodyNotDropped
