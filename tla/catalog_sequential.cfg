SPECIFICATION WarmSpec
CONSTANTS
    Workers = {w1}
    u1 = u1  u2 = u2  s1 = s1  s2 = s2
    Urls = {u1, u2}
    Streams = {s1, s2}
    CustomIds = {c1}
    MaxId = 2
    InitialUrl <- OneSource
    Serves <- MCServes
    Pastes = {u1}
    TTL = 2
    TTL404 = 1
    Interval = 1
    Handlers <- AnyRequest
    MaxTime = 4
    MaxOps = 3
    MaxFaults = 1
    NoSource = NoSource  NoSnap = NoSnap  NoUrl = NoUrl  NoStream = NoStream
    Free = Free
INVARIANTS
    EntriesServed
    FreshSourcesPublished
    CustomPublished
    NoOrphanSnapshot
PROPERTIES
    EnabledOnlyAfterValidation
    SaveRepairsOutputs
    EmptyNeverReplaces
