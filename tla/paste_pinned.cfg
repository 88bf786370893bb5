SPECIFICATION FairSpec
CONSTANTS
    r0 = r0  r1 = r1  r2 = r2  r3 = r3  s1 = s1  s2 = s2
    Refs = {r0, r1, r2, r3}
    Root = r0
    Streams = {s1, s2}
    Records <- MCRecords
    Zones <- MCZones
    Resolvers = 2
    MaxDepth = 2
    MaxEdits = 1
    Titles = {1, 2}
    NoTitle = 0
    Bodies <- MCBodies
    NoRecord = NoRecord  Garbage = Garbage  Scalar = Scalar
    NoRef = NoRef  NoContent = NoContent
INVARIANT
    NotModifiedIsCurrent
