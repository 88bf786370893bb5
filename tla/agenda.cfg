SPECIFICATION FairSpec
CONSTANTS
    s1 = s1  s2 = s2  g1 = g1  g2 = g2  gx = gx  v1 = v1
    Streams = {s1, s2}
    GuideNames = {g1, g2, gx}
    Excluded = {gx}
    TvgIds = {v1}
    Equivalences <- MCEquivalences
    TokensOf <- MCTokensOf
    TvgIdOf <- MCTvgIdOf
    Pages <- MCPages
    Catalogs <- MCCatalogs
    FirstWorlds <- MCFirstWorlds
    Threads = {t1, t2}
    TTL = 30
    Instants = {1260, 1289, 1290}
    MaxRequests = 3
    MaxChanges = 1
    MaxFaults = 2
    NoTime = NoTime  NoTvg = NoTvg  NoDoc = NoDoc  Free = Free
INVARIANTS
    LiveEventsListed
PROPERTIES
    AnswersFresh
    ErrorIsLastResort
    RequestsEnd
    ImplementsGuideStore
