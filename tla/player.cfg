SPECIFICATION FairSpec
CONSTANTS
    c1 = c1  c2 = c2
    Channels = {c1, c2}
    Signals <- TwoSignals
    Platforms = {"mpegts", "hlsjs", "native", "none"}
    MaxOps = 3
    None = None
CHECK_DEADLOCK FALSE
INVARIANTS
    OnlyCurrentWorks
    PreparingEnds
PROPERTIES
    ClosedStaysClosed
    ConcludesWithoutMpegts
