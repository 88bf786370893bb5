SPECIFICATION FairSpec
CONSTANTS
    Workers = {w1}
    Sessions = {s1}
    Original = {s1}
    Handlers <- AnyRequest
    Attempts <- TwoAttempts
    Polls = 1
    IdleTimeout = 1
    ValidAge = 0
    YoungAge = 1
    FreshAge = 1
    Oldest = 2
    MaxRuns = 2
    MaxOps = 2
    None = None
CHECK_DEADLOCK FALSE
PROPERTIES
    RequestsEnd
    RunsReaped
