SPECIFICATION Spec
CONSTANTS
    Workers = {w1, w2}
    Sessions = {s1}
    Original = {s1}
    Handlers <- Players
    Attempts <- TwoAttempts
    Polls = 1
    IdleTimeout = 1
    ValidAge = 0
    YoungAge = 1
    FreshAge = 1
    Oldest = 2
    MaxRuns = 2
    MaxOps = 2
    None = None
SYMMETRY WorkerSymmetry
CHECK_DEADLOCK FALSE
INVARIANTS
    NoOrphan
    BooksAgree
    CountedOnce
PROPERTIES
    ReadyIsOwn
    StartSparesPreparing
    ImplementsBroadcasts
