SPECIFICATION Spec
CONSTANTS
    t1 = t1  t2 = t2
    plain = plain  raw = raw  tidy = tidy  bad = bad
    endpoint = endpoint  bitrate = bitrate
    Threads = {t1, t2}
    MaxCalls = 4
    MaxFaults = 2
    Keys = {endpoint, bitrate}
    Legacy = {endpoint}
    Endpoint = endpoint
    Values = {plain, raw, tidy, bad}
    Canonical <- MCCanonical
    Invalid = Invalid
    Defaults <- MCDefaults
    NoFile = NoFile
    FirstSettings <- MCFirstSettings
    Updates <- MCUpdates
    Channels = {c1}
    NoThread = NoThread
    Urls <- MCUrls
    Blank = "blank"
    UrlOrigen = {"u1"}
    FirstRegistry <- MCFirstRegistry
    Nobody = Nobody
INVARIANTS
    UntouchedSettingsKept
    StatsDurable
    MigrationLosesNothing
SYMMETRY Symmetry
CHECK_DEADLOCK FALSE
