SPECIFICATION PersistentSpec
CONSTANTS
    k1 = k1
    k2 = k2
    k3 = k3
    Threads = {t1}
    Keys = {k1, k2, k3}
    Codes = {1, 2}
    CodeOf <- Coded
    Rank <- Ranked
    LeftOvers <- OldStores
    MaxStops = 1
    NoThread = NoThread
    NoEntry = NoEntry
    Operations = {"call", "invalidate", "clear", "profile"}
    HasDeps = FALSE
    HasTTL = TRUE
    TTL = 1
    HasBudget = TRUE
    MaxBytes = 2
    VerifyCoin = {FALSE}
    Comparable = TRUE
    Raises = FALSE
    Sizes <- SizesMix
    MarkerCap = 3
    RetryBatch = 1
    MaxOps = 2
    MaxDep = 0
    MaxHidden = 0
    MaxClock = 1
    MaxClockBack = 0
    MaxDeleteFaults = 2
    MaxWriteFaults = 1
CHECK_DEADLOCK FALSE
INVARIANTS
    TotalIsBoundedSum
    EvictsLeastRecentlyUsed
    BoundHoldsAcrossRestarts
    EveryEntryIsAccounted
    OnlyARestartLiftsTheQuarantine
    EvictionsAreExplained
    ExplainForecastsTheCall
PROPERTIES
    RestartKeepsTheNewest
    DrainSparesLiveEntries
