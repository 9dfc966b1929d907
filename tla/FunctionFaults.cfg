SPECIFICATION FairSpec
CONSTANTS
    Threads = {t1, t2}
    Keys = {k1}
    NoThread = NoThread
    NoEntry = NoEntry
    Operations = {"call", "invalidate"}
    HasDeps = TRUE
    HasTTL = TRUE
    TTL = 1
    HasBudget = TRUE
    MaxBytes = 1
    VerifyCoin = {FALSE}
    Comparable = TRUE
    Raises = TRUE
    Sizes = {1}
    MarkerCap = 2
    RetryBatch = 1
    MaxOps = 3
    MaxDep = 1
    MaxHidden = 0
    MaxClock = 1
    MaxClockBack = 1
    MaxDeleteFaults = 2
    MaxWriteFaults = 0
CHECK_DEADLOCK FALSE
INVARIANTS
    NeverServesCondemned
    EntriesAreFaithful
    
PROPERTIES
    EveryOperationEnds
