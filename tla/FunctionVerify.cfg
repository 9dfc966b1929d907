SPECIFICATION Spec
CONSTANTS
    Threads = {t1, t2}
    Keys = {k1, k2}
    NoThread = NoThread
    NoEntry = NoEntry
    Operations = {"call", "invalidate", "profile"}
    HasDeps = FALSE
    HasTTL = TRUE
    TTL = 1
    HasBudget = TRUE
    MaxBytes = 1
    VerifyCoin = {TRUE, FALSE}
    Comparable = TRUE
    Raises = TRUE
    Sizes <- SizesMix
    MarkerCap = 2
    RetryBatch = 1
    MaxOps = 3
    MaxDep = 0
    MaxHidden = 1
    MaxClock = 1
    MaxClockBack = 0
    MaxDeleteFaults = 0
    MaxWriteFaults = 1
SYMMETRY Symmetry
CHECK_DEADLOCK FALSE
INVARIANTS
    NeverServesCondemned
    BoundHoldsAtRest
    EveryCallIsBookedOnce
