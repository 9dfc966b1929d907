SPECIFICATION Spec
CONSTANTS
    Threads = {t1, t2, t3}
    Keys = {k1, k2}
    NoThread = NoThread
    NoEntry = NoEntry
    Operations = {"call", "invalidate", "clear"}
    HasDeps = TRUE
    HasTTL = FALSE
    TTL = 1
    HasBudget = TRUE
    MaxBytes = 1
    VerifyCoin = {FALSE}
    Comparable = TRUE
    Raises = TRUE
    Sizes = {1}
    MarkerCap = 1
    RetryBatch = 1
    MaxOps = 3
    MaxDep = 1
    MaxHidden = 0
    MaxClock = 0
    MaxClockBack = 0
    MaxDeleteFaults = 1
    MaxWriteFaults = 0
SYMMETRY Symmetry
CHECK_DEADLOCK FALSE
INVARIANTS
    TypeOK
    SingleFlight
    HitReflectsDependencies
    EveryCallIsBookedOnce
