SPECIFICATION Spec
CONSTANTS
    Threads = {t1}
    Keys = {k1}
    NoThread = NoThread
    NoEntry = NoEntry
    Operations = {"call"}
    HasDeps = FALSE
    HasTTL = FALSE
    TTL = 1
    HasBudget = FALSE
    MaxBytes = 1
    VerifyCoin = {TRUE, FALSE}
    Comparable = TRUE
    Raises = FALSE
    Sizes = {1}
    MarkerCap = 2
    RetryBatch = 1
    MaxOps = 3
    MaxDep = 0
    MaxHidden = 1
    MaxClock = 0
    MaxClockBack = 0
    MaxDeleteFaults = 1
    MaxWriteFaults = 1
SYMMETRY Symmetry
CHECK_DEADLOCK FALSE
INVARIANTS
    NeverServesCondemned
