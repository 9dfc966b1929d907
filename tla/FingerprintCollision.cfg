\* Functions that capture two or three helpers, some of them twice.
CONSTANTS
    Worlds <- SharingWorlds
    Heap <- Versions
    Signature <- MCSignature
    Ignored <- MCIgnored
    NoEntry = NoEntry
    Threads = {t1, t2}
    Objects = {o1, o2, o3}
    Addresses = {x1, x2}
    Contents = {c1, c2}
    Referable = {o1, o2}
    NoOne = NoOne
INIT MCInit
NEXT MCNext
CHECK_DEADLOCK FALSE
INVARIANT CapturesTellVersionsApart
