SPECIFICATION FairSpec
CONSTANTS
    Threads = {t1, t2, t3}
    Keys = {k1, k2}
    Slots = {s1, s2}
    NoThread = NoThread
    NoSlot = NoSlot
    MaxStrays = 2
INVARIANTS
    TypeOK
    MutualExclusion
    RegistryIsExact
    OneMutexPerKey
PROPERTIES
    ImplementsKeyedMutex
    WaitersAreServed
