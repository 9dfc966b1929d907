SPECIFICATION Spec
CONSTANTS
    k1 = k1
    k2 = k2
    n1 = n1
    n2 = n2
    Procs = {p1, p2}
    Keys = {k1, k2}
    Namespaces = {n1, n2}
    NsOf <- TwoNamespaces
    NoFile = NoFile
    Operations = {"set", "get", "peek", "delete", "clear", "clear_all", "scan"}
    Damages = {"header", "shape", "huge", "field", "payload", "foreign"}
    MaxTemps = 2
    MaxOps = 3
    MaxEvents = 2
SYMMETRY Symmetry
CHECK_DEADLOCK FALSE
INVARIANTS
    EntriesAreNeverTorn
    TemporariesHaveAnOwner
    FullClearSweepsStrays
    SyncedSetSurvives
    ClearForgetsWhatWasThere
    ScanSeesWhatWasThere
PROPERTIES
    ImplementsAtomicStore
