SPECIFICATION Spec
CONSTANTS
    k1 = k1
    k2 = k2
    n1 = n1
    n2 = n2
    Threads = {t1, t2}
    Keys = {k1, k2}
    Namespaces = {n1, n2}
    NsOf <- TwoNamespaces
    None = None
    MaxSets = 2
INVARIANTS
    ForgottenStaysForgotten
