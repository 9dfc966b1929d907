----------------------------- MODULE KeyedMutex -----------------------------
(***************************************************************************)
(* What the per-key lock of Cachau promises (src/src/cachau/flight.py,     *)
(* module docstring): "Synchronization is strictly per key".  Each key has *)
(* at most one holder; who holds which other keys does not matter.         *)
(* KeyedLocks implements this; the cache engine is built on it.            *)
(***************************************************************************)
CONSTANTS
    Threads,    \* the callers of the cached function
    Keys,       \* the cache keys
    NoThread    \* the holder of a free key

VARIABLE holder     \* holder[k]: the thread inside `holding(k)`

TypeOK == holder \in [Keys -> Threads \union {NoThread}]

Init == holder = [k \in Keys |-> NoThread]

Acquire(t, k) ==
    /\ holder[k] = NoThread
    /\ holder' = [holder EXCEPT ![k] = t]

Release(t, k) ==
    /\ holder[k] = t
    /\ holder' = [holder EXCEPT ![k] = NoThread]

Next == \E t \in Threads, k \in Keys : Acquire(t, k) \/ Release(t, k)

Spec == Init /\ [][Next]_holder
=============================================================================
