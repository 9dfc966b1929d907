----------------------------- MODULE KeyedLocks -----------------------------
(***************************************************************************)
(* class KeyedLocks of src/src/cachau/flight.py: a registry of refcounted  *)
(* slots, one per key in use.  A slot is the Python list [lock, count]; it *)
(* is an object with an identity, so a thread that kept a slot which has   *)
(* left the registry would lock a different mutex than a newcomer of the   *)
(* same key.  The registry guard makes each registry update one step; the  *)
(* slot's own lock is taken and released outside it.                       *)
(*                                                                         *)
(* A Ctrl-C is delivered between two instructions, so also where no `try`  *)
(* protects the call: right after acquire() has taken the lock, between    *)
(* the guard and the `try`, between release() and _release_ref, or inside  *)
(* either section under the guard.  The history variables record what such *)
(* an interrupt leaves behind.  An element of Threads is one call of       *)
(* holding(): a cached function called from the body of another one (with  *)
(* other arguments) is an element of its own.                              *)
(***************************************************************************)
EXTENDS Naturals, FiniteSets

CONSTANTS
    Threads,
    Keys,
    Slots,          \* identities of slot objects; a freed one may be reused
    NoThread,       \* owner of an unlocked lock
    NoSlot,         \* no object
    MaxStrays       \* bound: interrupts that fall outside every `try`

ASSUME ThreadsAssumption == IsFiniteSet(Threads) /\ NoThread \notin Threads
ASSUME SlotsAssumption == NoSlot \notin Slots
ASSUME StraysAssumption == MaxStrays \in Nat

VARIABLES
    slots,      \* self._slots: the slot registered for each key
    count,      \* slot[1]: how many threads refer to the slot
    owner,      \* slot[0]: the thread that locked the slot's mutex
    pc,         \* where each thread is in holding()
    key,        \* the argument of its call
    slot,       \* its local variable `slot`
    late,       \* whether an interrupt has left a mutex locked
    lost,       \* references to a slot that no thread will give back
    unpopped,   \* slots an interrupt left registered with count 0
    strays      \* how many interrupts fell outside every `try`

vars == <<slots, count, owner, pc, key, slot, late, lost, unpopped, strays>>

TypeOK ==
    /\ slots \in [Keys -> Slots \union {NoSlot}]
    /\ count \in [Slots -> Nat]
    /\ owner \in [Slots -> Threads \union {NoThread}]
    /\ pc \in [Threads -> {"idle", "acquiring", "holding", "releasing", "unwinding"}]
    /\ key \in [Threads -> Keys]
    /\ slot \in [Threads -> Slots \union {NoSlot}]
    /\ late \in BOOLEAN
    /\ lost \in [Slots -> Nat]
    /\ unpopped \subseteq Slots
    /\ strays \in 0..MaxStrays

Init ==
    /\ slots = [k \in Keys |-> NoSlot]
    /\ count = [s \in Slots |-> 0]
    /\ owner = [s \in Slots |-> NoThread]
    /\ pc = [t \in Threads |-> "idle"]
    /\ key \in [Threads -> Keys]
    /\ slot = [t \in Threads |-> NoSlot]
    /\ late = FALSE
    /\ lost = [s \in Slots |-> 0]
    /\ unpopped = {}
    /\ strays = 0

-----------------------------------------------------------------------------
(* An object no registry entry and no thread refers to: one that the next  *)
(* allocation `[threading.Lock(), 0]` may return.                           *)
Unreferenced(s) ==
    /\ \A k \in Keys : slots[k] # s
    /\ \A t \in Threads : slot[t] # s

(* self._slots[key] = [threading.Lock(), 0], then the count becomes c.     *)
Allocate(s, k, c) ==
    /\ Unreferenced(s)
    /\ slots' = [slots EXCEPT ![k] = s]
    /\ count' = [count EXCEPT ![s] = c]
    /\ owner' = [owner EXCEPT ![s] = NoThread]
    /\ lost' = [lost EXCEPT ![s] = 0]

EnterFresh(t, k) ==
    \E s \in Slots :
        /\ Allocate(s, k, 1)
        /\ slot' = [slot EXCEPT ![t] = s]

EnterShared(t, k) ==
    /\ count' = [count EXCEPT ![slots[k]] = @ + 1]
    /\ slot' = [slot EXCEPT ![t] = slots[k]]
    /\ UNCHANGED <<slots, owner, lost>>

(* Under the registry guard: find or create the slot and count this user.  *)
Enter(t, k) ==
    /\ pc[t] = "idle"
    /\ pc' = [pc EXCEPT ![t] = "acquiring"]
    /\ key' = [key EXCEPT ![t] = k]
    /\ IF slots[k] = NoSlot THEN EnterFresh(t, k) ELSE EnterShared(t, k)
    /\ UNCHANGED <<late, unpopped, strays>>

LockFree(s) == owner[s] = NoThread

(* slot[0].acquire() returns.                                              *)
Acquire(t) ==
    /\ pc[t] = "acquiring"
    /\ LockFree(slot[t])
    /\ owner' = [owner EXCEPT ![slot[t]] = t]
    /\ pc' = [pc EXCEPT ![t] = "holding"]
    /\ UNCHANGED <<slots, count, key, slot, late, lost, unpopped, strays>>

(* KeyboardInterrupt while blocked in acquire().                           *)
Interrupt(t) ==
    /\ pc[t] = "acquiring"
    /\ pc' = [pc EXCEPT ![t] = "unwinding"]
    /\ UNCHANGED <<slots, count, owner, key, slot, late, lost, unpopped, strays>>

(* KeyboardInterrupt on the way out of a successful acquire().             *)
LateInterrupt(t) ==
    /\ pc[t] = "acquiring"
    /\ LockFree(slot[t])
    /\ owner' = [owner EXCEPT ![slot[t]] = t]
    /\ pc' = [pc EXCEPT ![t] = "unwinding"]
    /\ late' = TRUE
    /\ UNCHANGED <<slots, count, key, slot, lost, unpopped, strays>>

(* Mutant: the finally block forgets slot[0].release().                    *)
ReleaseKeepsMutex(t) ==
    /\ pc[t] = "holding"
    /\ pc' = [pc EXCEPT ![t] = "releasing"]
    /\ UNCHANGED <<slots, count, owner, key, slot, late, lost, unpopped, strays>>

(* The body is left, normally or by an exception: slot[0].release().       *)
Release(t) ==
    /\ pc[t] = "holding"
    /\ owner' = [owner EXCEPT ![slot[t]] = NoThread]
    /\ pc' = [pc EXCEPT ![t] = "releasing"]
    /\ UNCHANGED <<slots, count, key, slot, late, lost, unpopped, strays>>

(* Mutants: the slot is dropped while one other thread refers to it, and   *)
(* the count is compared with 0 before it is decremented.                  *)
LastUserTooEarly(s) == count[s] <= 2
LastUserTooLate(s) == count[s] = 0

LastUser(s) == count[s] = 1

(* Mutant: an interrupted call gives its reference back in `except` and    *)
(* again in `finally`.                                                     *)
ReleaseRefTwice(t) ==
    /\ pc[t] \in {"releasing", "unwinding"}
    /\ count' = [count EXCEPT ![slot[t]] = @ - (IF pc[t] = "unwinding" THEN 2 ELSE 1)]
    /\ slots' = IF LastUser(slot[t]) THEN [slots EXCEPT ![key[t]] = NoSlot] ELSE slots
    /\ slot' = [slot EXCEPT ![t] = NoSlot]
    /\ pc' = [pc EXCEPT ![t] = "idle"]
    /\ UNCHANGED <<owner, key, late, lost, unpopped, strays>>

(* _release_ref, under the registry guard.                                 *)
ReleaseRef(t) ==
    /\ pc[t] \in {"releasing", "unwinding"}
    /\ count' = [count EXCEPT ![slot[t]] = @ - 1]
    /\ IF LastUser(slot[t])
       THEN slots' = [slots EXCEPT ![key[t]] = NoSlot] /\ unpopped' = unpopped \ {slot[t]}
       ELSE UNCHANGED <<slots, unpopped>>
    /\ slot' = [slot EXCEPT ![t] = NoSlot]
    /\ pc' = [pc EXCEPT ![t] = "idle"]
    /\ UNCHANGED <<owner, key, late, lost, strays>>

-----------------------------------------------------------------------------
(* KeyboardInterrupt outside every `try`.  The guard itself is given back, *)
(* for a `with` protects it.                                               *)
Stray == strays < MaxStrays /\ strays' = strays + 1

(* In the guard of a new key: registered, and not counted yet.             *)
EnterUncounted(t, k) ==
    /\ Stray
    /\ pc[t] = "idle" /\ slots[k] = NoSlot
    /\ \E s \in Slots : Allocate(s, k, 0) /\ unpopped' = unpopped \union {s}
    /\ UNCHANGED <<pc, key, slot, late>>

(* The call ends and its reference stays: the interrupt fell between the   *)
(* guard and the `try`, between release() and _release_ref, or in          *)
(* _release_ref before the count went down.                                *)
LoseReference(t) ==
    /\ Stray
    /\ lost' = [lost EXCEPT ![slot[t]] = @ + 1]
    /\ slot' = [slot EXCEPT ![t] = NoSlot]
    /\ pc' = [pc EXCEPT ![t] = "idle"]
    /\ UNCHANGED <<slots, count, owner, key, unpopped>>

Abandon(t) ==
    /\ pc[t] \in {"acquiring", "releasing", "unwinding"}
    /\ LoseReference(t)
    /\ UNCHANGED late

(* Between acquire() and the second `try`, or in `finally` before          *)
(* release(): the mutex stays locked as well.                              *)
AbandonLocked(t) ==
    /\ pc[t] = "holding"
    /\ LoseReference(t)
    /\ late' = TRUE

(* In _release_ref, after the count has reached 0 and before the pop.      *)
ReleaseUnpopped(t) ==
    /\ Stray
    /\ pc[t] \in {"releasing", "unwinding"}
    /\ LastUser(slot[t])
    /\ count' = [count EXCEPT ![slot[t]] = @ - 1]
    /\ unpopped' = unpopped \union {slot[t]}
    /\ slot' = [slot EXCEPT ![t] = NoSlot]
    /\ pc' = [pc EXCEPT ![t] = "idle"]
    /\ UNCHANGED <<slots, owner, key, late, lost>>

Step(t) ==
    \/ \E k \in Keys : Enter(t, k) \/ EnterUncounted(t, k)
    \/ Acquire(t)
    \/ Interrupt(t)
    \/ LateInterrupt(t)
    \/ Release(t)
    \/ ReleaseRef(t)
    \/ Abandon(t)
    \/ AbandonLocked(t)
    \/ ReleaseUnpopped(t)

Next == \E t \in Threads : Step(t)

Spec == Init /\ [][Next]_vars

(* The scheduler keeps running a thread that can run.  Nothing obliges a   *)
(* caller to enter, nor an interrupt to come; threading.Lock is not FIFO,  *)
(* so Acquire gets weak fairness only.                                     *)
Fairness ==
    \A t \in Threads : WF_vars(Acquire(t)) /\ WF_vars(Release(t)) /\ WF_vars(ReleaseRef(t))

FairSpec == Spec /\ Fairness

-----------------------------------------------------------------------------
(* active_keys() and total_waiters(), the registry's introspection.        *)
ActiveKeys == {k \in Keys : slots[k] # NoSlot}
Users(s) == {t \in Threads : slot[t] = s}

(* One thread per key is inside holding(): what single-flight rests on.    *)
(* It breaks if a slot is dropped from the registry while a thread still   *)
(* refers to it.                                                           *)
MutualExclusion ==
    \A t, u \in Threads :
        (pc[t] = "holding" /\ pc[u] = "holding" /\ key[t] = key[u]) => t = u

(* What an interrupt outside every `try` left behind keeps s registered.   *)
KeptByAStray(s) == s \in unpopped \/ (s \in Slots /\ lost[s] > 0)

(* "the registry never leaks finished keys", as far as it is true: a key   *)
(* is registered while some call of it is between its enter and its        *)
(* _release_ref, and afterwards only if an interrupt outside every `try`   *)
(* took a reference along or came before the pop; the count is the number  *)
(* of the calls in between and of the references lost in that way.         *)
RegistryIsExact ==
    /\ \A k \in Keys :
        slots[k] # NoSlot <=> \/ \E t \in Threads : pc[t] # "idle" /\ key[t] = k
                             \/ KeptByAStray(slots[k])
    /\ \A k \in ActiveKeys :
        count[slots[k]] = Cardinality(Users(slots[k])) + lost[slots[k]]

(* "independent keys never serialize", and calls of one key always do: two *)
(* calls in flight contend for one mutex exactly when their keys are equal.*)
OneMutexPerKey ==
    \A t, u \in Threads :
        (pc[t] # "idle" /\ pc[u] # "idle") => (slot[t] = slot[u] <=> key[t] = key[u])

(* Nobody waits for a key that nobody gets: while a call waits, its key is *)
(* eventually held by some call, or the wait is over.  A lost reference    *)
(* or an unreleased mutex would block it for ever; the late interrupts are *)
(* the one way to leave the mutex locked.                                  *)
WaitersAreServed ==
    \A t \in Threads, k \in Keys :
        (pc[t] = "acquiring" /\ key[t] = k)
            ~> \/ \E u \in Threads : pc[u] = "holding" /\ key[u] = k
               \/ pc[t] # "acquiring"
               \/ late

(* The registry implements the abstract lock: the holder of a key is the   *)
(* thread inside the body, whichever slot object carries its mutex.        *)
HolderOf(k) ==
    IF \E t \in Threads : pc[t] = "holding" /\ key[t] = k
    THEN CHOOSE t \in Threads : pc[t] = "holding" /\ key[t] = k
    ELSE NoThread

Mutex == INSTANCE KeyedMutex WITH holder <- [k \in Keys |-> HolderOf(k)]

ImplementsKeyedMutex == Mutex!Spec
=============================================================================
