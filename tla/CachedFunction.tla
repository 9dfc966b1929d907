--------------------------- MODULE CachedFunction ---------------------------
(***************************************************************************)
(* One function decorated with @cache, in one process: `_wrap` and         *)
(* CacheControl of src/src/cachau/decorator.py, driven by threads that     *)
(* call it, invalidate keys, clear it and profile it, over a store whose   *)
(* get, set and delete are atomic and may fail.                            *)
(*                                                                         *)
(* A step is one access to state that threads share; local computation is  *)
(* merged into the access next to it.  The per-key lock is KeyedMutex,     *)
(* which KeyedLocks implements; the budget is LRUBudget.                   *)
(*                                                                         *)
(* The value of a computation is what it read: the version of the declared *)
(* dependencies and that of everything else (hidden).  A dependency never  *)
(* returns to an earlier version: the stability contract of                *)
(* dependencies.py excludes A -> B -> A.                                   *)
(***************************************************************************)
EXTENDS LRUBudget

CONSTANTS
    Threads, Keys, NoThread,
    NoEntry,        \* what the store's get() answers for an absent key
    Operations,     \* which of "call", "invalidate", "clear", "profile" threads use
    HasDeps,        \* depends_on= is given
    HasTTL, TTL,    \* ttl= is given, and its length in clock ticks
    HasBudget,      \* max_memory= is given (MaxBytes)
    VerifyCoin,     \* outcomes of the verify= draw: {FALSE}, {TRUE} or BOOLEAN
    Comparable,     \* whether _values_match can compare two results
    Raises,         \* whether the function, the fingerprint of a dependency or the
                    \* warning of verify= (under -W error) may raise
    Sizes,          \* what size_of may answer; NoSize if it raises
    MarkerCap,      \* _INVALIDATION_MARKER_CAP and the other two caps (4096)
    RetryBatch,     \* _EVICTION_RETRY_BATCH (8)
    (* Bounds of the environment, so that TLC ends.                        *)
    MaxOps, MaxDep, MaxHidden, MaxClock, MaxClockBack, MaxDeleteFaults, MaxWriteFaults

ASSUME NoThreadAssumption == NoThread \notin Threads
ASSUME FlagsAssumption ==
    /\ Operations \subseteq {"call", "invalidate", "clear", "profile"}
    /\ {HasDeps, HasTTL, HasBudget, Comparable, Raises} \subseteq BOOLEAN
    /\ VerifyCoin \subseteq BOOLEAN
ASSUME NumbersAssumption ==
    /\ TTL \in Nat \ {0} /\ Sizes \subseteq Int
    /\ MarkerCap \in Nat \ {0} /\ RetryBatch \in Nat \ {0}
    /\ {MaxOps, MaxDep, MaxHidden, MaxClock, MaxClockBack, MaxDeleteFaults,
        MaxWriteFaults} \subseteq Nat

NoSize == -1    \* the size None; a size_of that is negative is less

Values == [dep : Nat, hidden : Nat]
Entries == [val : Values, deps : Nat, expires : Nat, size : Int, gen : Nat]
ASSUME NoEntryAssumption == NoEntry \notin Entries

VARIABLES
    store,          \* the backend: an entry or NoEntry for each key
    budget,         \* the LRUBudget
    pending,        \* _pending_invalidations
    invMarks,       \* _invalidation_markers, oldest first
    evictMarks,     \* _eviction_markers, oldest first
    ledger,         \* _pending_eviction_deletes, oldest first
    holder,         \* the KeyedLocks
    observed,       \* last_observed, the clock ratchet
    pc, key, snap, got, val, bytes, todo, sweep,    \* per thread: where it is, its locals
    dep, hidden, clock,                     \* the world outside the cache
    ops, clockBack, deleteFaults, writeFaults,  \* what the bounds bound
    gen, condemned, cut, floor, booked, forecast    \* history, see below

(* History.  gen[k] counts the entries ever set for k and an entry carries *)
(* its number.  condemned[k] is the number up to which the entries of k    *)
(* have been given up: by an invalidate(), a clear() or a verification     *)
(* that replaced one, when it returned, or by a call that counted one as   *)
(* expired.  cut[t] is the number t's running operation will condemn up to *)
(* when it returns, floor[t] is condemned[key] when t's call began, booked[t]   *)
(* lists the tallies t's call has counted, and forecast[t] is what         *)
(* explain() would have said when it began.                                *)

marks == <<pending, invMarks, evictMarks, ledger>>
locals == <<key, snap, got, val, bytes, todo, sweep>>
world == <<dep, hidden, clock, clockBack>>
faults == <<deleteFaults, writeFaults>>
history == <<gen, condemned, cut, floor, forecast>>
past == <<history, booked>>
frame == <<world, ops, faults>>
vars == <<store, budget, marks, holder, observed, pc, locals, world, ops, faults, past>>

Flights == INSTANCE KeyedMutex

-----------------------------------------------------------------------------
(* Helpers.                                                                *)
NoValue == [dep |-> 0, hidden |-> 0]

InSeq(x, seq) == \E i \in DOMAIN seq : seq[i] = x
Drop(seq, x) ==
    IF InSeq(x, seq) THEN Popped(seq, CHOOSE i \in DOMAIN seq : seq[i] = x) ELSE seq

(* Mutants: no trimming, and trimming one insertion too early.             *)
RememberUncapped(seq, x) == Append(Drop(seq, x), x)
RememberTooFew(seq, x) ==
    LET moved == Append(Drop(seq, x), x)
    IN IF Len(moved) >= MarkerCap THEN Tail(moved) ELSE moved

(* Insert at the end of an OrderedDict and trim it to its cap.             *)
Remember(seq, x) ==
    LET moved == Append(Drop(seq, x), x)
    IN IF Len(moved) > MarkerCap THEN Tail(moved) ELSE moved

Goto(t, label) == pc' = [pc EXCEPT ![t] = label]
Book(t, name) == booked' = [booked EXCEPT ![t] = Append(@, name)]

Later(a, b) == IF a > b THEN a ELSE b

(* Mutant: the raw wall clock, not clamped to the last reading.            *)
NowUnclamped(reading) == reading

(* now(): the clock clamped to the last observed reading; peek_now() reads *)
(* the same without advancing `observed`.                                  *)
Now(reading) == Later(observed, reading)

Expired(entry, now) == HasTTL /\ now >= entry.expires
DepsDiffer(entry, deps) == HasDeps /\ entry.deps # deps

(* The part of _fresh_entry after store.get, on the entry it answered.     *)
Serves(entry, deps, k) ==
    /\ entry # NoEntry
    /\ ~ Expired(entry, Now(clock))
    /\ ~ DepsDiffer(entry, deps)
    /\ k \notin pending

(* A backend delete, and one that raises (the file is held open).          *)
Deleted(k) == store' = [store EXCEPT ![k] = NoEntry] /\ UNCHANGED deleteFaults
DeleteRaises(k) ==
    /\ store[k] # NoEntry
    /\ deleteFaults < MaxDeleteFaults
    /\ deleteFaults' = deleteFaults + 1
    /\ UNCHANGED store
DeleteTried(k) == Deleted(k) \/ DeleteRaises(k)

(* `if budget is not None`                                                 *)
BudgetForgets(k) == budget' = IF HasBudget THEN Forget(budget, k) ELSE budget
BudgetTouches(k) == budget' = IF HasBudget THEN Touch(budget, k) ELSE budget

Condemn(k, upTo) == condemned' = [condemned EXCEPT ![k] = Later(@, upTo)]

Init ==
    /\ store = [k \in Keys |-> NoEntry]
    /\ budget = EmptyBudget
    /\ pending = {} /\ invMarks = <<>> /\ evictMarks = <<>> /\ ledger = <<>>
    /\ Flights!Init
    /\ observed = 0
    /\ pc = [t \in Threads |-> "idle"]
    /\ key \in [Threads -> Keys]
    /\ snap = [t \in Threads |-> 0]
    /\ got = [t \in Threads |-> NoEntry]
    /\ val = [t \in Threads |-> NoValue]
    /\ bytes = [t \in Threads |-> 0]
    /\ todo = [t \in Threads |-> <<>>]
    /\ sweep = [t \in Threads |-> {}]
    /\ dep = 0 /\ hidden = 0 /\ clock = 0
    /\ ops = 0 /\ clockBack = 0 /\ deleteFaults = 0 /\ writeFaults = 0
    /\ gen = [k \in Keys |-> 0] /\ condemned = [k \in Keys |-> 0]
    /\ cut = [t \in Threads |-> [k \in Keys |-> 0]]
    /\ floor = [t \in Threads |-> 0]
    /\ booked = [t \in Threads |-> <<>>]
    /\ forecast = [t \in Threads |-> "none"]

(* Mutant: the store is read before the quarantine is consulted.           *)
ExplainUnquarantined(k) ==
    CASE store[k] = NoEntry ->
            IF InSeq(k, invMarks) THEN "invalidated"
            ELSE IF InSeq(k, evictMarks) THEN "evicted" ELSE "not_found"
      [] store[k] # NoEntry ->
            IF Expired(store[k], Now(clock)) THEN "expired"
            ELSE IF DepsDiffer(store[k], dep) THEN "dependency_changed" ELSE "found"

(* explain(): a pure observer, so an operator.  A pending key is reported  *)
(* before the store is read; with no entry the markers tell why.           *)
Explain(k) ==
    CASE k \in pending -> "invalidated"
      [] k \notin pending /\ store[k] = NoEntry ->
            IF InSeq(k, invMarks) THEN "invalidated"
            ELSE IF InSeq(k, evictMarks) THEN "evicted" ELSE "not_found"
      [] k \notin pending /\ store[k] # NoEntry ->
            IF Expired(store[k], Now(clock)) THEN "expired"
            ELSE IF DepsDiffer(store[k], dep) THEN "dependency_changed" ELSE "found"

-----------------------------------------------------------------------------
(* A call of the wrapper.                                                  *)

(* build_key, current_dependencies and the verify= draw.                   *)
StartCall(t, k) ==
    /\ "call" \in Operations
    /\ pc[t] = "idle" /\ ops < MaxOps
    /\ ops' = ops + 1
    /\ key' = [key EXCEPT ![t] = k]
    /\ snap' = [snap EXCEPT ![t] = dep]
    /\ floor' = [floor EXCEPT ![t] = condemned[k]]
    /\ forecast' = [forecast EXCEPT ![t] = Explain(k)]
    /\ \E verify \in VerifyCoin : Goto(t, IF verify THEN "verify_lock" ELSE "lookup")
    /\ UNCHANGED <<store, budget, marks, holder, observed, got, val, bytes, todo, sweep, world,
                   faults, gen, condemned, cut, booked>>

(* `with flights.holding(key)`: the label a thread waits at and the one it *)
(* gets to with the lock.                                                  *)
AfterLock ==
    [label \in {"lock", "verify_lock", "invalidate_lock"} |->
        CASE label = "lock" -> "relookup"
          [] label = "verify_lock" -> "verify_lookup"
          [] label = "invalidate_lock" -> "invalidate"]

(* Mutant: the body is entered without waiting for the holder.             *)
EnterFlightUnlocked(t) ==
    /\ pc[t] \in DOMAIN AfterLock
    /\ holder' = [holder EXCEPT ![key[t]] = t]
    /\ Goto(t, AfterLock[pc[t]])
    /\ UNCHANGED <<store, budget, marks, observed, locals, frame, past>>

EnterFlight(t) ==
    /\ pc[t] \in DOMAIN AfterLock
    /\ Flights!Acquire(t, key[t])
    /\ Goto(t, AfterLock[pc[t]])
    /\ UNCHANGED <<store, budget, marks, observed, locals, frame, past>>

(* _fresh_entry up to store.get; a pending key counts as absent.           *)
AfterLookup ==
    [label \in {"lookup", "relookup", "verify_lookup"} |->
        CASE label = "lookup" -> "judge"
          [] label = "relookup" -> "rejudge"
          [] label = "verify_lookup" -> "verify_judge"]

Lookup(t) ==
    /\ pc[t] \in DOMAIN AfterLookup
    /\ got' = [got EXCEPT ![t] = IF key[t] \in pending THEN NoEntry ELSE store[key[t]]]
    /\ Goto(t, AfterLookup[pc[t]])
    /\ UNCHANGED <<store, budget, marks, holder, observed, key, snap, val, bytes, todo, sweep,
                   frame, past>>

(* The rest of _fresh_entry: now() advances the ratchet if there is an     *)
(* entry to date.                                                          *)
Fresh(t) == Serves(got[t], snap[t], key[t])
Dated(t) == observed' = IF got[t] # NoEntry THEN Now(clock) ELSE observed

(* serve_if_fresh on the fast path and under the lock: hit bookkeeping and *)
(* the cached value, or on to the flight or the classification.            *)
JudgeFast(t) ==
    /\ pc[t] = "judge"
    /\ Dated(t)
    /\ IF Fresh(t)
       THEN Goto(t, "served") /\ Book(t, "hit") /\ BudgetTouches(key[t])
       ELSE Goto(t, "lock") /\ UNCHANGED <<booked, budget>>
    /\ UNCHANGED <<store, marks, holder, locals, frame, history>>

(* Mutant: no re-check under the lock.                                     *)
JudgeLockedNever(t) ==
    /\ pc[t] = "rejudge"
    /\ Goto(t, "classify")
    /\ UNCHANGED <<store, budget, marks, holder, observed, locals, frame, past>>

JudgeLocked(t) ==
    /\ pc[t] = "rejudge"
    /\ Dated(t)
    /\ IF Fresh(t)
       THEN /\ Goto(t, "served") /\ Book(t, "hit") /\ BudgetTouches(key[t])
            /\ Flights!Release(t, key[t])
       ELSE Goto(t, "classify") /\ UNCHANGED <<booked, budget, holder>>
    /\ UNCHANGED <<store, marks, locals, frame, history>>

(* _classify_and_compute: which miss is it?                                *)
ClassifyPending(t) ==
    /\ pc[t] = "classify" /\ key[t] \in pending
    /\ Goto(t, "retry_delete")
    /\ UNCHANGED <<store, budget, marks, holder, observed, locals, frame, past>>

ClassifyStale(t) ==
    /\ pc[t] = "classify" /\ key[t] \notin pending /\ store[key[t]] # NoEntry
    /\ got' = [got EXCEPT ![t] = store[key[t]]]
    /\ Goto(t, "delete_stale")
    /\ UNCHANGED <<store, budget, marks, holder, observed, key, snap, val, bytes, todo, sweep,
                   frame, past>>

ClassifyAbsent(t) ==
    /\ pc[t] = "classify" /\ key[t] \notin pending /\ store[key[t]] = NoEntry
    /\ invMarks' = Drop(invMarks, key[t])
    /\ Book(t, IF InSeq(key[t], invMarks) THEN "miss_invalidated" ELSE "miss_not_found")
    /\ Goto(t, "run")
    /\ UNCHANGED <<store, budget, pending, evictMarks, ledger, holder, observed, locals,
                   frame, history>>

(* The authoritative branch: the removal is retried, and only its success  *)
(* lifts the quarantine.                                                   *)
RetryDelete(t) ==
    /\ pc[t] = "retry_delete"
    /\ \/ Deleted(key[t]) /\ pending' = pending \ {key[t]}
       \/ DeleteRaises(key[t]) /\ UNCHANGED pending
    /\ Goto(t, "miss_invalidated")
    /\ UNCHANGED <<budget, invMarks, evictMarks, ledger, holder, observed, locals, world,
                   ops, writeFaults, past>>

MissInvalidated(t) ==
    /\ pc[t] = "miss_invalidated"
    /\ BudgetForgets(key[t])
    /\ Book(t, "miss_invalidated")
    /\ Goto(t, "run")
    /\ UNCHANGED <<store, marks, holder, observed, locals, frame, history>>

(* safe_delete of the entry that is not fresh.                             *)
DeleteStale(t) ==
    /\ pc[t] = "delete_stale"
    /\ DeleteTried(key[t])
    /\ Goto(t, "label_stale")
    /\ UNCHANGED <<budget, marks, holder, observed, locals, world, ops, writeFaults,
                   past>>

LabelStale(t) ==
    /\ pc[t] = "label_stale"
    /\ BudgetForgets(key[t])
    /\ observed' = Now(clock)
    /\ IF Expired(got[t], Now(clock))
       THEN Book(t, "miss_expired") /\ Condemn(key[t], got[t].gen)
       ELSE Book(t, "miss_dependency_changed") /\ UNCHANGED condemned
    /\ Goto(t, "run")
    /\ UNCHANGED <<store, marks, holder, locals, frame, gen, cut, floor, forecast>>

(* _run_and_time: the function returns what it read.                       *)
RunReturns(t) ==
    /\ pc[t] = "run"
    /\ val' = [val EXCEPT ![t] = [dep |-> dep, hidden |-> hidden]]
    /\ Goto(t, "recheck")
    /\ UNCHANGED <<store, budget, marks, holder, observed, key, snap, got, bytes, todo, sweep,
                   frame, past>>

(* The function raises through the flight; so does current_dependencies()  *)
(* when _commit_result observes the dependencies again.                    *)
RunRaises(t) ==
    /\ Raises
    /\ pc[t] \in {"run", "verify_run"} \/ (HasDeps /\ pc[t] = "recheck")
    /\ Goto(t, "raised")
    /\ Flights!Release(t, key[t])
    /\ UNCHANGED <<store, budget, marks, observed, locals, frame, past>>

-----------------------------------------------------------------------------
(* _commit_result.                                                         *)

(* Mutants: an early return that counts nothing; the lock is kept.         *)
ConcludeUncounted(t, why) ==
    /\ UNCHANGED booked
    /\ Goto(t, "returned")
    /\ Flights!Release(t, key[t])

ConcludeKeepsLock(t, why) ==
    /\ Book(t, why)
    /\ Goto(t, "returned")
    /\ UNCHANGED holder

(* The commit is over, with an entry or without: the outcome is counted,   *)
(* the flight is left and the value returned all the same.                 *)
Conclude(t, why) ==
    /\ Book(t, why)
    /\ Goto(t, "returned")
    /\ Flights!Release(t, key[t])

(* Mutant: the result is stamped without observing the dependencies again. *)
DepsMovedUnseen(t) == FALSE

(* current_dependencies() differs from the caller's snapshot.              *)
DepsMoved(t) == HasDeps /\ dep # snap[t]

RecheckDeps(t) ==
    /\ pc[t] = "recheck"
    /\ IF DepsMoved(t)
       THEN Conclude(t, "dependency_race_skips")
       ELSE Goto(t, "write") /\ UNCHANGED <<booked, holder>>
    /\ UNCHANGED <<store, budget, marks, observed, locals, frame, history>>

(* committed_at = now(), size_of, fits: why the value may not be stored.   *)
SkipUnsized(t) ==
    /\ pc[t] = "write" /\ HasBudget
    /\ observed' = Now(clock)
    /\ \E n \in Sizes :
        \/ n < 0 /\ Conclude(t, "size_estimate_failures")
        \/ n >= 0 /\ ~ Fits(n) /\ Conclude(t, "skipped_oversized")
    /\ UNCHANGED <<store, budget, marks, locals, frame, history>>

Storable == IF HasBudget THEN {n \in Sizes : n >= 0 /\ Fits(n)} ELSE {NoSize}

EntryOf(k, value, deps, created, n) ==
    [val |-> value, deps |-> IF HasDeps THEN deps ELSE 0,
     expires |-> IF HasTTL THEN created + TTL ELSE 0, size |-> n, gen |-> gen[k] + 1]

(* store.set lands; the entry is the next one of its key.                  *)
StorePut(k, entry) ==
    /\ store' = [store EXCEPT ![k] = entry]
    /\ gen' = [gen EXCEPT ![k] = @ + 1]

Write(t) ==
    /\ pc[t] = "write"
    /\ observed' = Now(clock)
    /\ \E n \in Storable :
        /\ bytes' = [bytes EXCEPT ![t] = n]
        /\ StorePut(key[t], EntryOf(key[t], val[t], snap[t], Now(clock), n))
    /\ Goto(t, IF HasBudget THEN "admit" ELSE "settle")
    /\ UNCHANGED <<budget, marks, holder, key, snap, got, val, todo, sweep, frame, condemned,
                   cut, floor, booked, forecast>>

WriteFails(t) ==
    /\ pc[t] = "write" /\ Storable # {}
    /\ writeFaults < MaxWriteFaults
    /\ writeFaults' = writeFaults + 1
    /\ observed' = Now(clock)
    /\ Conclude(t, "write_errors")
    /\ UNCHANGED <<store, budget, marks, locals, world, ops, deleteFaults, history>>

(* budget.admit, after the write landed.                                   *)
AdmitEntry(t) ==
    /\ pc[t] = "admit"
    /\ LET admitted == Admit(budget, key[t], bytes[t])
       IN /\ budget' = admitted.budget
          /\ todo' = [todo EXCEPT ![t] = admitted.evicted]
          /\ Goto(t, IF admitted.evicted = <<>> THEN "settle" ELSE "evict")
    /\ UNCHANGED <<store, marks, holder, observed, key, snap, got, val, bytes, sweep, frame,
                   past>>

(* evict_delete of the next evicted key; a failure goes into the ledger.   *)
EvictDelete(t) ==
    /\ pc[t] = "evict"
    /\ \/ Deleted(Head(todo[t])) /\ Goto(t, "note_eviction")
       \/ DeleteRaises(Head(todo[t])) /\ Goto(t, "remember_eviction")
    /\ UNCHANGED <<budget, marks, holder, observed, locals, world, ops, writeFaults,
                   past>>

(* Mutant: a failed eviction delete is not remembered.                     *)
RememberEvictionNot(t) ==
    /\ pc[t] = "remember_eviction"
    /\ Goto(t, "note_eviction")
    /\ UNCHANGED <<store, budget, marks, holder, observed, locals, frame, past>>

RememberEviction(t) ==
    /\ pc[t] = "remember_eviction"
    /\ ledger' = Remember(ledger, Head(todo[t]))
    /\ Goto(t, "note_eviction")
    /\ UNCHANGED <<store, budget, pending, invMarks, evictMarks, holder, observed, locals,
                   frame, past>>

NoteEviction(t) ==
    /\ pc[t] = "note_eviction"
    /\ evictMarks' = Remember(evictMarks, Head(todo[t]))
    /\ todo' = [todo EXCEPT ![t] = Tail(@)]
    /\ Goto(t, IF Len(todo[t]) = 1 THEN "settle" ELSE "evict")
    /\ UNCHANGED <<store, budget, pending, invMarks, ledger, holder, observed, key, snap,
                   got, val, bytes, sweep, frame, past>>

FirstOf(seq, n) == SubSeq(seq, 1, IF Len(seq) < n THEN Len(seq) ELSE n)

(* Mutant: the committed key stays in the ledger and in the batch.         *)
SettleKeepsKey(t) ==
    /\ pc[t] = "settle"
    /\ todo' = [todo EXCEPT ![t] = FirstOf(ledger, RetryBatch)]
    /\ Goto(t, "drain")
    /\ UNCHANGED <<store, budget, marks, holder, observed, key, snap,
                   got, val, bytes, sweep, frame, past>>

(* The key leaves the ledger; drain_pending_evictions takes its batch.     *)
Settle(t) ==
    /\ pc[t] = "settle"
    /\ ledger' = Drop(ledger, key[t])
    /\ todo' = [todo EXCEPT ![t] = FirstOf(Drop(ledger, key[t]), RetryBatch)]
    /\ Goto(t, "drain")
    /\ UNCHANGED <<store, budget, pending, invMarks, evictMarks, holder, observed, key,
                   snap, got, val, bytes, sweep, frame, past>>

(* A retry that fails stays in the ledger.                                 *)
DrainDelete(t) ==
    /\ pc[t] = "drain" /\ todo[t] # <<>>
    /\ \/ Deleted(Head(todo[t])) /\ Goto(t, "drained") /\ UNCHANGED todo
       \/ /\ DeleteRaises(Head(todo[t]))
          /\ todo' = [todo EXCEPT ![t] = Tail(@)]
          /\ UNCHANGED pc
    /\ UNCHANGED <<budget, marks, holder, observed, key, snap, got, val, bytes, sweep, world,
                   ops, writeFaults, past>>

DrainForget(t) ==
    /\ pc[t] = "drained"
    /\ ledger' = Drop(ledger, Head(todo[t]))
    /\ todo' = [todo EXCEPT ![t] = Tail(@)]
    /\ Goto(t, "drain")
    /\ UNCHANGED <<store, budget, pending, invMarks, evictMarks, holder, observed, key,
                   snap, got, val, bytes, sweep, frame, past>>

(* _record_commit, the quarantine is lifted, _note_recached; the wrapper   *)
(* leaves the flight.                                                      *)
FinishCommit(t) ==
    /\ pc[t] = "drain" /\ todo[t] = <<>>
    /\ pending' = pending \ {key[t]}
    /\ evictMarks' = Drop(evictMarks, key[t])
    /\ Conclude(t, "writes")
    /\ UNCHANGED <<store, budget, invMarks, ledger, observed, locals, frame, history>>

-----------------------------------------------------------------------------
(* _verify_flight.                                                         *)
JudgeVerify(t) ==
    /\ pc[t] = "verify_judge"
    /\ Dated(t)
    /\ Goto(t, IF Fresh(t) THEN "verify_run" ELSE "relookup")
    /\ UNCHANGED <<store, budget, marks, holder, locals, frame, past>>

Matches(t) == got[t].val = [dep |-> dep, hidden |-> hidden]

(* The recompute agrees, or cannot be compared: the cached value is a hit. *)
VerifyConfirms(t) ==
    /\ pc[t] = "verify_run"
    /\ Comparable => Matches(t)
    /\ BudgetTouches(key[t])
    /\ Book(t, "hit")
    /\ Goto(t, "served")
    /\ Flights!Release(t, key[t])
    /\ UNCHANGED <<store, marks, observed, locals, frame, history>>

(* It disagrees: the entry is refuted, and the fresh value is committed.   *)
VerifyRefutes(t) ==
    /\ pc[t] = "verify_run"
    /\ Comparable /\ ~ Matches(t)
    /\ val' = [val EXCEPT ![t] = [dep |-> dep, hidden |-> hidden]]
    /\ Book(t, "miss_verification_failed")
    /\ cut' = [cut EXCEPT ![t][key[t]] = got[t].gen]
    /\ Goto(t, "delete_refuted")
    /\ UNCHANGED <<store, budget, marks, holder, observed, key, snap, got, bytes, todo, sweep,
                   frame, gen, condemned, floor, forecast>>

(* The warning raises: the disagreement is counted, and the entry stays.   *)
WarningRaises(t) ==
    /\ Raises
    /\ pc[t] = "verify_run"
    /\ Comparable /\ ~ Matches(t)
    /\ Book(t, "miss_verification_failed")
    /\ Goto(t, "raised")
    /\ Flights!Release(t, key[t])
    /\ UNCHANGED <<store, budget, marks, observed, locals, frame, history>>

(* Mutant: the refuted entry is left for the commit to overwrite.          *)
DeleteRefutedNot(t) ==
    /\ pc[t] = "delete_refuted"
    /\ Goto(t, "forget_refuted")
    /\ UNCHANGED <<store, budget, marks, holder, observed, locals, frame, past>>

DeleteRefuted(t) ==
    /\ pc[t] = "delete_refuted"
    /\ DeleteTried(key[t])
    /\ Goto(t, "forget_refuted")
    /\ UNCHANGED <<budget, marks, holder, observed, locals, world, ops, writeFaults,
                   past>>

ForgetRefuted(t) ==
    /\ pc[t] = "forget_refuted"
    /\ BudgetForgets(key[t])
    /\ Goto(t, "recheck")
    /\ UNCHANGED <<store, marks, holder, observed, locals, frame, past>>

(* The wrapper returns a value or raises; its locals are gone.             *)
Return(t) ==
    /\ pc[t] \in {"served", "returned", "raised"}
    /\ Goto(t, "idle")
    /\ snap' = [snap EXCEPT ![t] = 0]
    /\ got' = [got EXCEPT ![t] = NoEntry]
    /\ val' = [val EXCEPT ![t] = NoValue]
    /\ bytes' = [bytes EXCEPT ![t] = 0]
    /\ Condemn(key[t], cut[t][key[t]])
    /\ cut' = [cut EXCEPT ![t][key[t]] = 0]
    /\ floor' = [floor EXCEPT ![t] = 0]
    /\ booked' = [booked EXCEPT ![t] = <<>>]
    /\ forecast' = [forecast EXCEPT ![t] = "none"]
    /\ UNCHANGED <<store, budget, marks, holder, observed, key, todo, sweep, frame, gen>>

-----------------------------------------------------------------------------
(* invalidate(), under the per-key lock.                                   *)
StartInvalidate(t, k) ==
    /\ "invalidate" \in Operations
    /\ pc[t] = "idle" /\ ops < MaxOps
    /\ ops' = ops + 1
    /\ key' = [key EXCEPT ![t] = k]
    /\ Goto(t, "invalidate_lock")
    /\ UNCHANGED <<store, budget, marks, holder, observed, snap, got, val, bytes, todo, sweep,
                   world, faults, past>>

InvalidateDelete(t) ==
    /\ pc[t] = "invalidate"
    /\ \/ Deleted(key[t]) /\ Goto(t, "mark_invalidated")
       \/ DeleteRaises(key[t]) /\ Goto(t, "quarantine")
    /\ cut' = [cut EXCEPT ![t][key[t]] = gen[key[t]]]
    /\ UNCHANGED <<budget, marks, holder, observed, locals, world, ops, writeFaults, gen,
                   condemned, floor, booked, forecast>>

InvalidateMark(t) ==
    /\ pc[t] = "mark_invalidated"
    /\ invMarks' = Remember(invMarks, key[t])
    /\ Goto(t, "forget_invalidated")
    /\ UNCHANGED <<store, budget, pending, evictMarks, ledger, holder, observed, locals,
                   frame, past>>

InvalidateQuarantine(t) ==
    /\ pc[t] = "quarantine"
    /\ pending' = pending \union {key[t]}
    /\ Goto(t, "forget_invalidated")
    /\ UNCHANGED <<store, budget, invMarks, evictMarks, ledger, holder, observed, locals,
                   frame, past>>

InvalidateReturns(t) ==
    /\ pc[t] = "forget_invalidated"
    /\ BudgetForgets(key[t])
    /\ Condemn(key[t], cut[t][key[t]])
    /\ cut' = [cut EXCEPT ![t][key[t]] = 0]
    /\ Flights!Release(t, key[t])
    /\ Goto(t, "idle")
    /\ UNCHANGED <<store, marks, observed, locals, frame, gen, floor, booked, forecast>>

-----------------------------------------------------------------------------
(* clear(), without any per-key lock.  The store removes the entries one   *)
(* by one: each that was there when the clear began, and whichever of      *)
(* those written meanwhile it comes across.  A delete that raises, raises  *)
(* out of clear(), with some of the entries gone.                          *)
Present == {k \in Keys : store[k] # NoEntry}

StartClear(t) ==
    /\ "clear" \in Operations
    /\ pc[t] = "idle" /\ ops < MaxOps
    /\ ops' = ops + 1
    /\ sweep' = [sweep EXCEPT ![t] = Present]
    /\ cut' = [cut EXCEPT ![t] = gen]
    /\ Goto(t, "clear_store")
    /\ UNCHANGED <<store, budget, marks, holder, observed, key, snap, got, val, bytes, todo,
                   world, faults, gen, condemned, floor, booked, forecast>>

ClearEntry(t) ==
    /\ pc[t] = "clear_store"
    /\ \E k \in sweep[t] \union Present :
        /\ Deleted(k)
        /\ sweep' = [sweep EXCEPT ![t] = @ \ {k}]
    /\ UNCHANGED <<budget, marks, holder, observed, pc, key, snap, got, val, bytes, todo,
                   world, ops, writeFaults, past>>

(* Mutant: the clear is over as soon as it has removed one entry.          *)
ClearStoreEarly(t) ==
    /\ pc[t] = "clear_store"
    /\ Goto(t, IF HasBudget THEN "clear_budget" ELSE "clear_marks")
    /\ sweep' = [sweep EXCEPT ![t] = {}]
    /\ UNCHANGED <<store, budget, marks, holder, observed, key, snap, got, val, bytes, todo,
                   frame, past>>

ClearStore(t) ==
    /\ pc[t] = "clear_store" /\ sweep[t] = {}
    /\ Goto(t, IF HasBudget THEN "clear_budget" ELSE "clear_marks")
    /\ UNCHANGED <<store, budget, marks, holder, observed, locals, frame, past>>

ClearRaises(t) ==
    /\ pc[t] = "clear_store"
    /\ \E k \in sweep[t] \union Present : DeleteRaises(k)
    /\ sweep' = [sweep EXCEPT ![t] = {}]
    /\ cut' = [cut EXCEPT ![t] = [k \in Keys |-> 0]]
    /\ Goto(t, "idle")
    /\ UNCHANGED <<budget, marks, holder, observed, key, snap, got, val, bytes, todo, world,
                   ops, writeFaults, gen, condemned, floor, booked, forecast>>

ClearBudget(t) ==
    /\ pc[t] = "clear_budget"
    /\ budget' = EmptyBudget
    /\ Goto(t, "clear_marks")
    /\ UNCHANGED <<store, marks, holder, observed, locals, frame, past>>

ClearMarks(t) ==
    /\ pc[t] = "clear_marks"
    /\ pending' = {} /\ invMarks' = <<>> /\ evictMarks' = <<>> /\ ledger' = <<>>
    /\ condemned' = [k \in Keys |-> Later(condemned[k], cut[t][k])]
    /\ cut' = [cut EXCEPT ![t] = [k \in Keys |-> 0]]
    /\ Goto(t, "idle")
    /\ UNCHANGED <<store, budget, holder, observed, locals, frame, gen, floor, booked,
                   forecast>>

-----------------------------------------------------------------------------
(* profile(): measures with a throwaway entry, without the per-key lock    *)
(* and without the budget.                                                 *)
StartProfile(t, k) ==
    /\ "profile" \in Operations
    /\ pc[t] = "idle" /\ ops < MaxOps
    /\ ops' = ops + 1
    /\ key' = [key EXCEPT ![t] = k]
    /\ val' = [val EXCEPT ![t] = [dep |-> dep, hidden |-> hidden]]
    /\ Goto(t, "profile_lookup")
    /\ UNCHANGED <<store, budget, marks, holder, observed, snap, got, bytes, todo, sweep, world,
                   faults, past>>

ProfileEnds(t) ==
    /\ val' = [val EXCEPT ![t] = NoValue]
    /\ Goto(t, "idle")

ProfileLookup(t) ==
    /\ pc[t] = "profile_lookup"
    /\ IF store[key[t]] # NoEntry
       THEN ProfileEnds(t)
       ELSE Goto(t, "profile_write") /\ UNCHANGED val
    /\ UNCHANGED <<store, budget, marks, holder, observed, key, snap, got, bytes, todo, sweep,
                   frame, past>>

(* The dependencies are fingerprinted here, after the run.                 *)
ProfileWrite(t) ==
    /\ pc[t] = "profile_write"
    /\ \E n \in Sizes : StorePut(key[t], EntryOf(key[t], val[t], dep, Now(clock), n))
    /\ Goto(t, "profile_delete")
    /\ UNCHANGED <<budget, marks, holder, observed, locals, frame, condemned, cut, floor,
                   booked, forecast>>

ProfileWriteFails(t) ==
    /\ pc[t] = "profile_write"
    /\ writeFaults < MaxWriteFaults
    /\ writeFaults' = writeFaults + 1
    /\ ProfileEnds(t)
    /\ UNCHANGED <<store, budget, marks, holder, observed, key, snap, got, bytes, todo, sweep,
                   world, ops, deleteFaults, past>>

ProfileDelete(t) ==
    /\ pc[t] = "profile_delete"
    /\ DeleteTried(key[t])
    /\ ProfileEnds(t)
    /\ UNCHANGED <<budget, marks, holder, observed, key, snap, got, bytes, todo, sweep, world,
                   ops, writeFaults, past>>

-----------------------------------------------------------------------------
(* The world: dependencies and hidden inputs move on, the wall clock ticks *)
(* and may step back.                                                      *)
cacheVars == <<store, budget, marks, holder, observed, pc, locals, ops, faults, past>>

DependencyChanges == dep < MaxDep /\ dep' = dep + 1 /\ UNCHANGED <<hidden, clock, clockBack>>
HiddenChanges == hidden < MaxHidden /\ hidden' = hidden + 1 /\ UNCHANGED <<dep, clock, clockBack>>
ClockTicks == clock < MaxClock /\ clock' = clock + 1 /\ UNCHANGED <<dep, hidden, clockBack>>
ClockStepsBack ==
    /\ clockBack < MaxClockBack /\ clock > 0
    /\ clock' = clock - 1 /\ clockBack' = clockBack + 1
    /\ UNCHANGED <<dep, hidden>>

World ==
    /\ DependencyChanges \/ HiddenChanges \/ ClockTicks \/ ClockStepsBack
    /\ UNCHANGED cacheVars

Start(t) ==
    \/ \E k \in Keys : StartCall(t, k) \/ StartInvalidate(t, k) \/ StartProfile(t, k)
    \/ StartClear(t)

CallStep(t) ==
    \/ EnterFlight(t) \/ Lookup(t) \/ JudgeFast(t) \/ JudgeLocked(t)
    \/ ClassifyPending(t) \/ ClassifyStale(t) \/ ClassifyAbsent(t)
    \/ RetryDelete(t) \/ MissInvalidated(t) \/ DeleteStale(t) \/ LabelStale(t)
    \/ RunReturns(t) \/ RunRaises(t) \/ Return(t)

CommitStep(t) ==
    \/ RecheckDeps(t) \/ SkipUnsized(t) \/ Write(t) \/ WriteFails(t) \/ AdmitEntry(t)
    \/ EvictDelete(t) \/ RememberEviction(t) \/ NoteEviction(t)
    \/ Settle(t) \/ DrainDelete(t) \/ DrainForget(t) \/ FinishCommit(t)

VerifyStep(t) ==
    \/ JudgeVerify(t) \/ VerifyConfirms(t) \/ VerifyRefutes(t) \/ WarningRaises(t)
    \/ DeleteRefuted(t) \/ ForgetRefuted(t)

ControlStep(t) ==
    \/ InvalidateDelete(t) \/ InvalidateMark(t) \/ InvalidateQuarantine(t) \/ InvalidateReturns(t)
    \/ ClearEntry(t) \/ ClearStore(t) \/ ClearRaises(t) \/ ClearBudget(t) \/ ClearMarks(t)
    \/ ProfileLookup(t) \/ ProfileWrite(t) \/ ProfileWriteFails(t) \/ ProfileDelete(t)

Step(t) == CallStep(t) \/ CommitStep(t) \/ VerifyStep(t) \/ ControlStep(t)

Next == (\E t \in Threads : Start(t) \/ Step(t)) \/ World

Spec == Init /\ [][Next]_vars

(* A thread that can run is eventually run, and the function terminates.   *)
(* Nobody has to start an operation and the world need not move.           *)
FairSpec == Spec /\ \A t \in Threads : WF_vars(Step(t))

-----------------------------------------------------------------------------
(* Properties.                                                             *)
(* The labels of a thread that is inside `with flights.holding(key)`.       *)
InFlight ==
    {"relookup", "rejudge", "classify", "retry_delete", "miss_invalidated", "delete_stale",
     "label_stale", "run", "recheck", "write", "admit", "evict", "remember_eviction",
     "note_eviction", "settle", "drain", "drained", "verify_lookup", "verify_judge", "verify_run",
     "delete_refuted", "forget_refuted", "invalidate", "mark_invalidated", "quarantine",
     "forget_invalidated"}

Labels == InFlight \union
    {"idle", "lookup", "judge", "lock", "verify_lock", "served", "returned", "raised",
     "invalidate_lock", "clear_store", "clear_budget", "clear_marks", "profile_lookup",
     "profile_write", "profile_delete"}

Budgets == [lru : Seq([key : Keys, size : Int]), total : Int]

TypeOK ==
    /\ store \in [Keys -> Entries \union {NoEntry}]
    /\ budget \in Budgets
    /\ pending \subseteq Keys
    /\ \A marked \in {invMarks, evictMarks, ledger} :
            marked \in Seq(Keys) /\ Len(marked) <= MarkerCap
    /\ Flights!TypeOK
    /\ pc \in [Threads -> Labels]
    /\ key \in [Threads -> Keys]
    /\ got \in [Threads -> Entries \union {NoEntry}]
    /\ val \in [Threads -> Values]
    /\ bytes \in [Threads -> Int]
    /\ todo \in [Threads -> Seq(Keys)]
    /\ sweep \in [Threads -> SUBSET Keys]
    /\ {observed, dep, hidden, clock, ops, clockBack, deleteFaults, writeFaults} \subseteq Nat
    /\ snap \in [Threads -> Nat] /\ floor \in [Threads -> Nat]
    /\ gen \in [Keys -> Nat] /\ condemned \in [Keys -> Nat]
    /\ cut \in [Threads -> [Keys -> Nat]]

AtRest == \A t \in Threads : pc[t] = "idle"

(* flight.py: of the threads that miss a key at the same time, one at a    *)
(* time is inside the flight, so no key is computed twice at once and no   *)
(* invalidate() interleaves with a commit of its key.                      *)
SingleFlight ==
    \A t, u \in Threads :
        (pc[t] \in InFlight /\ pc[u] \in InFlight /\ key[t] = key[u]) => t = u

(* The cached value a hit returns was computed from the dependencies the   *)
(* caller saw when it called: a change while the function runs, or while   *)
(* the caller waits for the flight, is never served as fresh.              *)
HitReflectsDependencies ==
    \A t \in Threads : (HasDeps /\ pc[t] = "served") => got[t].val.dep = snap[t]

(* What is stored under a dependency fingerprint was computed from it.     *)
EntriesAreFaithful ==
    \A k \in Keys : (HasDeps /\ store[k] # NoEntry) => store[k].deps = store[k].val.dep

(* A call never returns an entry that had been given up before it began:   *)
(* invalidated, cleared, refuted by verify=, or found expired by a call -  *)
(* even when the delete failed, and even when the wall clock steps back.   *)
NeverServesCondemned ==
    \A t \in Threads : pc[t] = "served" => got[t].gen > floor[t]

(* Outside of any operation, max_memory holds: the entries in the store,   *)
(* those apart whose delete waits in the ledger to be retried, fit.        *)
StoredBytes ==
    LET kept == {k \in Present : store[k].size >= 0 /\ ~ InSeq(k, ledger)}
    IN SumFunction([k \in kept |-> store[k].size])

BoundHoldsAtRest == (HasBudget /\ AtRest) => StoredBytes <= MaxBytes

(* stats(): a call counts as one hit or one miss, and a miss that computed *)
(* has exactly one outcome, written or skipped for one reason.             *)
Misses == {"miss_not_found", "miss_expired", "miss_invalidated", "miss_dependency_changed",
           "miss_verification_failed"}
Outcomes == {"writes", "dependency_race_skips", "size_estimate_failures", "skipped_oversized",
             "write_errors"}

EveryCallIsBookedOnce ==
    \A t \in Threads :
        /\ pc[t] = "served" => booked[t] = <<"hit">>
        /\ pc[t] = "returned" => \E miss \in Misses, outcome \in Outcomes :
                                    booked[t] = <<miss, outcome>>

(* explain() forecasts the call that follows: what it is counted as is     *)
(* what explain() would have answered, or the entry has expired since, or  *)
(* verify= refuted it.  Meant for runs without a concurrent operation.     *)
MayFollow(forecasted) ==
    CASE forecasted = "found" -> {"hit", "miss_expired", "miss_verification_failed"}
      [] forecasted = "invalidated" -> {"miss_invalidated"}
      [] forecasted = "expired" -> {"miss_expired"}
      [] forecasted = "dependency_changed" -> {"miss_dependency_changed", "miss_expired"}
      [] forecasted \in {"evicted", "not_found"} -> {"miss_not_found"}

ExplainForecastsTheCall ==
    \A t \in Threads :
        pc[t] \in {"served", "returned"} => Head(booked[t]) \in MayFollow(forecast[t])

(* _classify_and_compute: an entry it finds is deleted because it is stale.*)
OnlyStaleIsDeleted ==
    \A t \in Threads :
        pc[t] = "delete_stale" => Expired(got[t], Now(clock)) \/ DepsDiffer(got[t], snap[t])

(* drain_pending_evictions retries the delete of evicted keys: it removes  *)
(* no entry that the budget tracks.                                        *)
DrainSparesLiveEntries ==
    [][\A t \in Threads :
        (pc[t] = "drain" /\ pc'[t] = "drained" /\ store[Head(todo[t])] # NoEntry)
            => Head(todo[t]) \notin Tracked(budget)]_vars

(* Every operation ends: no lock order, lost wake-up or endless drain      *)
(* leaves a caller inside the cache.                                       *)
EveryOperationEnds == \A t \in Threads : pc[t] # "idle" ~> pc[t] = "idle"
=============================================================================
