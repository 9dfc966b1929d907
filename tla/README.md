# Cachau in TLA+

Cachau (`src/`) caches the results of Python functions: `@cache` turns a
function into a wrapper that keys each call by its arguments, serves a stored
result while it is fresh, and computes, stores and evicts otherwise. This
directory models the parts of it whose correctness depends on the order of
steps or on an encoding, checks the models with TLC and proves theorems about
them with TLAPS. Paths below are relative to the repository's `src/cachau/`.

## 1. The system

| Component | State it keeps | Operations | Talks to |
|---|---|---|---|
| Per-key locks, `flight.py` | registry of refcounted slots, one mutex per slot | `holding(key)` | entered by the wrapper and by `invalidate` |
| LRU budget, `policy.py` | sizes in LRU order, their total | `fits`, `touch`, `forget`, `admit`, `reset` | called by the engine; never touches storage |
| Engine, `decorator.py` (`_wrap`, `CacheControl`) | pending invalidations, invalidation and eviction markers, ledger of failed eviction deletes, clock ratchet, tallies | call, `invalidate`, `clear`, `explain`, `profile`, `inspect`, `stats` | locks, budget, store, dependency fingerprints |
| Memory store, `memory.py` | a dictionary, shared by all functions without a store of their own | `get`, `set`, `delete`, `clear(namespace)` | called by engines |
| Disk store, `disk.py` | one file per entry, temporary files | the same, and metadata scans | shared between processes |
| Process flight, `interprocess.py` and `_join_process_flight` | lock files with a token and an mtime | `try_acquire`, heartbeat, `break_stale`, `release`, `coordinate` | shared between processes through the directory |
| Decoration-time maintenance, `_purge_stale_fingerprints`, `_rehydrate_budget` | none | purge and rehydrate | store, budget |
| Dependencies, `dependencies.py` | none | labels, `fingerprint_dependencies`, `changed_labels` | file system, environment |
| Keys and fingerprint, `keys.py`, `fingerprint.py` | none | digests of a call and of a function | pure |
| Array tokens, `tokens.py` | a memo of digests indexed by `id()` | `array_token`, prune callbacks | called by users' `key=` functions |
| Sizes, durations, records, test helpers | none | parsing and rendering | pure |

How they interact. A call computes its key and a snapshot of its dependencies,
then looks for a fresh entry without any lock. If there is none it enters the
per-key lock, looks again, classifies the miss (and deletes what is stale),
runs the function and commits: dependencies observed again, size checked, entry
set, budget admitted, evicted keys deleted, failed deletes remembered and
retried. `invalidate` takes the same lock. `clear` and `profile` take none.
With `verify=` a drawn call takes the lock first, recomputes even on a hit and
replaces an entry that turns out to be wrong. When a function is decorated over
a store that has entries, those of other code are purged and the budget is
rebuilt from the rest.

What is hard about it. Everything of one key is serialised by the lock, but the
budget, the markers, the ledger and the quarantine are shared by all keys, and
an eviction touches a key whose lock the evicting thread does not hold. Every
delete and every write may fail (on Windows: the file is open in a reader), and
the code must stay correct with the entry still there. The wall clock may step
back, dependencies change while the function runs, a caller may be interrupted
between any two instructions, `clear` has many steps. Files may be damaged, a process may be
killed between any two system calls, power may fail. A key must keep apart all
that a result depends on and nothing else.

What makes each component correct:

* locks: one thread per key inside, different keys independent, no leak that a
  `try` could prevent;
* budget: the total is the sum of the sizes and at most the bound, the least
  recently used go first and no more than necessary;
* engine: no given-up value is served; a hit reflects the dependencies its
  caller saw; at rest the stored bytes fit; each call is counted once; what
  `explain` announces is what the call does; every operation ends;
* stores: a read answers an entry that was set, old or new, never half of one;
  a set that returned is not undone by a crash; what was cleared stays away;
  damage is a miss;
* process flight: a live holder is not pre-empted, a dead one does not block
  anyone beyond the bounded wait, values stay correct with two computers;
* maintenance: after a restart the bound holds again for what can be sized, and
  the newest entries are the ones kept;
* keys, fingerprints, dependencies: two calls share an entry exactly when their
  function, arguments and declared resources are the same;
* tokens: the digest is that of the caller's object, and the memo does not grow
  with dead ones.

## 2. The modules

| Module | Models | Remarks |
|---|---|---|
| `KeyedMutex` | what the per-key lock promises | abstract; `holder[k]` |
| `KeyedLocks` | `KeyedLocks` of `flight.py`, step by step | slots are objects with an identity and may be reused once unreferenced; an interrupt may come between any two instructions |
| `LRUBudget` | `LRUBudget` of `policy.py` as operators on a budget value | each method runs under the budget's mutex, so it is one step of its user |
| `CachedFunction` | one decorated function in one process | uses `KeyedMutex` (an instance on `holder`) and `LRUBudget` |
| `PersistentFunction` | the same function over the life of its store: stops, edits, decorations | extends `CachedFunction` |
| `ProcessFlight` | the lock file of one key and the processes that join its flight: `interprocess.py` and the process part of `_compute_flight` | every system call is a step |
| `AtomicStore` | what `CacheBackend` of `backend.py` promises the engine | abstract; calls take effect at one instant |
| `DiskStore` | `DiskBackend`, every system call of every operation | implements `AtomicStore` |
| `MemoryStore` | `MemoryBackend` and its two-step `clear(namespace)` | |
| `Keys`, `Fingerprint`, `Dependencies` | the digests of a call, a function and its declared resources, as the streams fed to the hasher | operators, many recursive; each comes with the relation the digest stands for |
| `ResultIdentity` | `build_key`, `current_dependencies` and the comparison in `_fresh_entry`: when a stored result answers another call | extends the three |
| `ArrayToken` | `tokens.py`: the memo, calls, deaths and prune callbacks | |
| `MC...` | constants, symmetry and inputs for TLC | |
| `KeyedLocksProof`, `ProcessFlightProof`, `DiskStoreProof`, `ArrayTokenProof` | theorems about one module each | |
| `LRUBudgetProof` | sums over finite sets; what each method of the budget returns, preserves and does to the order of use | lemmas for the next |
| `CachedFunctionProof`, `CachedFunctionStoreProof` | theorems about the engine: lock, types, dependencies and tallies; store, quarantine, budget and bound | the second extends the first and `LRUBudgetProof` |
| `PersistentFunctionProof` | theorems about the life of a store: rehydration, budget and order of use across stops; with one caller, what becomes of every entry, what `explain` foretells and what a quarantine keeps from being served | extends `CachedFunctionStoreProof` |

Composition. The engine is written against `KeyedMutex`; that `KeyedLocks`
implements it is checked (`ImplementsKeyedMutex`) and proved. The engine's store
is one whose `get`, `set` and `delete` are atomic and may fail, which is what
`AtomicStore` says of a key; `DiskStore` is checked and proved to implement it, with two
relaxations the engine tolerates: an entry may be lost, and a deleted one may
come back after a power loss, when the quarantine and the budget are gone too.
`PersistentFunction` puts the engine, the budget and the maintenance together.
`NoFalseHit` is what entitles the engine to treat a key as an opaque value.
Within a process the per-key lock lets one thread at a time join the process
flight of a key, so an actor of `ProcessFlight` is a process.

### KeyedLocks and the code

| Code | Actions |
|---|---|
| the guarded lookup of `holding` | `Enter` (`EnterFresh` or `EnterShared`); interrupted in it, `EnterUncounted` |
| `acquire()` in the `try` | `Acquire`; `Interrupt`, or `LateInterrupt` once the mutex is taken |
| the body and `finally` | `Release` |
| `_release_ref` | `ReleaseRef`; interrupted in it, `ReleaseUnpopped` |
| an interrupt between the guard and the `try`, between `acquire()` and the second `try`, in `finally`, before or in `_release_ref` | `Abandon`, or `AbandonLocked` with the mutex taken |

A thread of the model is one call of `holding`. A cached function that calls
another one from its body (or itself, with other arguments) is two calls, the
inner of which ends before the outer one does; that the inner ones end, so that
no two calls wait for each other's keys in a circle, is the caller's obligation
(`flight.py:9-10` names the case of one key) and the fairness assumption that
bodies end. The history variables `lost`, `unpopped` and `late` record what an
interrupt outside every `try` has left behind, and `MaxStrays` bounds how many
there are.

### CachedFunction and the code

`pc[t]` says where thread `t` is; the labels follow the source. A step is one
access to shared state, with the local computation next to it. Accesses are
merged only where an operation in between could not make a difference that a
property sees:

* `Judge*` reads the clock, repeats the quarantine check and, on a hit, touches
  the budget: a later touch would only order recency differently;
* `LabelStale`: the budget forgets the key and the clock is read;
* `FinishCommit`: the quarantine and the eviction marker of the committed key
  are dropped;
* the release of the lock is part of the last step of a flight.

| Code | Actions |
|---|---|
| `wrapper` | `StartCall`, `EnterFlight`, `Return` |
| `_fresh_entry`, `serve_if_fresh` | `Lookup` (before and up to `store.get`), `JudgeFast`, `JudgeLocked`, `JudgeVerify` (after it) |
| `_classify_and_compute` | `ClassifyPending`/`RetryDelete`/`MissInvalidated`, `ClassifyStale`/`DeleteStale`/`LabelStale`, `ClassifyAbsent` |
| `_run_and_time` | `RunReturns`, `RunRaises` (also `current_dependencies()` at the commit) |
| `_commit_result` | `RecheckDeps`, `SkipUnsized`, `Write`, `WriteFails`, `AdmitEntry`, `EvictDelete`, `RememberEviction`, `NoteEviction`, `Settle`, `DrainDelete`, `DrainForget`, `FinishCommit` |
| `_verify_flight` | `JudgeVerify`, `VerifyConfirms`, `VerifyRefutes` or `WarningRaises` (under `-W error`), `DeleteRefuted`, `ForgetRefuted` |
| `invalidate` | `StartInvalidate`, `InvalidateDelete`, `InvalidateMark` or `InvalidateQuarantine`, `InvalidateReturns` |
| `clear` | `StartClear`, `ClearEntry` for each entry, `ClearStore` (the store is done) or `ClearRaises`, `ClearBudget`, `ClearMarks` |
| `profile` | `StartProfile`, `ProfileLookup`, `ProfileWrite` or `ProfileWriteFails`, `ProfileDelete` |
| `explain` | the operator `Explain` (it changes nothing) |

Abstractions. A value is the pair of versions its computation read: of the
declared dependencies (`dep`) and of everything the fingerprint cannot see
(`hidden`). A dependency version never returns, which is the stability contract
of `dependencies.py`. A size is drawn from `Sizes`: `NoSize` (-1) is an estimate
that raises, and what is negative an estimate that the commit refuses and
`profile` stores as it is. `PersistentFunction` assumes that a `size_of=` answers
no negative number, which a later decoration would take into the budget. The
store's `get`, `set` and `delete` are atomic and a delete or a set may fail, as
often as `MaxDeleteFaults` and `MaxWriteFaults` allow; a delete fails only if
there is something to delete. A `clear` removes entry after entry in any order:
all that were there when it began, and whichever of those written meanwhile it
comes across (a header it cannot read is in `DiskStore`). The eight-key retry batch and
the caps of 4096 are constants. Tallies are kept per call (`booked`), not summed;
elapsed times and the savings estimate are left out. History variables (`gen`,
`condemned`, `cut`, `floor`, `booked`, `forecast`) never guard an action.

### PersistentFunction and the code

| Code | Action or operator |
|---|---|
| `_wrap` up to the wrapper: rows, purge, rehydration, empty control | `Decorate`, with `Ours`, `Sized`, `OlderThan`, `Rehydrated` |
| the life of the wrapper | `Runs`: the actions of `CachedFunction` on keys of the current code |
| the end of the process at any step | `Stop`: everything in memory is gone |
| the source changes, or changes back | `Edit` |
| entries of a program with another `max_memory=` or none | `EarlierRun` |
| `stats().current_bytes`, `inspect()` | `CurrentBytes`, `Inspect` |

A key belongs to one version of the code, as the fingerprint in it says. The
expiry less the TTL stands for `created_at`. `Decorate` is one step: it works on
one snapshot of the rows, and a process that stops within it has done some of
its deletes, which is the case of the others failing. History: `recent`
(order of use), `survivors` (keys whose delete failed), `lost` (keys whose
quarantine a stop has dropped, as long as they keep the entry of then and are not
quarantined anew), `dropped` (keys the budget has evicted).

### DiskStore and the code

| Code | Actions |
|---|---|
| `set` | `StartSet`, `SetOpens`, `SetFlushes` (write, flush, fsync), `SetRenames`, `SetSyncs` or `SetSyncFails`; `SetRaises` with `RemovesTemp` or `RemovalFails` |
| `get`, `peek`, `_read_entry` | `StartRead`, `ReadFile`, `Parse`, `CleanUp` |
| `delete` | `StartDelete`, `Unlinks` or `UnlinkRaises` |
| `clear` | `StartClear` or `StartClearAll`, `ListTemps`, `SweepTemp`, `SweepEnds`, `List`, `ListNext`, `Unlinks` or `UnlinkRaises`, `ListEnds`; `ListFails`, `Overlooks` |
| `iter_metadata` (and `iter_entries`, which reads the same way) | `StartScan`, `List`, `ListNext`, `ListEnds`; `ListFails`, `Overlooks` |
| the world | `Damage`, `Crash`, `PowerLoss` |

A path stands for the key it is the hash of; the content of a file is the number
of the set that wrote it and a form: whole, torn, or one of six kinds of damage,
which differ in who can read what and who raises over it. Two failures make no
noise: `pathlib`'s `glob` finds nothing in a directory it may not list
(`ListFails`), and `_read_metadata` takes a header that cannot be read for none
(`Overlooks`); the history field `unread` of a call says what it has passed over.
`orphans` are the temporary files whose writer was killed or could not unlink
them. `back[k]` is what a power loss may restore at
a path: all it has held since the last synchronisation of the directory, with
torn bytes where they were not fsynced. The refinement mapping gives each key the
entry a reader would find; a set lands when it renames, a read happens when it
reads, `clear` removes one entry after the other. What `AtomicStore` does not
promise is as telling as what it does: a `delete` or `clear` is not synchronised,
so a power loss may undo one that returned; the clean-up of `get` may remove an
entry that landed after the damaged one was read; `clear(namespace)` leaves files
whose header is unreadable, or cannot be read just then; a scan may miss those and
may raise; a full clear sweeps the temporary files of live
writers, whose `set` then raises.

### ProcessFlight and the code

| Code | Actions |
|---|---|
| `_join_process_flight`, `coordinate` | `Join`, `Probe`, `Measure`, `Deadline` |
| `try_acquire` | `CreateWins`, `CreateLoses` or `CreateFails`; `WriteToken`; `HeartbeatFails` if no thread can start; or `WriteFails` and `Cleanup` |
| `break_stale` | `BreakRecheck` (the second look at the age), `BreakUnlinks` or `BreakFails` |
| `_beat` | `Wake`, `Touch` or `TouchFails` |
| `release` | `ReleaseReads` (flag, event and comparison of the token), `ReleaseUnlinks` |
| rest of `_compute_flight`, `_classify_and_compute` | `Recheck`, `Classify`, `DeleteStale`, `Commit` or `CommitSkipped`, `Return` |
| the world | `Tick`, `Crash`, `FallsBehind`, `LockSwept` (a full `clear`), `Expires` |

A file has an identity, its creator's token and an age in ticks. Operations on
the path act on whatever file is there: that is why a heartbeat may refresh a
successor's lock and why a release or a break may remove one. Every operation on
the file system may fail. A process "keeps up" while it does its file duties
(token, beat, release) within `Heartbeat` ticks; `FallsBehind` turns one into a
`late` process, which stays alive and goes on at any later time, and a failed
`utime`, which ends the heartbeat thread, makes its process late too. The entry is
`none`, `fresh` or `stale`; that a fresh entry is also a right one is the engine's
subject. The poll interval and the derivation of `max_wait` are not modelled: a
poll may come at any time, and `MaxWait` is any number. History variables: `seen`
(the file on which a process decided what it is about to unlink) and `under`
(whether the entry was committed under an intact lock).

### ResultIdentity, its parts, and the code

A Python value is its branch of `_feed`, its concrete type, its text or bytes,
its items, and what the branch drops of it (`unseen`); `Feed` is the sequence of symbols the hasher receives, with the tags,
lengths and counts the code emits, so that two streams may run together in the
model as they may in the code. SHA-256 is an injective opaque symbol. `repr` of a
list or a shape, and the row hashes of pandas and polars, are opaque too. A
function is a record on a heap: code with constants, nested code and the `layout`
that `_feed_code` leaves out (flags, parameter counts, cells, exception table), closure,
defaults, JIT options, wrapped function; `FingerprintSeeing` carries the mutable
set `seen` through the traversal as the code does. A world is a function, a call,
a declaration and the state of the resources; the first call stores an entry, and
the second one is made in any other world. What equality the key *should* decide
is defined apart from the encoding: `Alike` on values, `SameFunction` (the
greatest fixpoint over the heap) and `SameResources`; they compare `unseen` and
`layout`, which no stream holds. `NoFalseHit` therefore says of a hit that the
inputs are the same, or differ in those two alone (`DifferUnseen`, the same
relation on the world as the digests see it). A file declared
`on="mtime"` is compared by its time and size, the heuristic its docstring warns of.

### ArrayToken and the code

One action per dictionary operation: `Get`, `Insert`, and `PruneGet` and
`PruneDel` of a dead reference's callback. Objects are born at free addresses and
die when no call holds them; a callback may run after the address is in use again,
as the comment in `prune` allows. The caller's contract is kept: contents never
change.

## 3. What TLC checks

| Run | Question | Distinct states |
|---|---|---|
| `KeyedLocks` | three calls, interrupts between any two instructions, two of them outside every `try`: mutual exclusion, a registry exact up to what those took along, one mutex per key, refinement of `KeyedMutex`, waiters are served until an interrupt leaves a mutex locked | 344k |
| `FunctionControl` | three threads, calls, invalidations and clears over registries of capacity one, a failing delete: single flight, hits reflect dependencies, one hit or one miss and outcome per call, types and caps | 235k |
| `FunctionFaults` | two threads on one key, failing deletes, a TTL and a clock that steps back: nothing invalidated or found expired is served, only stale entries are deleted as stale, entries are faithful, every operation ends | 236k |
| `FunctionVerify` | `verify=`, `profile`, exceptions, warnings that raise, sizes that cannot be had, failing writes, a TTL: nothing refuted is served after the call that replaced it, the bound at rest, one tally per call | 519k |
| `Restart` | one caller, three keys, every operation, failing deletes and writes, a stop at any step, edits and decorations over any left-overs: exact and bounded total, LRU order across restarts, every entry accounted for, the newest kept, evictions explained, `explain` forecasts the next call, retries spare live entries, only a restart forgets a quarantine | 374k |
| `ProcessFlight` | two processes and one crash, late process, sweep or expiry: what a holder committed is not redone, a healthy holder loses its lock only in the named windows, every flight ends | 483k |
| `DiskStore` | two processes and any two faults, damages, crashes or power losses in three operations: nothing torn, nothing synchronised lost, temporaries owned or swept, `clear` and the scan find what was there and could be read, refinement of `AtomicStore` under every damage | 470k |
| `ResultIdentity` | an entry stored in any world and a call made in any other one: no false hit but over what the digests drop, no needless miss; and three objects at two addresses, two threads: tokens are right, dead entries are being pruned | 279k |

Bounds. `MaxOps` bounds the operations started, `MaxDep`, `MaxHidden`, `MaxClock`
and `MaxClockBack` the world's moves, `MaxDeleteFaults` and `MaxWriteFaults` the
faults, `MaxStrays` the interrupts outside every `try`, `MaxStops` the restarts, `MaxTemps` the temporary names and `MaxEvents`
the faults and moves of the environment. Every race found so far needs at most
three operations of two threads and one fault; the passing runs have room for
that and, where the state space allows, for one more operation, thread or fault.
Two keys suffice for an eviction across keys, three for a ledger, a marker list or
a rehydration in which order matters; the caps are 1 to 3 so that they are
reached. Keys and threads are symmetric except under fairness and where keys have
an order. In `DiskStore` the two namespaces hold one key each, so a clear has one
entry to remove and one to spare. In `ProcessFlight`, `MaxJoins` bounds the calls
(three: two that race, and one that meets what they left) and `MaxEvents` the
moves of the world; one tick of heartbeat, staleness and deadline is enough to be
early, in time or too late, and the ages are counted no further than the last one
that matters. System calls fail as often as they like. All clocks agree in this
run; the theorems cover clocks that run ahead. In `ResultIdentity` the values are
the ones a wrong encoding would confuse: texts that spell tags and lengths,
subclasses, empty and nested containers, the same items in another order or type,
functions that differ in one constant, default, capture or option, a file that is
missing, a variable that is empty or unset, a dependency declared later.

A behaviour stops when the bounded operations are used up, so all configurations
but one say `CHECK_DEADLOCK FALSE`; that no thread or process is stuck *inside* an
operation is `EveryOperationEnds` and `EveryFlightEnds`. `KeyedLocks` bounds no
calls and is checked for deadlock.

Fairness. `KeyedLocks`: weak fairness of `Acquire`, `Release` and `ReleaseRef` of
each thread. The scheduler keeps running a thread that can run; the body of a
`with` is assumed to end; `threading.Lock` is not FIFO, so there is no strong
fairness, and the property promises only that *somebody* of the key gets the
lock, and nothing after an interrupt that leaves a mutex locked (`flight.py:38`,
`:38-42`, `:45`). `CachedFunction`: weak fairness of each thread's steps, not of
starting an operation nor of the world. A caller that waits is served because the
finitely many other operations each end; the property would not hold under an
unbounded stream of competing callers, and it is not claimed. `ProcessFlight`:
weak fairness of the steps of each process that runs and of its heartbeat thread,
and of `Tick`, because time goes on; none for calls, crashes, processes that fall
behind, sweeps and expiries. A crashed process owes nothing: its flight has ended.
The other modules state no fairness and claim no liveness.

### Disagreements with the code

Each of these runs checks one property that a comment or the README of the
repository states, and TLC finds a behaviour that violates it.

| Run | What happens |
|---|---|
| `RefutedServedAgain` | a refuted entry whose delete and replacement fail is served (`decorator.py:1283`) |
| `DamagedHeader` | a header that is JSON but no object raises `AttributeError` out of `clear(namespace)`, `stats`, `inspect` and every decoration over that directory (`disk.py:139`, `:157`) |
| `ClearResurrects` | `clear(namespace)` of one function brings back what another one has deleted in the meantime (`memory.py:36`) |
| `FingerprintCollision` | functions of one factory that capture `(a, b, a)` and `(a, b, b)` have one fingerprint, because `seen` is shared by siblings (`fingerprint.py:190`); run as Python, the second function returns what the first one stored. The run also has two that capture `lambda *xs: xs` and `lambda xs: xs` |

Known windows without a run of their own. The models contain them; where a
property is named, it fails once the ingredients named are put together:

* a commit drops its key from the ledger after another thread put it there:
  bytes outside the budget for good (`decorator.py:1231`; `BoundHoldsAtRest`,
  two threads, a failing delete);
* `clear` drops a quarantine set after the store was cleared: an invalidated
  value is served (`:469`; `NeverServesCondemned`, two threads, `clear`, a failing
  delete);
* `profile` stamps an old value with new dependencies; it survives a failed delete
  and is served (`:386`; `HitReflectsDependencies`, `profile`, dependencies);
* `clear` resets the budget after a concurrent commit was admitted (`:466`), so
  its bytes are not accounted for until the next decoration;
* a commit drops the marker of an eviction that came after its admit (`:1235`), so
  `explain` does not report it;
* `profile` may write between the re-check and the classification of a locked
  call, which then deletes a fresh entry as stale (`:1104`);
* a retry batch copied before a commit of one of its keys deletes the new entry
  (`:951`);
* an interrupt between the guard and the `try`, or after `release()`, leaves the key
  registered for ever although `flight.py` promises that the registry "never leaks
  finished keys" (`flight.py:34`, `:45`, `:48-52`; `RegistryIsExact` names these);
  one between `acquire()` and the second `try` or before `release()` leaves its
  mutex locked (`:38`, `:45`; `WaitersAreServed` promises nothing after it);
* under `-W error` the warning of `verify=` raises before the refuted entry is
  deleted (`decorator.py:1274`), and the next call is served it; so
  `NeverServesCondemned` speaks of the call that *replaced* it;
* `profile` stores a negative answer of a `size_of=` (`:357`), which a later
  decoration takes into its budget;
* a heartbeat thread that cannot start leaves the lock file until it looks stale
  (`interprocess.py:131`), and the call raises;
* a temporary file whose unlink fails stays until a full clear, and the `set`
  raises (`disk.py:106`; after a rename that succeeded no temporary file is left, and
  the unlink is then taken to succeed);
* `clear(namespace)` and the metadata scan return normally having skipped an entry
  whose header could not be read at that moment (`disk.py:207-218`), or a directory
  that could not be listed; so the stored bytes, the purge and the rehydration may
  miss it. The engine's models take a clear or a decoration to see every header.

False hits that `NoFalseHit` admits and the run's worlds contain, all from what the
digests drop. Of `fingerprint.py`, `_feed_code` (`:388-391`) feeds neither `co_flags`
nor the counts of the parameters, so nested or captured `lambda *xs: xs` and
`lambda xs: xs`, or `(x, *, y)` and `(x, y)`, share a fingerprint; nor, since Python
3.11, the exception table, so a function whose second call moves out of a `try` into
its `else` keeps its fingerprint: after the edit a persistent cache serves the old
result (all three run as Python 3.11). Nor the cells, which Python 3.10 numbers
apart from the locals. Of `keys.py`: the mask of a masked array (`:145`), the fact
that an integer which `item()` returns was a `datetime64[ns]` or a `timedelta64[ns]`
(`:148`), the names of an index (`:223`), what a subclass adds to its base.

In `ProcessFlight`, the README's "a healthy holder is never preempted" holds up to
the windows that `break_stale` and the class comment of `ProcessLock` describe;
`HealthyHolderIsPreemptedLate` is the exact list.

The passing runs leave out exactly the ingredient a disagreement needs:
`NeverServesCondemned` is checked with failing deletes but without `clear` and
`verify=`, and under `verify=` without failing deletes; `BoundHoldsAtRest` with
threads but without failing deletes or `clear`; what `Restart` checks, with
failing deletes but a single thread; the dependency properties and
`OnlyStaleIsDeleted` without `profile`; `ResultIdentity` without functions that
reach one helper by two ways.

## 4. What is proved

For every value of the constants that satisfies the named assumptions:

* `TypeOKHolds`, `MutualExclusionHolds`, `RegistryIsExactHolds`, `OneMutexPerKeyHolds`,
  `KeyedLocksImplementKeyedMutex` (`KeyedLocksProof`). Assumed: finitely many
  threads, `NoThread` and `NoSlot` are none of the others. Mutual exclusion is
  not inductive; the invariant `IInv` adds that a call that is not idle refers
  to the slot registered for its key (so a slot cannot leave the registry under
  its users), that a registered slot has a user, or one that an interrupt outside
  every `try` took along, and serves one key, that the count is the number of both,
  and that the thread inside owns the mutex. The
  refinement maps `holder[k]` to the thread inside the body of `k`.
* `SingleFlightHolds` (`CachedFunctionProof`). Every step of the engine is one of
  four moves of one thread (it begins, takes the lock, leaves it, or goes on on
  the same side of it), and each keeps the invariant: the holder of a key is
  exactly the thread whose label is inside the flight of that key. This says as
  well that no path, error paths included, leaves a flight with the lock taken.
* `TypeInvariance`, `TypeOKHolds`, `BudgetInvariance` (`CachedFunctionProof`,
  `CachedFunctionStoreProof`). Nothing is assumed beyond the model. The types of
  the data come first, with the fact that a label which uses an entry that was read
  has one (`HoldsEntry`). The registries need their caps and, for a commit, that
  what it admits fits (`AdmitReady`); the budget needs that each key is tracked
  once and that the total is the sum of the sizes (`WellKept`), whichever of
  `touch`, `forget`, `admit` and `reset` another thread calls in between.
* `ForgetIsConsistent`, `TouchIsConsistent`, `AdmitIsWellKept`,
  `AdmitEvictsTheOldest` (`LRUBudgetProof`): the methods of `policy.py` on any budget. The community module's sum is a fold
  over a finite set; that it is what its recursion says, and that it splits over
  disjoint sets, is proved by induction over the numbers of elements, as a
  statement about a set of numbers, because the library's induction theorems take
  an operator and cannot be instantiated. The eviction loop is the least number of
  oldest entries that must leave, which exists because it is one of finitely many;
  that it is the least says that one eviction fewer would not have been enough.
* `EntriesAreFaithfulHolds`, `HitReflectsDependenciesHolds`
  (`CachedFunctionProof`). Assumed: `profile` is not among the operations;
  the window of `decorator.py:386` above shows that it must be. The invariant
  `DepsInv` relates each call's locals to its snapshot and to the dependencies
  now: while a result waits for its commit it was computed between the two, so
  when they are found equal it was computed from the snapshot. Types of the data
  are part of it, because the order of versions is an order of naturals.
* `EveryCallIsBookedOnceHolds` (`CachedFunctionProof`). Nothing is assumed beyond
  the model. Every step is, as far as the tallies of its caller go, one of six moves
  (it goes on, counts its miss, hits, ends with an outcome, fails, begins anew), and
  each keeps `BookedOK`, which says for every label what is booked there: nothing
  while the call is undecided, its miss while it computes, one hit once it is served.
* `NeverServesCondemnedHolds` (`CachedFunctionStoreProof`). Assumed
  (`SafelyFaulty`): deletes do not fail where `clear` or `verify=` is used. Both
  parts are needed: TLC finds the window of `:469` above with the first, and the
  finding `RefutedServedAgain` is the second. The property speaks of a call that is
  served; the invariant `CondInv` follows an entry from its write. Entries are
  numbered as they are written (`KeyIsNumbered`); one that has been given up is
  gone, quarantined or lapsed (`StoreSafe`); what a call has read was read before
  that, or has lapsed and is not going to be returned (`ReadSafe`); what a commit
  wrote is not given up when the commit lifts the quarantine (`CommitSafe`); and
  what an operation gives up when it returns has by then left the store
  (`CutSafe`). Every step is one of nine moves with regard to these. The numbers
  alone (`Numbered`) are kept by the moves without the rest, and serve again below.
* `OnlyStaleIsDeletedHolds` (`CachedFunctionStoreProof`). Assumed: `profile` is not
  used, which writes without the lock of the key, and deletes do not fail where
  `clear` is used, which may drop a quarantine on the way. `StaleInv` says that
  between the judgement under the lock and the second look at the store the entry
  can only disappear or be quarantined: everything that writes the key or lifts its
  quarantine holds its lock. It rests on `DepsInv` and the order of the clock.
* `BoundHoldsAtRestHolds` (`CachedFunctionStoreProof`). Assumed: no delete fails
  (the ledger is bounded, and a commit may strike another thread's key off it) and
  `clear` is not used (it resets the budget after a concurrent commit was admitted):
  the windows of `:1231` and `:466` above. `AccountInv` says that every entry in
  the store is tracked with its size, or some thread that is under way still owes its
  admission or its deletion (`Owes`). At rest nobody owes anything, so the stored
  bytes are a part of the total, which `BudgetInvariance` bounds.
* `KeptInvariance`, `TotalIsBoundedSumHolds`, `RestartKeepsTheNewestHolds`,
  `EvictsLeastRecentlyUsedHolds` (`PersistentFunctionProof`), for any number of
  threads, all operations, faults, stops, edits and left-overs. Assumed: there are
  finitely many keys, and their order as strings is total, so that "the newest" is
  one entry. `KeptInv` joins the lock, type and budget invariants of the engine;
  `Runs` is a step of the engine, so what is new is that a stop and a decoration
  keep it. For the decoration the rows can be listed by age, in one way
  (`ByAgeLists`), the loop is a recursive function that has a solution
  (`LoopExists`, by induction over the number of rows), and after each row the
  budget tracks, in the order of their age, as many of the newest rows so far as fit
  together (`KeepsNewest`). A row only pushes out rows older than itself, the oldest
  first, which is why admitting them from the oldest to the newest ends with the
  newest. `RecencyInv` says that the list of the
  budget follows the history of uses: every step of a thread forgets a key, touches
  the key it serves or admits the key it wrote (`UseMove`), and a decoration starts
  both anew in the order of age.
* `EveryEntryIsAccountedHolds`, `BoundHoldsAcrossRestartsHolds`,
  `EvictionsAreExplainedHolds`, `DrainSparesLiveEntriesHolds`
  (`PersistentFunctionProof`), for all operations, dependencies, `verify=`, any clock,
  faults, stops, edits and left-overs. Assumed: calls of the function do not overlap
  (`OneCaller`: with two threads the windows of `:1231`, `:466`, `:1235` and `:951`
  above violate one or the other) and the registries have room for every key
  (`CapsSuffice`: a full ledger forgets a key whose delete failed, and the code caps
  it at 4096). None of the four is inductive, because an operation has the books
  open for several steps. `Books` says what is true meanwhile. `AllSettled`: each
  entry that has a size is tracked with it, or in the ledger, or a left-over, or on
  the caller's list of evictions, or is the entry the caller has just written.
  `Listed`: what the budget dropped is gone, and it has its marker or is in the one
  step between the delete and the marker; so has every key of the ledger, because a
  retry that succeeds sets none. `CommitTidy`: what a commit evicts is no longer tracked, what it retries is
  in the ledger and is not its own key, so a retry cannot meet an entry that
  somebody wanted. `OtherTidy` and `OfThisCode`: the budget forgets a key only once it is
  deleted or its delete has failed, and a present entry of other code is a left-over. Most
  steps leave the books alone (`Calm`) and are dealt with together; a decoration
  opens them with what `KeepsNewest` says of its loop.
* `ExplainForecastsTheCallHolds`, `OnlyARestartLiftsTheQuarantineHolds`
  (`PersistentFunctionProof`), for all operations, dependencies, exceptions,
  failing writes, stops, edits and left-overs. Assumed of both: calls of the
  function do not overlap (`OneCaller`: otherwise what `explain` saw may change
  before the call looks, and a concurrent `clear` drops a quarantine, `:469`), and
  with a `ttl=` the wall clock does not step back (`SteadyClock`: the ratchet
  knows the last reading of a call only, and a restart forgets it, so what
  `explain` called expired may be served once the clock is back, and so may, after
  a restart, an expired entry whose delete failed). Of the second, that deletes do
  not fail where `verify=` is used (`RefutedIsGone`: the finding
  `RefutedServedAgain`). TLC finds a violation without any of them. The first
  holds with `verify=` over failing deletes as well. `SightInv` is what a single
  caller means: whatever a call has read is what the store holds, unless the key
  is quarantined; with it, the ratchet is never ahead of the clock. `ForetoldInv`
  adds what links a forecast to a count. Until the call has found out, what
  `explain` said is still so (`StillSo`), because only its own steps change the
  store or the markers and time can only turn what was fresh into stale
  (`Lapses`); the first count is the one of `MayFollow` (`FirstCount`), and an
  outcome comes after it (`LaterCounts`). `QuarantineInv` says of every entry that
  was given up and is still there that its key is quarantined, or the entry is
  overdue, or a stop dropped its quarantine (`Excused`), and of the entry a call
  has chosen that only the last is possible (`ChoiceIsExcused`): what is
  quarantined reads as absent, what is overdue is not fresh. The steps are the
  nine moves of `NeverServesCondemned`, which hold here even for a `clear` among
  failing deletes: with nobody else to write, the store is empty when `clear`
  drops the quarantine. Left-overs are numbered as the first entries of their
  keys, which only fixes the history variable that numbers entries.
* `LawfulWorkIsNotUndoneHolds`, `HealthyHolderIsPreemptedLateHolds`
  (`ProcessFlightProof`). Assumed: a heartbeat is no longer than the staleness
  threshold, `NoFile` is not a file. Neither property is inductive. `OwnerInv`
  says that identities are never reused and that only a process inside a flight
  owns a file, so at most one process owns the file at the path; with it,
  `LawfulWorkIsSeen` carries what the second look at the store saw up to the
  commit. `AgeMeasuresSilence` says that the file of a process that keeps up is no
  older than its last duty, hence no older than `Heartbeat`; with it,
  `JudgedIsLate`: a breaker whose clock is right has judged a file whose owner was
  late. Clocks, deadlines, numbers of processes and bounds are arbitrary.
* `TokenSafety`, `TokenMemoIsPruned` (`ArrayTokenProof`). Assumed: `NoOne` is no
  object, "unborn" and "dead" are no addresses. A token is right because every
  digest in the memo or in a thread's hands is that of the object it is paired
  with, whether or not that object still lives at the address (`MemoKept`); the
  pruning theorem adds that a live object's entry is at its own address and that a
  callback on its way knows which address it is for.
* `EntriesAreNeverTornHolds`, `TemporariesHaveAnOwnerHolds`,
  `SyncedSetSurvivesHolds`, `ClearForgetsWhatWasThereHolds`,
  `ScanSeesWhatWasThereHolds`, `FullClearSweepsStraysHolds`,
  and `DiskStoreImplementsAtomicStore`
  (`DiskStoreProof`), for any processes, keys, temporary names, faults and
  bounds. Assumed: every key has a namespace and none is called "all", `NoFile`
  is no content. All kinds of damage are covered, and listings, headers and unlinks
  that fail. None of the properties is inductive. `PathInv` extends them to what a power loss may bring back: all of
  it is flushed, whole or damaged from outside, and numbered between the last
  synchronised set of its key and the number of renames; a set that waits for its
  synchronisation has been superseded by later ones only. `TempInv` says why
  contents are flushed: a temporary name has one writer, and it is not renamed
  while it is merely open. `ListInv` follows one entry through a clear or scan:
  what was there when it began and still is, is on its list, in its rows, about
  to be unlinked or among what it could not look at. `StraysInv` does so for a dead process's temporary file, up to the
  sweep that strikes it off every call. The refinement lets `store` be what a
  reader would find, `undo` what it would find after a power loss, and gives each
  call its phase: every step is an abstract step of its process, or leaves the
  abstract call as it is.

Only model-checked:

* liveness (`WaitersAreServed`, `EveryOperationEnds`, `EveryFlightEnds`), which
  TLAPS does not reach;
* `ResultIdentity`: the encodings recurse over values and heaps, so its modules are
  beyond the provers; the bounded worlds are chosen for the confusions that an
  encoding invites;
* `MemoryStore` has only the run of the finding.

## 5. Not modelled, and the plan

* Parsing of sizes and durations (`sizes.py`, `durations.py`), the rendering of
  records and explanations, the test helpers of `testing.py`: pure, sequential and
  tested by examples.
* The validation of the decorator's arguments, the savings estimate and elapsed
  times: no decision of the engine depends on them.
* `referenced_global_functions`: it only words a hint in a profile.
* Inside NumPy, pandas and polars: a buffer, a shape and a row hash are opaque.
* The concrete syntax of names in the digests: a `.` in a module or class name
  could make two of them spell alike (`keys.py`, `_type_identity`), and the `id()` of
  a captured value without source that is used again after the value died
  (`fingerprint.py`) is not tracked.
* The concrete file system: `DiskStore` takes a rename to be atomic and `fsync` to do
  what it says.
* Several functions on one store with the engine in full: `MemoryStore` has the
  one operation in which they meet; `DiskStore` has clears of two namespaces.

What could follow: the engine over `AtomicStore` itself rather than over a store of
its own.
