------------------------- MODULE PersistentFunction -------------------------
(***************************************************************************)
(* A function decorated with @cache(persist=...) over the life of its      *)
(* store: the program stops at any moment, its source may be edited, and   *)
(* it is decorated again over the entries that are still there, which      *)
(* purges those of other code and rebuilds the budget from the rest        *)
(* (_purge_stale_fingerprints and _rehydrate_budget of                     *)
(* src/src/cachau/decorator.py).  While it is up, it is CachedFunction.    *)
(*                                                                         *)
(* A key holds the fingerprint of the code it was made for.  An entry's    *)
(* age is its created_at, here its expiry less the TTL.  An entry written  *)
(* before max_memory= was given has NoSize.  Excluded by assumption: a     *)
(* size_of= that answers a negative number, which profile() would store    *)
(* and a later decoration take into the budget as it is.                   *)
(***************************************************************************)
EXTENDS CachedFunction

CONSTANTS
    Codes, CodeOf,  \* the versions of the source; the code of each key
    Rank,           \* the order of the keys as strings, of which there are finitely many
    LeftOvers,      \* what an earlier program may have left in the store; in the
                    \* history, each is the first entry of its key
    MaxStops        \* bound: how often the program stops

ASSUME PersistenceAssumption ==
    /\ IsFiniteSet(Keys) /\ CodeOf \in [Keys -> Codes]
    /\ Rank \in [Keys -> Nat] /\ \A j, k \in Keys : Rank[j] = Rank[k] => j = k
    /\ LeftOvers \subseteq [Keys -> Entries \union {NoEntry}] /\ MaxStops \in Nat
    /\ \A left \in LeftOvers, k \in Keys : left[k] # NoEntry => left[k].gen = 1
    /\ Sizes \subseteq Nat \union {NoSize}
    /\ \A left \in LeftOvers, k \in Keys : left[k] # NoEntry => left[k].size >= NoSize

VARIABLES
    up,         \* the function is decorated
    code,       \* its source now
    stops,      \* what the bound bounds
    recent,     \* history: the keys of entries, from least to most recent use
    survivors,  \* history: keys whose entry a failed delete left behind, outside the ledger
    lost,       \* history: keys that were quarantined when the program stopped, whose
                \* entry is still that of then and has not been quarantined again
    dropped     \* history: keys whose entry the budget has dropped since decoration

life == <<up, code, stops>>
tales == <<recent, survivors, lost, dropped>>
allVars == <<vars, life, tales>>

-----------------------------------------------------------------------------
(* Decoration.                                                             *)
Ours == {k \in Present : CodeOf[k] = code}
Sized == {k \in Ours : store[k].size # NoSize}

(* Mutant: newest first.                                                   *)
YoungerThan(j, k) ==
    \/ store[j].expires > store[k].expires
    \/ store[j].expires = store[k].expires /\ Rank[j] < Rank[k]

(* `sized.sort()`: by created_at, ties broken by the key.                  *)
OlderThan(j, k) ==
    \/ store[j].expires < store[k].expires
    \/ store[j].expires = store[k].expires /\ Rank[j] < Rank[k]

ByAge ==
    CHOOSE keys \in [1 .. Cardinality(Sized) -> Sized] :
        \A i, j \in DOMAIN keys : i < j => OlderThan(keys[i], keys[j])

(* The loop of _rehydrate_budget after n of its rows: the budget and the   *)
(* entries to delete.                                                      *)
Rehydrating[n \in 0 .. Len(ByAge)] ==
    IF n = 0 THEN [budget |-> EmptyBudget, deleted |-> {}]
    ELSE LET before == Rehydrating[n - 1]
             k == ByAge[n]
             admitted == Admit(before.budget, k, store[k].size)
         IN  IF Fits(store[k].size)
             THEN [budget |-> admitted.budget,
                   deleted |-> before.deleted \union Range(admitted.evicted)]
             ELSE [before EXCEPT !.deleted = @ \union {k}]

(* Mutant: what the budget gives back is not deleted.                      *)
RehydratedKeepingFiles == [Rehydrating[Len(ByAge)] EXCEPT !.deleted = {}]

Rehydrated == Rehydrating[Len(ByAge)]

(* Purge and rehydration, on one snapshot of the rows.  Deletes are best   *)
(* effort.  (A program that stops in between has made some of them: the    *)
(* same as if the others had failed.)                                      *)
Decorate ==
    /\ ~ up /\ up' = TRUE
    /\ budget' = IF HasBudget THEN Rehydrated.budget ELSE EmptyBudget
    /\ \E failing \in SUBSET Keys :
        LET purged == (Present \ Ours) \union (IF HasBudget THEN Rehydrated.deleted ELSE {})
        IN  /\ failing \subseteq purged
            /\ deleteFaults + Cardinality(failing) <= MaxDeleteFaults
            /\ deleteFaults' = deleteFaults + Cardinality(failing)
            /\ store' = [k \in Keys |-> IF k \in purged \ failing THEN NoEntry ELSE store[k]]
            /\ survivors' = failing
    /\ recent' = ByAge
    /\ lost' = {k \in lost : store'[k] # NoEntry}
    /\ dropped' = {}
    /\ UNCHANGED <<marks, holder, observed, pc, locals, world, ops, writeFaults, past, code, stops>>

(* The program stops: what it kept in memory is gone.                      *)
Stop ==
    /\ up /\ stops < MaxStops
    /\ up' = FALSE /\ stops' = stops + 1
    /\ budget' = EmptyBudget
    /\ pending' = {} /\ invMarks' = <<>> /\ evictMarks' = <<>> /\ ledger' = <<>>
    /\ holder' = [k \in Keys |-> NoThread]
    /\ observed' = 0
    /\ pc' = [t \in Threads |-> "idle"]
    /\ snap' = [t \in Threads |-> 0]
    /\ got' = [t \in Threads |-> NoEntry]
    /\ val' = [t \in Threads |-> NoValue]
    /\ bytes' = [t \in Threads |-> 0]
    /\ todo' = [t \in Threads |-> <<>>]
    /\ sweep' = [t \in Threads |-> {}]
    /\ cut' = [t \in Threads |-> [k \in Keys |-> 0]]
    /\ floor' = [t \in Threads |-> 0]
    /\ booked' = [t \in Threads |-> <<>>]
    /\ forecast' = [t \in Threads |-> "none"]
    /\ lost' = {k \in lost \union pending : store[k] # NoEntry}
    /\ recent' = <<>> /\ survivors' = {} /\ dropped' = {}
    /\ UNCHANGED <<store, key, world, ops, faults, gen, condemned, code>>

(* The source is edited, or an edit is reverted.                           *)
Edit ==
    /\ ~ up
    /\ code' \in Codes \ {code}
    /\ UNCHANGED <<vars, up, stops, tales>>

-----------------------------------------------------------------------------
(* What stats() and inspect() say of the namespace.                        *)

(* stats(): `current_bytes`, over the entries of all code.                 *)
CurrentBytes == SumFunction([k \in {j \in Present : store[j].size # NoSize} |-> store[k].size])

(* Mutant: quarantined entries are listed.                                 *)
InspectAll == Present

(* inspect(): the keys of its views.                                       *)
Inspect == Present \ pending

-----------------------------------------------------------------------------
(* The program runs, and the history is kept.                              *)
Unchanged(k) == store'[k] = store[k] /\ store[k] # NoEntry

Used(t) == (pc[t] # "served" /\ pc'[t] = "served") \/ (pc[t] = "admit" /\ pc'[t] # "admit")

DeleteFailed(t) ==
    /\ pc[t] \in {"retry_delete", "delete_stale", "delete_refuted", "invalidate", "profile_delete"}
    /\ pc'[t] # pc[t] /\ deleteFaults' > deleteFaults

Dropped(t) == {k \in Present : pc[t] \in {"evict", "drain"} /\ store'[k] = NoEntry}

Tell(t) ==
    /\ recent' = IF Used(t) THEN Append(Drop(recent, key[t]), key[t]) ELSE recent
    /\ survivors' = {k \in survivors : Unchanged(k)}
                        \union (IF DeleteFailed(t) THEN {key[t]} ELSE {})
    /\ lost' = {k \in lost \ pending' : Unchanged(k)}
    /\ dropped' = IF pc[t] = "clear_marks" THEN {}
                  ELSE {k \in dropped \union Dropped(t) : store'[k] = NoEntry}

Runs ==
    /\ up
    /\ \E t \in Threads :
        /\ \/ \E k \in Keys : CodeOf[k] = code /\ (StartCall(t, k) \/ StartInvalidate(t, k) \/ StartProfile(t, k))
           \/ StartClear(t)
           \/ Step(t)
        /\ Tell(t)
    /\ UNCHANGED life

(* An earlier program has left its entries: written without max_memory=,   *)
(* or under a larger one.                                                  *)
EarlierRun ==
    /\ ~ up /\ stops = 0 /\ Present = {} /\ ops = 0 /\ clock = 0
    /\ store' \in LeftOvers
    /\ gen' = [k \in Keys |-> IF store'[k] = NoEntry THEN 0 ELSE 1]
    /\ UNCHANGED <<budget, marks, holder, observed, pc, locals, world, ops, faults, condemned,
                   cut, floor, forecast, booked, life, tales>>

PersistentInit ==
    /\ Init
    /\ up = FALSE /\ code \in Codes /\ stops = 0
    /\ recent = <<>> /\ survivors = {} /\ lost = {} /\ dropped = {}

PersistentNext ==
    Runs \/ (World /\ UNCHANGED <<life, tales>>) \/ Stop \/ Edit \/ EarlierRun \/ Decorate

PersistentSpec == PersistentInit /\ [][PersistentNext]_allVars

-----------------------------------------------------------------------------
(* Properties.                                                             *)
UpAtRest == up /\ AtRest

SizesOf(S) == SumFunction([k \in S |-> store[k].size])

(* policy.py: `_total` is the sum of the tracked sizes and never exceeds   *)
(* max_bytes, through any mix of admissions, forgets, evictions and        *)
(* rehydrations.                                                           *)
TotalIsBoundedSum ==
    /\ budget.total = SumFunction([k \in Tracked(budget) |-> SizeOf(budget, k)])
    /\ Cardinality(Tracked(budget)) = Len(budget.lru)
    /\ budget.total <= MaxBytes

(* policy.py admit(): whatever the history, also across a restart, the     *)
(* next admission evicts keys last used before every survivor, and no more *)
(* of them than it must.                                                   *)
LastUse(k) == CHOOSE i \in DOMAIN recent : recent[i] = k

EvictsLeastRecentlyUsed ==
    HasBudget => \A k \in Keys, size \in Storable :
        LET gone == Range(Admit(budget, k, size).evicted)
            stay == Tracked(budget) \ (gone \union {k})
            newest == CHOOSE j \in gone : \A i \in gone : LastUse(i) <= LastUse(j)
        IN  /\ \A j \in gone, survivor \in stay : LastUse(j) < LastUse(survivor)
            /\ gone # {} =>
                SumFunction([j \in stay \union {newest} |-> SizeOf(budget, j)]) + size > MaxBytes

(* max_memory= holds across restarts, as stats() reports it: outside of    *)
(* any operation the entries of the namespace fit, those apart whose       *)
(* delete has failed.                                                      *)
BoundHoldsAcrossRestarts ==
    (HasBudget /\ UpAtRest) =>
        CurrentBytes <= MaxBytes
            + SizesOf({k \in Present : store[k].size # NoSize /\ (k \in survivors \/ InSeq(k, ledger))})

(* The budget knows every entry it could evict: what is stored for this    *)
(* code, has a size and is no left-over of a failed delete is tracked with *)
(* its size, also after a program stopped between set and admit.           *)
EveryEntryIsAccounted ==
    (HasBudget /\ UpAtRest) =>
        \A k \in Sized \ survivors :
            ~ InSeq(k, ledger) => k \in Tracked(budget) /\ SizeOf(budget, k) = store[k].size

(* _rehydrate_budget: of the entries that fit at all, decoration keeps as  *)
(* many of the newest as fit together, and no others.                      *)
RestartKeepsTheNewest ==
    [][(HasBudget /\ ~ up /\ up') =>
        LET fitting == {k \in Sized : Fits(store[k].size)}
            Newer(j, k) == store[j].expires > store[k].expires
                            \/ (store[j].expires = store[k].expires /\ Rank[j] > Rank[k])
            From(k) == {j \in fitting : j = k \/ Newer(j, k)}
        IN  Tracked(budget') = {k \in fitting : Fits(SizesOf(From(k)))}]_allVars

(* A failed invalidate() keeps the entry from being served and listed;     *)
(* only a restart forgets that, and it forgets no more than that.          *)
OnlyARestartLiftsTheQuarantine ==
    /\ \A t \in Threads :
        (pc[t] = "served" /\ got[t].gen <= floor[t]) => key[t] \in lost
    /\ UpAtRest => \A k \in Inspect :
        store[k].gen > condemned[k] \/ Expired(store[k], Now(clock)) \/ k \in lost

(* explain(): an entry the budget dropped, whether at once or by a retry   *)
(* of the ledger, is reported as evicted until it is invalidated, cleared  *)
(* or forgotten by a restart.                                              *)
EvictionsAreExplained ==
    UpAtRest => \A k \in dropped : Explain(k) \in {"evicted", "invalidated"}
=============================================================================
