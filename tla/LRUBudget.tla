------------------------------ MODULE LRUBudget -----------------------------
(***************************************************************************)
(* class LRUBudget of src/src/cachau/policy.py as operators on a budget    *)
(* value.  Every method runs under the budget's own mutex, so each         *)
(* operator is one atomic step of whoever uses it.                         *)
(*                                                                         *)
(* A budget is [lru, total]: lru is the OrderedDict `_sizes`, a sequence   *)
(* of [key, size] from least to most recently used, and total is `_total`. *)
(***************************************************************************)
EXTENDS Integers, Sequences, FiniteSetsExt

CONSTANT MaxBytes

ASSUME MaxBytesAssumption == MaxBytes \in Nat

EmptyBudget == [lru |-> <<>>, total |-> 0]

Tracked(b) == {b.lru[i].key : i \in DOMAIN b.lru}

Place(b, k) == CHOOSE i \in DOMAIN b.lru : b.lru[i].key = k

SizeOf(b, k) == b.lru[Place(b, k)].size

(* What is left of an OrderedDict when its i-th item is popped.            *)
Popped(seq, i) == SubSeq(seq, 1, i - 1) \o SubSeq(seq, i + 1, Len(seq))

Without(b, k) == Popped(b.lru, Place(b, k))

Fits(size) == size <= MaxBytes

(* Mutant: a hit does not refresh recency.                                 *)
TouchIgnored(b, k) == b

Touch(b, k) ==
    IF k \in Tracked(b)
    THEN [b EXCEPT !.lru = Append(Without(b, k), [key |-> k, size |-> SizeOf(b, k)])]
    ELSE b

(* Mutant: the total keeps the size of a forgotten key.                    *)
ForgetKeepsTotal(b, k) ==
    IF k \in Tracked(b) THEN [b EXCEPT !.lru = Without(b, k)] ELSE b

Forget(b, k) ==
    IF k \in Tracked(b)
    THEN [lru |-> Without(b, k), total |-> b.total - SizeOf(b, k)]
    ELSE b

(* Mutant: the loop compares with the bound before the new size is added.  *)
OverBoundLate(total, size) == total > MaxBytes

OverBound(total, size) == total + size > MaxBytes

(* The bytes of the n least recently used entries.                         *)
Freed(b, n) == SumFunction([i \in 1 .. n |-> b.lru[i].size])

(* The eviction loop: from the oldest on, entries leave while the new size *)
(* would exceed the bound and there are any.                               *)
Evictions(b, size) ==
    Min({n \in 0 .. Len(b.lru) :
            n = Len(b.lru) \/ ~ OverBound(b.total - Freed(b, n), size)})

(* admit(): the budget after it and the keys it returns.                   *)
Admit(b, k, size) ==
    LET others == Forget(b, k)
        n == Evictions(others, size)
        kept == SubSeq(others.lru, n + 1, Len(others.lru))
    IN [budget  |-> [lru |-> Append(kept, [key |-> k, size |-> size]),
                     total |-> others.total - Freed(others, n) + size],
        evicted |-> [i \in 1 .. n |-> others.lru[i].key]]
=============================================================================
