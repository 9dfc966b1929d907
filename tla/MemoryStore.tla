----------------------------- MODULE MemoryStore ----------------------------
(***************************************************************************)
(* MemoryBackend of src/src/cachau/memory.py: a dictionary that threads    *)
(* share, by default all decorated functions of the program (decorator.py  *)
(* `_default_backend`).  get, peek, set, delete and the copies the         *)
(* iterators take are single operations on the dictionary, so that a       *)
(* reader has no step of its own; clear(namespace) copies the dictionary   *)
(* and replaces it, two steps between which other threads run.             *)
(* An entry is the number of the set that stored it.                       *)
(***************************************************************************)
EXTENDS Naturals

CONSTANTS
    Threads, Keys, Namespaces,
    NsOf,           \* the namespace of each key
    None,
    MaxSets         \* bound: how many entries are set

VARIABLES
    entries,    \* the dictionary: the entry of each key, or None
    sets,       \* number of sets so far
    clearing,   \* what a thread inside clear(namespace) is about to put in its place
    forgotten   \* history: the entries of each key up to this one are to be forgotten

vars == <<entries, sets, clearing, forgotten>>

Init ==
    /\ entries = [k \in Keys |-> None]
    /\ sets = 0
    /\ clearing = [t \in Threads |-> None]
    /\ forgotten = [k \in Keys |-> 0]

Set(t, k) ==
    /\ clearing[t] = None /\ sets < MaxSets
    /\ sets' = sets + 1
    /\ entries' = [entries EXCEPT ![k] = sets']
    /\ UNCHANGED <<clearing, forgotten>>

Delete(t, k) ==
    /\ clearing[t] = None
    /\ entries' = [entries EXCEPT ![k] = None]
    /\ forgotten' = [forgotten EXCEPT ![k] = sets]
    /\ UNCHANGED <<sets, clearing>>

ClearAll(t) ==
    /\ clearing[t] = None
    /\ entries' = [k \in Keys |-> None]
    /\ forgotten' = [k \in Keys |-> sets]
    /\ UNCHANGED <<sets, clearing>>

(* The snapshot of the entries of the other namespaces.                    *)
ClearSnapshots(t, ns) ==
    /\ clearing[t] = None
    /\ clearing' = [clearing EXCEPT ![t] =
            [ns |-> ns, since |-> sets,
             kept |-> [k \in Keys |-> IF NsOf[k] = ns THEN None ELSE entries[k]]]]
    /\ UNCHANGED <<entries, sets, forgotten>>

(* The dictionary is replaced, whatever happened to it since.              *)
ClearReplaces(t) ==
    /\ clearing[t] # None
    /\ entries' = clearing[t].kept
    /\ forgotten' = [k \in Keys |->
            IF NsOf[k] = clearing[t].ns /\ clearing[t].since > forgotten[k]
            THEN clearing[t].since ELSE forgotten[k]]
    /\ clearing' = [clearing EXCEPT ![t] = None]
    /\ UNCHANGED sets

Next ==
    \E t \in Threads :
        \/ \E k \in Keys : Set(t, k) \/ Delete(t, k)
        \/ ClearAll(t)
        \/ \E ns \in Namespaces : ClearSnapshots(t, ns)
        \/ ClearReplaces(t)

Spec == Init /\ [][Next]_vars

(* clear() "Forget every stored result for this function", invalidate()    *)
(* "Forget the stored result for one specific invocation", and a clear of  *)
(* another function costs at most "a benign later miss": an entry that was *)
(* stored before a delete or a clear that has returned is not in the       *)
(* store.                                                                  *)
ForgottenStaysForgotten ==
    \A k \in Keys : entries[k] # None => entries[k] > forgotten[k]
=============================================================================
