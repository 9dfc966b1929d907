----------------------------- MODULE AtomicStore ----------------------------
(***************************************************************************)
(* What a store promises the engine: the protocol CacheBackend of          *)
(* src/src/cachau/backend.py, as the users of get, peek, set, delete,      *)
(* clear and iter_metadata see it.                                         *)
(*                                                                         *)
(* Every call takes effect at one instant between its begin and its end,   *)
(* except clear, which removes one entry after the other.  A set that      *)
(* raises has not landed.  A read answers an entry of its key or nothing,  *)
(* and never raises.  An entry may be lost; a power loss may undo what was *)
(* not yet synchronised.                                                   *)
(***************************************************************************)
EXTENDS Naturals

CONSTANTS Procs, Keys, Namespaces, NsOf, NoEntry

VARIABLES
    store,      \* the number of the entry of each key, or NoEntry
    undo,       \* what a power loss may bring back for each key
    landed,     \* number of sets that took effect
    call        \* what each process is doing: [op, key, scope, phase, answer]

vars == <<store, undo, landed, call>>

Call(op, key, scope, phase) ==
    [op |-> op, key |-> key, scope |-> scope, phase |-> phase, answer |-> NoEntry]
Idle == Call("none", NoEntry, NoEntry, "idle")
Keyed == {"set", "get", "peek", "delete"}

Doing(p, op) == call[p].op = op /\ call[p].phase = "pending"
Ends(p, how) == call' = [call EXCEPT ![p].phase = how]

(* The entry of k changes to e; until a synchronisation it may come back.  *)
Becomes(k, e) ==
    /\ store' = [store EXCEPT ![k] = e]
    /\ undo' = [undo EXCEPT ![k] = @ \union {store[k]}]

Init ==
    /\ store = [k \in Keys |-> NoEntry]
    /\ undo = [k \in Keys |-> {}]
    /\ landed = 0
    /\ call = [p \in Procs |-> Idle]

Beginnings ==
    {Call(op, k, NoEntry, "pending") : op \in Keyed, k \in Keys}
    \union {Call("clear", NoEntry, scope, "pending") : scope \in Namespaces \union {"all"}}
    \union {Call("scan", NoEntry, NoEntry, "pending")}

Begin(p) ==
    /\ call[p] = Idle
    /\ \E begun \in Beginnings : call' = [call EXCEPT ![p] = begun]
    /\ UNCHANGED <<store, undo, landed>>

Set(p) ==
    /\ Doing(p, "set")
    /\ landed' = landed + 1
    /\ Becomes(call[p].key, landed + 1)
    /\ call' = [call EXCEPT ![p].phase = "landed"]

(* A set returns, and the directory may have been synchronised.            *)
Synchronise(p) ==
    /\ call[p].phase = "landed"
    /\ undo' \in {undo, [k \in Keys |-> {}]}
    /\ Ends(p, "done")
    /\ UNCHANGED <<store, landed>>

(* A read takes its answer here; get may go on to remove what it found     *)
(* unreadable, and takes an entry that landed meanwhile with it.           *)
Read(p) ==
    /\ Doing(p, "get") \/ Doing(p, "peek")
    /\ \E answer \in {store[call[p].key], NoEntry} :
        call' = [call EXCEPT ![p].phase = "read", ![p].answer = answer]
    /\ UNCHANGED <<store, undo, landed>>

ReadEnds(p) ==
    /\ call[p].phase = "read"
    /\ call' = [call EXCEPT ![p].phase = "done"]
    /\ \/ UNCHANGED <<store, undo>>
       \/ call[p].op = "get" /\ call[p].answer = NoEntry /\ Becomes(call[p].key, NoEntry)
    /\ UNCHANGED landed

Delete(p) ==
    /\ Doing(p, "delete")
    /\ Becomes(call[p].key, NoEntry)
    /\ Ends(p, "done")
    /\ UNCHANGED landed

InScope(scope, k) == scope \in {"all", NsOf[k]}

Clear(p) ==
    /\ Doing(p, "clear")
    /\ \E k \in Keys : InScope(call[p].scope, k) /\ Becomes(k, NoEntry)
    /\ UNCHANGED <<landed, call>>

(* What changes the store may raise, and a scan; a read may not.           *)
Raise(p) ==
    /\ Doing(p, "set") \/ Doing(p, "delete") \/ Doing(p, "clear") \/ Doing(p, "scan")
    /\ Ends(p, "raised")
    /\ UNCHANGED <<store, undo, landed>>

Completed(p) ==
    /\ Doing(p, "clear") \/ Doing(p, "scan")
    /\ Ends(p, "done")
    /\ UNCHANGED <<store, undo, landed>>

Return(p) ==
    /\ call[p].phase \in {"done", "raised"}
    /\ call' = [call EXCEPT ![p] = Idle]
    /\ UNCHANGED <<store, undo, landed>>

(* The environment: a file is damaged, a process is killed, power is lost. *)
Lose(k) == store' = [store EXCEPT ![k] = NoEntry] /\ UNCHANGED <<undo, landed, call>>

Crash(p) == call' = [call EXCEPT ![p] = Idle] /\ UNCHANGED <<store, undo, landed>>

PowerLoss ==
    /\ store' \in [Keys -> UNION {undo[k] \union {store[k]} : k \in Keys}]
    /\ \A k \in Keys : store'[k] \in undo[k] \union {store[k]}
    /\ undo' = [k \in Keys |-> {}]
    /\ call' = [p \in Procs |-> Idle]
    /\ UNCHANGED landed

Next ==
    \/ \E p \in Procs :
        \/ Begin(p) \/ Set(p) \/ Synchronise(p) \/ Read(p) \/ ReadEnds(p) \/ Delete(p)
        \/ Clear(p) \/ Raise(p) \/ Completed(p) \/ Return(p) \/ Crash(p)
    \/ \E k \in Keys : Lose(k)
    \/ PowerLoss

Spec == Init /\ [][Next]_vars
=============================================================================
