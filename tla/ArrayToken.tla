----------------------------- MODULE ArrayToken -----------------------------
(***************************************************************************)
(* tokens.py: array_token(), the digest of a big value memoized for each   *)
(* live object in a dictionary indexed by id() and used without a lock.    *)
(*                                                                         *)
(* Objects are born at an address, may die when no call holds them, and    *)
(* leave the address to the next one.  The callback of a dead weak         *)
(* reference runs at any time after the death (the comment in prune allows *)
(* for a new object at the address by then), its get and its del with      *)
(* other steps in between.  The dictionary's own operations are atomic.    *)
(* The caller's contract is kept: an object's content never changes.       *)
(***************************************************************************)
CONSTANTS Threads, Objects, Addresses, Contents, NoOne,
          Referable   \* the objects that can be weakly referenced

ASSUME TokenAssumption ==
    /\ NoOne \notin Objects
    /\ "unborn" \notin Addresses /\ "dead" \notin Addresses

VARIABLES
    address,  \* where an object lives; "unborn" and "dead" have no address
    content,  \* what it holds
    memo,     \* _TOKEN_MEMO: at an address, the object referenced and a digest
    thread,   \* a call of array_token: [pc, object, hit, token]
    callback  \* the prune callback of a dead object: [pc, key]

tokenVars == <<address, content, memo, thread, callback>>

NoHit == [ref |-> NoOne, digest |-> NoOne]

\* _digest_value: collision free.
DigestOf(c) == <<"digest", c>>

Entries == {NoHit} \union [ref : Objects, digest : {DigestOf(c) : c \in Contents}]

Calls == [pc : {"idle", "get", "check", "hash", "insert", "done"},
          object : Objects \union {NoOne}, hit : Entries,
          token : {DigestOf(c) : c \in Contents} \union {NoOne}]

Idle == [pc |-> "idle", object |-> NoOne, hit |-> NoHit, token |-> NoOne]

Live(o) == address[o] \in Addresses

Held(o) == \E t \in Threads : thread[t].object = o

TokenInit ==
    /\ address = [o \in Objects |-> "unborn"]
    /\ content = [o \in Objects |-> NoOne]
    /\ memo = [a \in Addresses |-> NoHit]
    /\ thread = [t \in Threads |-> Idle]
    /\ callback = [o \in Objects |-> [pc |-> "idle", key |-> NoOne]]

Born(o, a, c) ==
    /\ address[o] = "unborn" /\ \A p \in Objects : address[p] # a
    /\ address' = [address EXCEPT ![o] = a]
    /\ content' = [content EXCEPT ![o] = c]
    /\ UNCHANGED <<memo, thread, callback>>

Call(t, o) ==
    /\ thread[t].pc = "idle" /\ Live(o)
    /\ thread' = [thread EXCEPT ![t] = [Idle EXCEPT !.pc = "get", !.object = o]]
    /\ UNCHANGED <<address, content, memo, callback>>

\* hit = _TOKEN_MEMO.get(id(value))
Get(t) ==
    /\ thread[t].pc = "get"
    /\ thread' = [thread EXCEPT ![t].pc = "check",
                                ![t].hit = memo[address[thread[t].object]]]
    /\ UNCHANGED <<address, content, memo, callback>>

\* A bug the module's header names: the memo is trusted by address alone.
IsTheObjectAtItsAddress(t) == thread[t].hit # NoHit

\* hit is not None and hit[0]() is value
IsTheObject(t) == thread[t].hit.ref = thread[t].object

Hit(t) ==
    /\ thread[t].pc = "check" /\ IsTheObject(t)
    /\ thread' = [thread EXCEPT ![t].pc = "done", ![t].token = thread[t].hit.digest]
    /\ UNCHANGED <<address, content, memo, callback>>

Miss(t) ==
    /\ thread[t].pc = "check" /\ ~IsTheObject(t)
    /\ thread' = [thread EXCEPT ![t].pc = "hash"]
    /\ UNCHANGED <<address, content, memo, callback>>

\* The digest, and the weak reference with its callback when there can be one.
Hash(t) ==
    /\ thread[t].pc = "hash"
    /\ thread' = [thread EXCEPT
            ![t].pc = IF thread[t].object \in Referable THEN "insert" ELSE "done",
            ![t].token = DigestOf(content[thread[t].object])]
    /\ UNCHANGED <<address, content, memo, callback>>

Insert(t) ==
    /\ thread[t].pc = "insert"
    /\ memo' = [memo EXCEPT ![address[thread[t].object]] =
                   [ref |-> thread[t].object, digest |-> thread[t].token]]
    /\ thread' = [thread EXCEPT ![t].pc = "done"]
    /\ UNCHANGED <<address, content, callback>>

\* The caller takes the token and lets go of the value.
Return(t) ==
    /\ thread[t].pc = "done"
    /\ thread' = [thread EXCEPT ![t] = Idle]
    /\ UNCHANGED <<address, content, memo, callback>>

\* The reference in the memo is the only one whose callback is still alive: one
\* replaced there is gone, and its callback with it.
Die(o) ==
    /\ Live(o) /\ ~Held(o)
    /\ address' = [address EXCEPT ![o] = "dead"]
    /\ callback' = IF memo[address[o]].ref = o
                   THEN [callback EXCEPT ![o] = [pc |-> "get", key |-> address[o]]]
                   ELSE callback
    /\ UNCHANGED <<content, memo, thread>>

\* A bug: the callback compares the whole memo entry with the reference.
PruneNeverFindsItself(o) == FALSE

\* current is not None and current[0] is dead_reference
PruneFindsItself(o) == memo[callback[o].key].ref = o

PruneGet(o) ==
    /\ callback[o].pc = "get"
    /\ callback' = [callback EXCEPT ![o].pc = IF PruneFindsItself(o) THEN "del" ELSE "idle"]
    /\ UNCHANGED <<address, content, memo, thread>>

\* del _TOKEN_MEMO[memo_key], whatever is there by now; KeyError is passed over.
PruneDel(o) ==
    /\ callback[o].pc = "del"
    /\ memo' = [memo EXCEPT ![callback[o].key] = NoHit]
    /\ callback' = [callback EXCEPT ![o].pc = "idle"]
    /\ UNCHANGED <<address, content, thread>>

TokenNext ==
    \/ \E o \in Objects, a \in Addresses, c \in Contents : Born(o, a, c)
    \/ \E t \in Threads, o \in Objects : Call(t, o)
    \/ \E t \in Threads : \/ Get(t) \/ Hit(t) \/ Miss(t) \/ Hash(t) \/ Insert(t)
                          \/ Return(t)
    \/ \E o \in Objects : Die(o) \/ PruneGet(o) \/ PruneDel(o)

TokenSpec == TokenInit /\ [][TokenNext]_tokenVars

----------------------------------------------------------------------------

TokenTypeOK ==
    /\ address \in [Objects -> Addresses \union {"unborn", "dead"}]
    /\ content \in [Objects -> Contents \union {NoOne}]
    /\ memo \in [Addresses -> Entries]
    /\ thread \in [Threads -> Calls]
    /\ callback \in [Objects -> [pc : {"idle", "get", "del"},
                                 key : Addresses \union {NoOne}]]

\* The token a call returns is the digest of the very object it was given,
\* though the memo is indexed by addresses that are used again, and pruned by
\* callbacks that may run late (tokens.py:12-16: "identity-SAFE", and 41-42: a
\* race costs "one re-hash, never a wrong digest").
TokensDescribeContents ==
    \A t \in Threads :
        thread[t].pc = "done" => thread[t].token = DigestOf(content[thread[t].object])

\* "Entries are pruned when their object dies": an entry that outlives its
\* object has a callback on its way to remove it, so the memo does not grow
\* with the objects that were ever tokenized.
DeadEntriesAreBeingPruned ==
    \A a \in Addresses : memo[a] # NoHit /\ ~Live(memo[a].ref) => callback[memo[a].ref].pc # "idle"
=============================================================================
